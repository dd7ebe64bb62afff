---------------------------- MODULE PipelineProofs ----------------------------
(***************************************************************************)
(* Proofs about the query pipeline: about how its queries interact         *)
(* (Pipeline), for every set of queries and keys and every number of       *)
(* upstream results, and about what its stages compute (Algorithms), for   *)
(* all inputs of the right form.                                           *)
(***************************************************************************)
EXTENDS Pipeline, Algorithms, FiniteSetTheorems, SequenceTheorems, WellFoundedInduction, TLAPS

Live == {"new", "waiting"} \cup Working

(***************************************************************************)
(* The inductive invariant                                                 *)
(***************************************************************************)
\* A registered entry belongs to a query of its key that is being worked on
\* and has not set its future.
EntriesOwned ==
  \A k \in Keys : pending[k] # NoQuery =>
    KeyOf[pending[k]] = k /\ pc[pending[k]] \in Working

\* A query that is being worked on has the entry of its key.
OwnersListed == \A q \in Queries : pc[q] \in Working => pending[KeyOf[q]] = q

\* A query sets its future when it ends and not before.
FreshFutures == \A q \in Queries : pc[q] \in Live => future[q] = Unset

\* A waiting query joined one of its own key, whose entry is still there as
\* long as its future is not set.
WaitersJoined ==
  \A q \in Queries : pc[q] = "waiting" =>
    /\ joined[q] \in Queries
    /\ future[joined[q]] = Unset => pending[KeyOf[q]] = joined[q]

ControlInv == EntriesOwned /\ OwnersListed /\ FreshFutures /\ WaitersJoined

\* What a query holds before it ends it has made itself.
FinalsOwn ==
  \A q \in Queries : pc[q] \in Live /\ final[q] # Nothing =>
    final[q].key = KeyOf[q] /\ final[q].by = q

\* A query that has been dispatched or redirected has something to return.
Answered == {"hooks", "response"}
AnsweredHasFinal ==
  \A q \in Queries : pc[q] \in Answered => final[q] # Nothing

DataInv == FinalsOwn /\ AnsweredHasFinal /\ FollowersAgree /\ CachedAsReturned

\* Every hook task was started for a result of its own.
HooksStarted == \A q \in Queries : hooks[q] <= results[q]

IInv == TypeOK /\ HooksStarted /\ ControlInv /\ DataInv
-----------------------------------------------------------------------------
(***************************************************************************)
(* The shapes of the steps                                                 *)
(***************************************************************************)
\* A query goes from one suspension of its own work to another.
Move(q) ==
  /\ pc[q] \in Working
  /\ \E s \in Working : pc' = [pc EXCEPT ![q] = s]
  /\ \/ UNCHANGED final /\ (pc'[q] \in Answered => pc[q] \in Answered)
     \/ \E kind \in {"answer", "nxdomain", "servfail"} :
          final' = [final EXCEPT ![q] = Made(q, kind)]
  /\ UNCHANGED <<joined, future, pending, cache>>

\* A query becomes the owner of its key.
Register(q) ==
  /\ pc[q] \in {"new", "waiting"} /\ pending[KeyOf[q]] = NoQuery
  /\ \E s \in Working \ Answered : pc' = [pc EXCEPT ![q] = s]
  /\ pending' = [pending EXCEPT ![KeyOf[q]] = q]
  /\ UNCHANGED <<final, joined, future, cache>>

\* A query waits for the owner of its key.
Join(q) ==
  /\ pc[q] \in {"new", "waiting"} /\ pending[KeyOf[q]] # NoQuery
  /\ pc' = [pc EXCEPT ![q] = "waiting"]
  /\ joined' = [joined EXCEPT ![q] = pending[KeyOf[q]]]
  /\ UNCHANGED <<final, future, pending, cache>>

\* A query that owns nothing ends.
EndIdle(q, outcome, ending) ==
  /\ pc[q] \in {"new", "waiting"}
  /\ Leave(q, outcome, ending)
  /\ UNCHANGED <<joined, future, pending, cache>>

\* An owner ends and completes its entry.
EndOwner(q, outcome, ending, value) ==
  /\ pc[q] \in Working
  /\ Leave(q, outcome, ending)
  /\ CompletePending(KeyOf[q], value)
  /\ \/ UNCHANGED cache
     \/ /\ ending = "done" /\ outcome = final[q] /\ outcome.kind = "answer"
        /\ cache' = [cache EXCEPT ![KeyOf[q]] = outcome]
  /\ UNCHANGED joined
-----------------------------------------------------------------------------
LEMMA Markers ==
  Unset \notin Outcome /\ Recheck \notin Outcome /\ Nothing \notin Outcome /\ Unset # Recheck
BY DEF Unset, Recheck, Nothing, Outcome

LEMMA MadeType ==
  ASSUME NEW q \in Queries,
         NEW kind \in {"answer", "static", "nxdomain", "servfail", "formerr"}
  PROVE  /\ Made(q, kind) \in Outcome
         /\ Made(q, kind).key = KeyOf[q] /\ Made(q, kind).by = q
BY PipelineAssumption DEF Made, Outcome

LEMMA CompleteType ==
  ASSUME TypeOK, NEW k \in Keys, NEW value \in Outcome \cup {Recheck},
         CompletePending(k, value)
  PROVE  /\ future' \in [Queries -> Outcome \cup {Unset, Recheck}]
         /\ pending' \in [Keys -> Queries \cup {NoQuery}]
<1>1. CASE pending[k] = NoQuery
  BY <1>1 DEF TypeOK, CompletePending
<1>2. CASE pending[k] # NoQuery
  <2>1. pending[k] \in Queries BY <1>2 DEF TypeOK
  <2> QED BY <1>2, <2>1 DEF TypeOK, CompletePending
<1> QED BY <1>1, <1>2

LEMMA LeaveType ==
  ASSUME TypeOK, NEW q \in Queries, NEW outcome \in Outcome, NEW ending \in Ended,
         Leave(q, outcome, ending)
  PROVE  /\ pc' \in [Queries -> {"new", "waiting"} \cup Working \cup Ended]
         /\ final' \in [Queries -> Outcome \cup {Nothing}]
         /\ hooks' \in [Queries -> 0 .. MaxResults]
BY PipelineAssumption DEF TypeOK, Leave, Ended

-----------------------------------------------------------------------------
(***************************************************************************)
(* Every step has one of the shapes                                        *)
(***************************************************************************)
\* What a step does to the variables that the invariant is about.
Shape ==
  \/ \E q \in Queries : Move(q) \/ Register(q) \/ Join(q)
  \/ \E q \in Queries, outcome \in Outcome, ending \in Ended :
       EndIdle(q, outcome, ending)
  \/ \E q \in Queries, outcome \in Outcome, ending \in Ended,
        value \in Outcome \cup {Recheck} :
       /\ ending = "done" => value \in {Recheck, outcome}
       /\ EndOwner(q, outcome, ending, value)
  \/ \E k \in Keys : Expire(k)
  \/ UNCHANGED vars

\* What holds of the variables that Shape leaves open.
CountersOK ==
  /\ results' \in [Queries -> 0 .. MaxResults]
  /\ hooks' \in [Queries -> 0 .. MaxResults]
  /\ HooksStarted'

LEMMA LeaveCounters ==
  ASSUME TypeOK, HooksStarted, NEW q \in Queries, NEW outcome, NEW ending,
         Leave(q, outcome, ending), UNCHANGED results
  PROVE  CountersOK
BY PipelineAssumption DEF CountersOK, HooksStarted, TypeOK, Leave

LEMMA RequestShape ==
  ASSUME TypeOK, HooksStarted, NEW q \in Queries, pc[q] \in {"new", "waiting"}, RequestCached(q)
  PROVE  Shape /\ CountersOK
<1> DEFINE k == KeyOf[q]
<1>0. k \in Keys BY PipelineAssumption
<1>1. CASE cache[k] # Nothing
  <2>1. cache[k] \in Outcome BY <1>0, <1>1 DEF TypeOK
  <2>2. EndIdle(q, cache[k], "done") BY <1>1 DEF RequestCached, EndIdle
  <2>3. CountersOK
    BY <1>1, <2>1, LeaveCounters DEF RequestCached, Ended
  <2> QED BY <2>1, <2>2, <2>3 DEF Shape, Ended
<1>2. CASE cache[k] = Nothing /\ pending[k] = NoQuery
  <2>1. Register(q) BY <1>2 DEF RequestCached, Register, Working, Answered
  <2> QED BY <1>2, <2>1 DEF RequestCached, Shape, CountersOK, HooksStarted, TypeOK
<1>3. CASE cache[k] = Nothing /\ pending[k] # NoQuery
  <2>1. Join(q) BY <1>3 DEF RequestCached, Join
  <2> QED BY <1>3, <2>1 DEF RequestCached, Shape, CountersOK, HooksStarted, TypeOK
<1> QED BY <1>1, <1>2, <1>3

LEMMA MoveShape ==
  ASSUME TypeOK, HooksStarted, NEW q \in Queries,
         \/ EndRedirect(q) \/ UpstreamResult(q) \/ EndHook(q)
         \/ EndDispatch(q) \/ EndHooks(q)
  PROVE  Shape /\ CountersOK
<1>1. CASE EndRedirect(q)
  <2>1. Move(q) BY <1>1 DEF EndRedirect, Move, Working, Answered, TypeOK
  <2> QED BY <1>1, <2>1 DEF EndRedirect, Shape, CountersOK, HooksStarted, TypeOK
<1>2. CASE UpstreamResult(q)
  <2>1. pc' = [pc EXCEPT ![q] = pc[q]] BY <1>2 DEF UpstreamResult, TypeOK
  <2>2. Move(q) BY <1>2, <2>1 DEF UpstreamResult, Move, Working, Answered, TypeOK
  <2> QED BY <1>2, <2>2, PipelineAssumption DEF UpstreamResult, Shape, CountersOK, HooksStarted, TypeOK
<1>3. CASE EndHook(q)
  <2>1. pc' = [pc EXCEPT ![q] = pc[q]] BY <1>3 DEF EndHook, TypeOK
  <2>2. Move(q) BY <1>3, <2>1 DEF EndHook, Move, Working, Answered, TypeOK
  <2> QED BY <1>3, <2>2, PipelineAssumption DEF EndHook, Shape, CountersOK, HooksStarted, TypeOK
<1>4. CASE EndDispatch(q)
  <2>1. Move(q) BY <1>4 DEF EndDispatch, Move, Working, Answered, TypeOK
  <2> QED BY <1>4, <2>1 DEF EndDispatch, Shape, CountersOK, HooksStarted, TypeOK
<1>5. CASE EndHooks(q)
  <2>1. Move(q) BY <1>5 DEF EndHooks, Move, Working, Answered, TypeOK
  <2> QED BY <1>5, <2>1 DEF EndHooks, Shape, CountersOK, HooksStarted, TypeOK
<1> QED BY <1>1, <1>2, <1>3, <1>4, <1>5

LEMMA IdleShape ==
  ASSUME TypeOK, HooksStarted,
         NEW q \in Queries, NEW outcome \in Outcome, NEW ending \in Ended,
         pc[q] \in {"new", "waiting"}, Leave(q, outcome, ending),
         UNCHANGED <<results, joined, future, pending, cache>>
  PROVE  Shape /\ CountersOK
<1>1. EndIdle(q, outcome, ending) BY DEF EndIdle
<1>2. CountersOK BY LeaveCounters
<1> QED BY <1>1, <1>2 DEF Shape

LEMMA OwnerShape ==
  ASSUME TypeOK, HooksStarted,
         NEW q \in Queries, NEW outcome \in Outcome, NEW ending \in Ended,
         NEW value \in Outcome \cup {Recheck},
         ending = "done" => value \in {Recheck, outcome},
         EndOwner(q, outcome, ending, value), UNCHANGED results
  PROVE  Shape /\ CountersOK
<1>1. CountersOK BY LeaveCounters DEF EndOwner
<1> QED BY <1>1 DEF Shape

LEMMA EndShape ==
  ASSUME TypeOK, HooksStarted, AnsweredHasFinal, NEW q \in Queries,
         EndResponse(q) \/ Fail(q) \/ Cancel(q)
  PROVE  Shape /\ CountersOK
<1>0. /\ Made(q, "static") \in Outcome /\ Made(q, "servfail") \in Outcome
      /\ "done" \in Ended /\ "cancelled" \in Ended
  BY MadeType DEF Ended
<1>1. CASE EndResponse(q)
  <2>0. pc[q] \in Working BY <1>1 DEF EndResponse, Working
  <2>1. CASE /\ Leave(q, Made(q, "static"), "done")
             /\ OnFinish(q, Made(q, "static"))
             /\ UNCHANGED cache
    <3>1. EndOwner(q, Made(q, "static"), "done", Made(q, "static"))
      BY <1>1, <2>0, <2>1 DEF EndResponse, OnFinish, EndOwner
    <3> QED BY <1>0, <1>1, <3>1, OwnerShape DEF EndResponse
  <2>2. CASE /\ Leave(q, final[q], "done") /\ final[q].kind = "answer"
             /\ cache' = [cache EXCEPT ![KeyOf[q]] = final[q]]
             /\ CompletePending(KeyOf[q], Recheck)
    <3>1. final[q] \in Outcome BY <2>2 DEF TypeOK, Nothing
    <3>2. EndOwner(q, final[q], "done", Recheck)
      BY <1>1, <2>0, <2>2 DEF EndResponse, EndOwner
    <3> QED BY <1>0, <1>1, <3>1, <3>2, OwnerShape DEF EndResponse
  <2>3. CASE /\ Leave(q, final[q], "done")
             /\ CompletePending(KeyOf[q], final[q]) /\ UNCHANGED cache
    <3>1. final[q] \in Outcome
      BY <1>1 DEF EndResponse, AnsweredHasFinal, Answered, TypeOK
    <3>2. EndOwner(q, final[q], "done", final[q])
      BY <1>1, <2>0, <2>3 DEF EndResponse, EndOwner
    <3> QED BY <1>0, <1>1, <3>1, <3>2, OwnerShape DEF EndResponse
  <2> QED BY <1>1, <2>1, <2>2, <2>3 DEF EndResponse
<1>2. CASE Fail(q)
  <2>0. pc[q] \in Working BY <1>2 DEF Fail, Working
  <2>1. EndOwner(q, Made(q, "servfail"), "done", Made(q, "servfail"))
    BY <1>2, <2>0 DEF Fail, OnFinish, EndOwner
  <2> QED BY <1>0, <1>2, <2>1, OwnerShape DEF Fail
<1>3. CASE Cancel(q) /\ pc[q] \in Working
  <2>1. EndOwner(q, Made(q, "servfail"), "cancelled", Made(q, "servfail"))
    BY <1>3 DEF Cancel, OnFinish, EndOwner
  <2> QED BY <1>0, <1>3, <2>1, OwnerShape DEF Cancel
<1>4. CASE Cancel(q) /\ pc[q] = "waiting"
  <2>1. pc[q] \notin Working BY <1>4 DEF Working
  <2>2. UNCHANGED <<results, joined, future, pending, cache>>
    BY <1>4, <2>1 DEF Cancel, OnFinish
  <2>3. Leave(q, Made(q, "servfail"), "cancelled") BY <1>4 DEF Cancel
  <2> QED BY <1>0, <1>4, <2>2, <2>3, IdleShape
<1>5. Cancel(q) => pc[q] \in Working \/ pc[q] = "waiting" BY DEF Cancel
<1> QED BY <1>1, <1>2, <1>3, <1>4, <1>5

LEMMA NextShape ==
  ASSUME TypeOK, HooksStarted, AnsweredHasFinal, WaitersJoined, [Next]_vars
  PROVE  Shape /\ CountersOK
<1>1. CASE UNCHANGED vars
  BY <1>1 DEF Shape, CountersOK, HooksStarted, vars, TypeOK
<1>2. ASSUME NEW q \in Queries, Arrive(q) PROVE Shape /\ CountersOK
  <2>0. /\ Made(q, "formerr") \in Outcome /\ Made(q, "static") \in Outcome
        /\ "done" \in Ended /\ pc[q] \in {"new", "waiting"}
    BY <1>2, MadeType DEF Ended, Arrive
  <2>1. CASE RequestCached(q) BY <2>0, <2>1, RequestShape
  <2>2. CASE /\ Leave(q, Made(q, "formerr"), "done")
             /\ UNCHANGED <<results, joined, future, pending, cache>>
    BY <2>0, <2>2, IdleShape
  <2>3. CASE /\ Leave(q, Made(q, "static"), "done")
             /\ UNCHANGED <<results, joined, future, pending, cache>>
    BY <2>0, <2>3, IdleShape
  <2> QED BY <1>2, <2>1, <2>2, <2>3 DEF Arrive
<1>3. ASSUME NEW q \in Queries, Wake(q) PROVE Shape /\ CountersOK
  <2>0. "done" \in Ended /\ pc[q] \in {"new", "waiting"} BY <1>3 DEF Ended, Wake
  <2>1. CASE RequestCached(q) BY <2>0, <2>1, RequestShape
  <2>2. CASE /\ future[joined[q]] \in Outcome
             /\ Leave(q, future[joined[q]], "done")
             /\ UNCHANGED <<results, joined, future, pending, cache>>
    BY <2>0, <2>2, IdleShape
  <2>3. joined[q] \in Queries BY <1>3 DEF Wake, WaitersJoined
  <2> QED BY <1>3, <2>1, <2>2, <2>3 DEF Wake, TypeOK
<1>4. ASSUME NEW k \in Keys, Expire(k) PROVE Shape /\ CountersOK
  BY <1>4 DEF Expire, Shape, CountersOK, HooksStarted, TypeOK
<1> QED BY <1>1, <1>2, <1>3, <1>4, MoveShape, EndShape DEF Next, Progress
-----------------------------------------------------------------------------
(***************************************************************************)
(* Each shape preserves the invariant                                      *)
(***************************************************************************)
\* The part of TypeOK that the shapes determine.
ShapeTypes ==
  /\ pc \in [Queries -> Live \cup Ended]
  /\ final \in [Queries -> Outcome \cup {Nothing}]
  /\ joined \in [Queries -> Queries \cup {NoQuery}]
  /\ future \in [Queries -> Outcome \cup {Unset, Recheck}]
  /\ pending \in [Keys -> Queries \cup {NoQuery}]
  /\ cache \in [Keys -> Outcome \cup {Nothing}]

ShapeInv == ShapeTypes /\ ControlInv /\ DataInv

LEMMA States ==
  /\ Working \cap Ended = {} /\ Live \cap Ended = {} /\ Working \subseteq Live
  /\ Answered \subseteq Working
  /\ "waiting" \in Live /\ "waiting" \notin Working /\ "waiting" \notin Ended
  /\ "new" \in Live /\ "new" \notin Working
  /\ "done" \in Ended /\ "done" \notin Live /\ "waiting" \notin Answered
BY DEF Working, Ended, Live, Answered

\* An entry names its query: no entry but that of q's key can be q's.
LEMMA KeyTypes == KeyOf \in [Queries -> Keys] /\ NoQuery \notin Queries
BY PipelineAssumption

LEMMA MoveKeeps ==
  ASSUME ShapeInv, NEW q \in Queries, Move(q)
  PROVE  ShapeInv'
<1> USE DEF ShapeInv
<1>0. PICK s \in Working : pc' = [pc EXCEPT ![q] = s] BY DEF Move
<1>1. pc'[q] \in Working /\ \A p \in Queries \ {q} : pc'[p] = pc[p]
  BY <1>0 DEF ShapeTypes
<1> DEFINE FinalStep ==
             /\ final' \in [Queries -> Outcome \cup {Nothing}]
             /\ \A p \in Queries \ {q} : final'[p] = final[p]
             /\ final'[q] # Nothing /\ final[q] # final'[q] =>
                  final'[q].key = KeyOf[q] /\ final'[q].by = q
             /\ pc'[q] \in Answered => final'[q] # Nothing
<1>2. FinalStep
  <2>1. CASE UNCHANGED final /\ (pc'[q] \in Answered => pc[q] \in Answered)
    BY <2>1 DEF ShapeTypes, DataInv, AnsweredHasFinal
  <2>2. ASSUME NEW kind \in {"answer", "nxdomain", "servfail"},
               final' = [final EXCEPT ![q] = Made(q, kind)]
        PROVE  FinalStep
    BY <2>2, MadeType, Markers DEF ShapeTypes
  <2> QED BY <2>1, <2>2 DEF Move
<1>3. UNCHANGED <<joined, future, pending, cache>> /\ pc[q] \in Working BY DEF Move
<1>4. ShapeTypes' BY <1>0, <1>2, <1>3, States DEF ShapeTypes
<1>5. ControlInv'
  <2>1. EntriesOwned' BY <1>1, <1>3, KeyTypes DEF ControlInv, EntriesOwned, ShapeTypes
  <2>2. OwnersListed' BY <1>1, <1>3 DEF ControlInv, OwnersListed
  <2>3. FreshFutures' BY <1>1, <1>3, States DEF ControlInv, FreshFutures
  <2>4. WaitersJoined' BY <1>1, <1>3, States DEF ControlInv, WaitersJoined
  <2> QED BY <2>1, <2>2, <2>3, <2>4 DEF ControlInv
<1>6. DataInv'
  <2>1. FinalsOwn' BY <1>1, <1>2, <1>3, States DEF DataInv, FinalsOwn
  <2>2. AnsweredHasFinal' BY <1>1, <1>2 DEF DataInv, AnsweredHasFinal
  <2>3. FollowersAgree' BY <1>1, <1>2, <1>3, States DEF DataInv, FollowersAgree
  <2>4. CachedAsReturned'
    BY <1>1, <1>2, <1>3, States DEF DataInv, CachedAsReturned, ShapeTypes, Outcome
  <2> QED BY <2>1, <2>2, <2>3, <2>4 DEF DataInv
<1> QED BY <1>4, <1>5, <1>6

LEMMA RegisterKeeps ==
  ASSUME ShapeInv, NEW q \in Queries, Register(q)
  PROVE  ShapeInv'
<1> USE DEF ShapeInv
<1>0. PICK s \in Working \ Answered : pc' = [pc EXCEPT ![q] = s] BY DEF Register
<1>1. /\ pc'[q] \in Working \ Answered /\ \A p \in Queries \ {q} : pc'[p] = pc[p]
      /\ pc[q] \in Live /\ pc[q] \notin Ended
  BY <1>0, States DEF ShapeTypes, Register
<1>2. /\ pending'[KeyOf[q]] = q /\ pending[KeyOf[q]] = NoQuery
      /\ \A k \in Keys \ {KeyOf[q]} : pending'[k] = pending[k]
  BY KeyTypes DEF ShapeTypes, Register
<1>3. UNCHANGED <<final, joined, future, cache>> BY DEF Register
<1>4. ShapeTypes' BY <1>0, <1>3, KeyTypes, States, ZenonT(60) DEF ShapeTypes, Register
<1>5. ControlInv'
  <2>1. EntriesOwned'
    BY <1>1, <1>2, KeyTypes DEF ControlInv, EntriesOwned, ShapeTypes
  <2>2. OwnersListed'
    BY <1>1, <1>2, KeyTypes DEF ControlInv, OwnersListed
  <2>3. FreshFutures' BY <1>1, <1>3, States DEF ControlInv, FreshFutures
  <2>4. WaitersJoined'
    BY <1>1, <1>2, <1>3, KeyTypes, States DEF ControlInv, WaitersJoined
  <2> QED BY <2>1, <2>2, <2>3, <2>4 DEF ControlInv
<1>6. DataInv'
  <2>1. FinalsOwn' BY <1>1, <1>3 DEF DataInv, FinalsOwn
  <2>2. AnsweredHasFinal' BY <1>1, <1>3 DEF DataInv, AnsweredHasFinal
  <2>3. FollowersAgree' BY <1>1, <1>3, States DEF DataInv, FollowersAgree
  <2>4. CachedAsReturned'
    BY <1>1, <1>3, States DEF DataInv, CachedAsReturned, ShapeTypes, Outcome
  <2> QED BY <2>1, <2>2, <2>3, <2>4 DEF DataInv
<1> QED BY <1>4, <1>5, <1>6

LEMMA JoinKeeps ==
  ASSUME ShapeInv, NEW q \in Queries, Join(q)
  PROVE  ShapeInv'
<1> USE DEF ShapeInv
<1>1. /\ pc'[q] = "waiting" /\ \A p \in Queries \ {q} : pc'[p] = pc[p]
      /\ pc[q] \in Live /\ pc[q] \notin Ended /\ pc[q] \notin Working
  BY States DEF ShapeTypes, Join
<1>2. /\ joined'[q] = pending[KeyOf[q]] /\ pending[KeyOf[q]] \in Queries
      /\ \A p \in Queries \ {q} : joined'[p] = joined[p]
  BY KeyTypes DEF ShapeTypes, Join
<1>3. UNCHANGED <<final, future, pending, cache>> BY DEF Join
<1>4. ShapeTypes' BY <1>2, <1>3, States DEF ShapeTypes, Join
<1>5. ControlInv'
  <2>1. EntriesOwned'
    BY <1>1, <1>3, KeyTypes DEF ControlInv, EntriesOwned, ShapeTypes
  <2>2. OwnersListed' BY <1>1, <1>3, States DEF ControlInv, OwnersListed
  <2>3. FreshFutures' BY <1>1, <1>3, States DEF ControlInv, FreshFutures
  <2>4. WaitersJoined' BY <1>1, <1>2, <1>3 DEF ControlInv, WaitersJoined
  <2> QED BY <2>1, <2>2, <2>3, <2>4 DEF ControlInv
<1>6. DataInv'
  <2>1. FinalsOwn' BY <1>1, <1>3 DEF DataInv, FinalsOwn
  <2>2. AnsweredHasFinal' BY <1>1, <1>3, States DEF DataInv, AnsweredHasFinal
  <2>3. FollowersAgree' BY <1>1, <1>3, States DEF DataInv, FollowersAgree
  <2>4. CachedAsReturned'
    BY <1>1, <1>3, States DEF DataInv, CachedAsReturned, ShapeTypes, Outcome
  <2> QED BY <2>1, <2>2, <2>3, <2>4 DEF DataInv
<1> QED BY <1>4, <1>5, <1>6

LEMMA IdleKeeps ==
  ASSUME ShapeInv, NEW q \in Queries, NEW outcome \in Outcome, NEW ending \in Ended,
         EndIdle(q, outcome, ending)
  PROVE  ShapeInv'
<1> USE DEF ShapeInv
<1>1. /\ pc'[q] \in Ended /\ \A p \in Queries \ {q} : pc'[p] = pc[p]
      /\ pc[q] \in Live /\ pc[q] \notin Ended /\ pc[q] \notin Working
  BY States DEF ShapeTypes, EndIdle, Leave
<1>2. \A p \in Queries \ {q} : final'[p] = final[p]
  BY DEF ShapeTypes, EndIdle, Leave
<1>3. UNCHANGED <<joined, future, pending, cache>> BY DEF EndIdle
<1>4. ShapeTypes' BY <1>3 DEF ShapeTypes, EndIdle, Leave
<1>5. ControlInv'
  <2>1. EntriesOwned'
    BY <1>1, <1>3, KeyTypes DEF ControlInv, EntriesOwned, ShapeTypes
  <2>2. OwnersListed' BY <1>1, <1>3, States DEF ControlInv, OwnersListed
  <2>3. FreshFutures' BY <1>1, <1>3, States DEF ControlInv, FreshFutures
  <2>4. WaitersJoined' BY <1>1, <1>3, States DEF ControlInv, WaitersJoined
  <2> QED BY <2>1, <2>2, <2>3, <2>4 DEF ControlInv
<1>6. DataInv'
  <2>1. FinalsOwn' BY <1>1, <1>2, States DEF DataInv, FinalsOwn
  <2>2. AnsweredHasFinal' BY <1>1, <1>2, States DEF DataInv, AnsweredHasFinal
  <2>3. FollowersAgree'
    <3>1. future'[q] = Unset BY <1>1, <1>3 DEF ControlInv, FreshFutures
    <3> QED BY <1>1, <1>2, <1>3, <3>1 DEF DataInv, FollowersAgree
  <2>4. CachedAsReturned'
    BY <1>1, <1>2, <1>3, States DEF DataInv, CachedAsReturned, ShapeTypes, Outcome
  <2> QED BY <2>1, <2>2, <2>3, <2>4 DEF DataInv
<1> QED BY <1>4, <1>5, <1>6

LEMMA OwnerKeeps ==
  ASSUME ShapeInv, NEW q \in Queries, NEW outcome \in Outcome, NEW ending \in Ended,
         NEW value \in Outcome \cup {Recheck},
         ending = "done" => value \in {Recheck, outcome},
         EndOwner(q, outcome, ending, value)
  PROVE  ShapeInv'
<1> USE DEF ShapeInv
<1> DEFINE k == KeyOf[q]
<1>0. k \in Keys /\ pending[k] = q /\ q # NoQuery
  BY KeyTypes DEF EndOwner, ControlInv, OwnersListed
<1>1. /\ pc'[q] = ending /\ \A p \in Queries \ {q} : pc'[p] = pc[p]
      /\ pc[q] \in Working
  BY DEF ShapeTypes, EndOwner, Leave
<1>2. final'[q] = outcome /\ \A p \in Queries \ {q} : final'[p] = final[p]
  BY DEF ShapeTypes, EndOwner, Leave
<1>3. /\ pending' = [pending EXCEPT ![k] = NoQuery]
      /\ future' = [future EXCEPT ![q] = value]
  BY <1>0 DEF EndOwner, CompletePending
<1>4. /\ pending'[k] = NoQuery /\ \A j \in Keys \ {k} : pending'[j] = pending[j]
      /\ future'[q] = value /\ \A p \in Queries \ {q} : future'[p] = future[p]
  BY <1>0, <1>3 DEF ShapeTypes
<1>5. joined' = joined BY DEF EndOwner
<1>6. ShapeTypes'
  BY <1>0, <1>3, <1>5, KeyTypes DEF ShapeTypes, EndOwner, Leave
<1>7. ControlInv'
  <2>1. EntriesOwned'
    BY <1>0, <1>1, <1>4, KeyTypes DEF ControlInv, EntriesOwned, ShapeTypes
  <2>2. OwnersListed'
    BY <1>0, <1>1, <1>4, KeyTypes, States DEF ControlInv, OwnersListed
  <2>3. FreshFutures' BY <1>1, <1>4, States DEF ControlInv, FreshFutures
  <2>4. WaitersJoined'
    <3> SUFFICES ASSUME NEW p \in Queries, pc'[p] = "waiting"
                 PROVE  /\ joined'[p] \in Queries
                        /\ future'[joined'[p]] = Unset => pending'[KeyOf[p]] = joined'[p]
      BY DEF WaitersJoined
    <3>1. p # q /\ pc[p] = "waiting" BY <1>1, States
    <3>2. /\ joined[p] \in Queries
          /\ future[joined[p]] = Unset => pending[KeyOf[p]] = joined[p]
      BY <3>1 DEF ControlInv, WaitersJoined
    <3>3. CASE joined[p] = q
      BY <1>4, <1>5, <3>2, <3>3, Markers
    <3>4. CASE joined[p] # q
      BY <1>0, <1>4, <1>5, <3>2, <3>4, KeyTypes
    <3> QED BY <3>3, <3>4
  <2> QED BY <2>1, <2>2, <2>3, <2>4 DEF ControlInv
<1>8. DataInv'
  <2>1. FinalsOwn' BY <1>1, <1>2, States DEF DataInv, FinalsOwn
  <2>2. AnsweredHasFinal' BY <1>1, <1>2, States DEF DataInv, AnsweredHasFinal
  <2>3. FollowersAgree' BY <1>1, <1>2, <1>4 DEF DataInv, FollowersAgree
  <2>4. CachedAsReturned'
    <3>1. ASSUME UNCHANGED cache PROVE CachedAsReturned'
      BY <1>1, <1>2, <3>1, States DEF DataInv, CachedAsReturned, ShapeTypes, Outcome
    <3>2. ASSUME ending = "done", outcome = final[q], outcome.kind = "answer",
                 cache' = [cache EXCEPT ![k] = outcome]
          PROVE  CachedAsReturned'
      <4>1. final[q].key = k /\ final[q].by = q
        BY <1>1, <3>2, Markers, States DEF DataInv, FinalsOwn
      <4>2. cache'[k] = outcome /\ \A j \in Keys \ {k} : cache'[j] = cache[j]
        BY <1>0, <3>2 DEF ShapeTypes
      <4> QED
        BY <1>1, <1>2, <3>2, <4>1, <4>2, States
        DEF DataInv, CachedAsReturned, ShapeTypes, Outcome
    <3> QED BY <3>1, <3>2 DEF EndOwner
  <2> QED BY <2>1, <2>2, <2>3, <2>4 DEF DataInv
<1> QED BY <1>6, <1>7, <1>8

LEMMA ExpireKeeps ==
  ASSUME ShapeInv, NEW k \in Keys, Expire(k)
  PROVE  ShapeInv'
<1> USE DEF ShapeInv
<1>1. UNCHANGED <<pc, final, joined, future, pending>> BY DEF Expire
<1>2. cache'[k] = Nothing /\ \A j \in Keys \ {k} : cache'[j] = cache[j]
  BY DEF Expire, ShapeTypes
<1>3. ShapeTypes' BY <1>1 DEF ShapeTypes, Expire
<1>4. ControlInv'
  BY <1>1 DEF ControlInv, EntriesOwned, OwnersListed, FreshFutures, WaitersJoined
<1>5. CachedAsReturned' BY <1>1, <1>2 DEF DataInv, CachedAsReturned
<1>6. DataInv'
  BY <1>1, <1>5 DEF DataInv, FinalsOwn, AnsweredHasFinal, FollowersAgree
<1> QED BY <1>3, <1>4, <1>6
-----------------------------------------------------------------------------
LEMMA InitInv == Init => IInv
<1> SUFFICES ASSUME Init PROVE IInv
  OBVIOUS
<1>1. TypeOK BY PipelineAssumption DEF Init, TypeOK
<1>2. HooksStarted
  <2> SUFFICES ASSUME NEW q \in Queries PROVE hooks[q] <= results[q]
    BY DEF HooksStarted
  <2>1. hooks[q] = 0 /\ results[q] = 0 BY DEF Init
  <2> QED BY <2>1
<1>3. ControlInv
  BY PipelineAssumption
  DEF Init, ControlInv, EntriesOwned, OwnersListed, FreshFutures, WaitersJoined,
      Working
<1>4. DataInv
  BY DEF Init, DataInv, FinalsOwn, AnsweredHasFinal, Answered, FollowersAgree,
         CachedAsReturned
<1> QED BY <1>1, <1>2, <1>3, <1>4 DEF IInv

LEMMA NextInv == IInv /\ [Next]_vars => IInv'
<1> SUFFICES ASSUME IInv, [Next]_vars PROVE IInv'
  OBVIOUS
<1>1. ShapeInv BY DEF IInv, ShapeInv, ShapeTypes, TypeOK, Live
<1>2. Shape /\ CountersOK BY NextShape DEF IInv, ControlInv, DataInv
<1>3. ShapeInv'
  <2>1. CASE UNCHANGED vars
    BY <1>1, <2>1
    DEF vars, ShapeInv, ShapeTypes, ControlInv, EntriesOwned, OwnersListed,
        FreshFutures, WaitersJoined, DataInv, FinalsOwn, AnsweredHasFinal,
        FollowersAgree, CachedAsReturned
  <2> QED
    BY <1>1, <1>2, <2>1, MoveKeeps, RegisterKeeps, JoinKeeps, IdleKeeps, OwnerKeeps,
       ExpireKeeps
    DEF Shape
<1> QED BY <1>2, <1>3 DEF IInv, ShapeInv, ShapeTypes, TypeOK, Live, CountersOK

LEMMA Invariance == Spec => []IInv
BY InitInv, NextInv, PTL DEF Spec

\* The state of the pipeline stays well typed: no hook task is counted off that
\* was not started for a result.
THEOREM TypeCorrect == Spec => []TypeOK
<1>1. IInv => TypeOK BY DEF IInv
<1> QED BY Invariance, <1>1, PTL

\* However many queries come, fail and are cancelled, the cache plugin forgets no
\* waiter: its future is set, or its owner still works and will find the entry.
THEOREM NoFollowerForgotten == Spec => []FollowersAreReachable
<1>1. IInv => FollowersAreReachable
  <2> SUFFICES ASSUME IInv, NEW q \in Queries, pc[q] = "waiting",
                      future[joined[q]] = Unset
               PROVE  pending[KeyOf[q]] = joined[q] /\ pc[joined[q]] \in Working
    BY DEF FollowersAreReachable
  <2>1. joined[q] \in Queries /\ pending[KeyOf[q]] = joined[q]
    BY DEF IInv, ControlInv, WaitersJoined
  <2> QED BY <2>1, KeyTypes DEF IInv, ControlInv, EntriesOwned
<1> QED BY Invariance, <1>1, PTL

\* At most one query per key is worked on, redirects and failed owners included.
THEOREM OneOwnerPerKey == Spec => []OwnerInv
<1>1. IInv => OneOwner BY DEF IInv, ControlInv, OwnersListed, OneOwner
<1>2. IInv => OwnerInv BY <1>1 DEF IInv, OwnerInv
<1> QED BY Invariance, <1>2, PTL

\* The followers of a query that returns get what it returns, and the cache holds
\* only NOERROR answers to their own key, as they were returned.
THEOREM SharedResponses == Spec => []SharedAsReturned
<1>1. IInv => SharedAsReturned BY DEF IInv, DataInv, SharedAsReturned
<1> QED BY Invariance, <1>1, PTL
-----------------------------------------------------------------------------
(***************************************************************************)
(* What the stages of the pipeline compute: loops and lists                *)
(***************************************************************************)
\* A non-empty set of naturals has a least element.
LEMMA LeastNat ==
  ASSUME NEW S, S \subseteq Nat, S # {}
  PROVE  \E n \in S : \A m \in S : n <= m
<1> DEFINE Less == {ss \in Nat \X Nat : ss[1] < ss[2]}
<1>1. IsWellFoundedOn(Less, Nat) BY NatLessThanWellFounded DEF OpToRel
<1>2. \A x, y \in Nat : <<x, y>> \in Less <=> x < y OBVIOUS
<1> HIDE DEF Less
<1>3. \E n \in S : \A m \in S : ~(<<m, n>> \in Less) BY <1>1, WFMin
<1>4. \A x, y \in S : <<x, y>> \in Less \/ y <= x
  <2>1. \A x, y \in Nat : x < y \/ y <= x OBVIOUS
  <2> QED BY <1>2, <2>1
<1> QED BY <1>3, <1>4

\* Induction up to N, over a set rather than a predicate.
LEMMA UpTo ==
  ASSUME NEW N \in Nat, NEW G, 0 \in G, \A n \in 1 .. N : n - 1 \in G => n \in G
  PROVE  \A n \in 0 .. N : n \in G
<1> DEFINE Bad == {n \in 0 .. N : n \notin G}
<1>1. SUFFICES ASSUME Bad # {} PROVE FALSE OBVIOUS
<1>2. PICK n \in Bad : \A m \in Bad : n <= m
  <2>1. Bad \subseteq Nat OBVIOUS
  <2> HIDE DEF Bad
  <2> QED BY <1>1, <2>1, LeastNat
<1>3. n \in 1 .. N /\ n \notin G BY <1>2
<1>4. n - 1 \in 0 .. N /\ ~(n <= n - 1) BY <1>3
<1>5. n - 1 \in G BY <1>2, <1>4
<1> QED BY <1>3, <1>5

\* A loop over 1 .. N whose state stays in T has a trace.
StepsIn(step, N, T) == step \in [(1 .. N) \X T -> T]
TraceOf(f, step, N, T, base) ==
  f \in [0 .. N -> T] /\ f[0] = base /\ \A n \in 1 .. N : f[n] = step[<<n, f[n - 1]>>]

\* Such a function exists, defined step by step, and is the only one.
LEMMA Loop ==
  ASSUME NEW T, NEW N \in Nat, NEW base \in T, NEW step, StepsIn(step, N, T)
  PROVE  \E f : TraceOf(f, step, N, T, base)
<1> USE DEF StepsIn
<1> DEFINE E(f, n) == IF n = 0 THEN base ELSE step[<<n, f[n - 1]>>]
           Traced(k) == \E f \in [0 .. k -> T] : \A n \in 0 .. k : f[n] = E(f, n)
           G == {k \in 0 .. N : Traced(k)}
<1>1. 0 \in G
  <2> DEFINE f == [n \in 0 .. 0 |-> base]
  <2>1. f \in [0 .. 0 -> T] /\ \A n \in 0 .. 0 : f[n] = E(f, n) OBVIOUS
  <2>2. Traced(0)
    <3> HIDE DEF f
    <3> QED BY <2>1
  <2> QED BY <2>2
<1>2. ASSUME NEW k \in 1 .. N, k - 1 \in G PROVE k \in G
  <2>1. PICK f \in [0 .. k - 1 -> T] : \A n \in 0 .. k - 1 : f[n] = E(f, n) BY <1>2
  <2> DEFINE g == [n \in 0 .. k |-> IF n = k THEN step[<<k, f[k - 1]>>] ELSE f[n]]
  <2>2. k - 1 \in 0 .. k - 1 /\ k # 0 /\ k \in 0 .. N OBVIOUS
  <2>3. f[k - 1] \in T BY <2>2
  <2>4. step[<<k, f[k - 1]>>] \in T BY <2>3
  <2>5. \A n \in 0 .. k : n # k => n \in 0 .. k - 1 OBVIOUS
  <2>6. g \in [0 .. k -> T] BY <2>4, <2>5
  <2>7. \A n \in 0 .. k : n # 0 => n - 1 \in 0 .. k - 1 /\ n - 1 \in 0 .. k /\ n - 1 # k OBVIOUS
  <2>8. \A n \in 0 .. k : n # 0 => g[n - 1] = f[n - 1] BY <2>7
  <2>9. \A n \in 0 .. k : n # k => g[n] = f[n] OBVIOUS
  <2>10. g[k] = step[<<k, f[k - 1]>>] BY <2>2
  <2> HIDE DEF g
  <2>11. \A n \in 0 .. k : g[n] = E(g, n)
    <3> SUFFICES ASSUME NEW n \in 0 .. k PROVE g[n] = E(g, n) OBVIOUS
    <3>1. CASE n = k BY <3>1, <2>2, <2>8, <2>10
    <3>2. CASE n # k BY <3>2, <2>1, <2>5, <2>8, <2>9
    <3> QED BY <3>1, <3>2
  <2> QED BY <2>2, <2>6, <2>11
<1>3. N \in 0 .. N /\ 0 \in 0 .. N /\ \A n \in 1 .. N : n \in 0 .. N /\ n # 0 OBVIOUS
<1>4. Traced(N)
  <2> HIDE DEF Traced
  <2>1. \A n \in 1 .. N : n - 1 \in G => n \in G BY <1>2
  <2> HIDE DEF G
  <2>2. N \in G BY <1>1, <2>1, <1>3, UpTo
  <2> QED BY <2>2 DEF G
<1>5. PICK f \in [0 .. N -> T] : \A n \in 0 .. N : f[n] = E(f, n) BY <1>4
<1>6. f[0] = base /\ \A n \in 1 .. N : f[n] = step[<<n, f[n - 1]>>] BY <1>3, <1>5
<1>7. TraceOf(f, step, N, T, base) BY <1>6 DEF TraceOf
<1> QED BY <1>7

\* The loop of Kept.
KeptTrace(k, S, s, good) ==
  /\ k \in [0 .. Len(s) -> Seq(S)]
  /\ k[0] = <<>> /\ Kept(s, good) = k[Len(s)]
  /\ \A n \in 1 .. Len(s) :
       k[n] = IF n \in good THEN Append(k[n - 1], s[n]) ELSE k[n - 1]

\* Kept runs that loop.
LEMMA KeptLoop ==
  ASSUME NEW S, NEW s \in Seq(S), NEW good
  PROVE  \E k : KeptTrace(k, S, s, good)
<1> DEFINE N == Len(s)
           step == [x \in (1 .. N) \X Seq(S) |->
                      IF x[1] \in good THEN Append(x[2], s[x[1]]) ELSE x[2]]
           W(f) == f = [n \in 0 .. N |-> IF n = 0 THEN <<>>
                          ELSE IF n \in good THEN Append(f[n - 1], s[n]) ELSE f[n - 1]]
<1>1. N \in Nat /\ \A n \in 1 .. N : s[n] \in S OBVIOUS
<1>2. step \in [(1 .. N) \X Seq(S) -> Seq(S)] BY <1>1
<1>3. <<>> \in Seq(S) OBVIOUS
<1>4. PICK f : TraceOf(f, step, N, Seq(S), <<>>)
  <2>1. StepsIn(step, N, Seq(S)) BY <1>2 DEF StepsIn
  <2> HIDE DEF N, step
  <2> QED BY <1>1, <1>3, <2>1, Loop
<1>5. \A n \in 0 .. N : n # 0 => n \in 1 .. N /\ f[n - 1] \in Seq(S) BY <1>1, <1>4 DEF TraceOf
<1>6. \A n \in 0 .. N : n # 0 =>
        f[n] = IF n \in good THEN Append(f[n - 1], s[n]) ELSE f[n - 1] BY <1>4, <1>5 DEF TraceOf
<1>7. W(f)
  <2> HIDE DEF step
  <2>1. f = [n \in 0 .. N |-> f[n]] /\ f[0] = <<>> BY <1>4 DEF TraceOf
  <2> QED BY <2>1, <1>6
<1>8. Kept(s, good) = (CHOOSE g : W(g))[N] BY DEF Kept
<1>9. W(CHOOSE g : W(g))
  <2> HIDE DEF W
  <2> QED BY <1>7
<1>10. (CHOOSE g : W(g)) = f
  <2> DEFINE g == CHOOSE g : W(g)
             G == {n \in 0 .. N : g[n] = f[n]}
  <2> HIDE DEF g
  <2>1. W(g) BY <1>9 DEF g
  <2>2. 0 \in G BY <2>1, <1>7, <1>1
  <2>3. ASSUME NEW n \in 1 .. N, n - 1 \in G PROVE n \in G
    <3>1. n \in 0 .. N /\ n # 0 /\ g[n - 1] = f[n - 1] BY <2>3, <1>1
    <3>2. g[n] = IF n \in good THEN Append(g[n - 1], s[n]) ELSE g[n - 1] BY <2>1, <3>1
    <3>3. f[n] = IF n \in good THEN Append(f[n - 1], s[n]) ELSE f[n - 1] BY <1>7, <3>1
    <3>4. g[n] = f[n]
      <4> HIDE DEF W
      <4> QED BY <3>1, <3>2, <3>3
    <3> QED BY <3>1, <3>4
  <2>4. \A n \in 0 .. N : n \in G
    <3> HIDE DEF G, W
    <3> QED BY <2>2, <2>3, <1>1, UpTo
  <2>5. g = f BY <2>1, <1>7, <2>4
  <2> QED BY <2>5, SMTT(60) DEF g
<1>11. 0 \in 0 .. N /\ \A n \in 1 .. N : n \in 0 .. N /\ n # 0 BY <1>1
<1>12. f \in [0 .. N -> Seq(S)] /\ f[0] = <<>> BY <1>4 DEF TraceOf
<1>13. \A n \in 1 .. N : f[n] = IF n \in good THEN Append(f[n - 1], s[n]) ELSE f[n - 1] BY <1>7, <1>11
<1>14. Kept(s, good) = f[N] BY <1>8, <1>10
<1>15. KeptTrace(f, S, s, good) BY <1>12, <1>13, <1>14 DEF KeptTrace
<1> QED BY <1>15

\* e lists in order the places up to n that are good, and k the items there.
PlacesOf(e, k, s, good, n) ==
  /\ e \in [1 .. Len(k) -> 1 .. n]
  /\ \A i, j \in 1 .. Len(k) : i < j => e[i] < e[j]
  /\ \A i \in 1 .. Len(k) : e[i] \in good /\ k[i] = s[e[i]]
  /\ \A m \in 1 .. n : m \in good => \E i \in 1 .. Len(k) : e[i] = m

\* Kept returns the items at the good places in their order.
LEMMA KeptPlaces ==
  ASSUME NEW S, NEW s \in Seq(S), NEW good
  PROVE  /\ Kept(s, good) \in Seq(S)
         /\ \E e : PlacesOf(e, Kept(s, good), s, good, Len(s))
<1> DEFINE N == Len(s)
<1>1. N \in Nat /\ N \in 0 .. N /\ DOMAIN s = 1 .. N OBVIOUS
<1> PICK k : KeptTrace(k, S, s, good) BY KeptLoop
<1>2. /\ k \in [0 .. N -> Seq(S)] /\ k[0] = <<>> /\ Kept(s, good) = k[N]
      /\ \A n \in 1 .. N : k[n] = IF n \in good THEN Append(k[n - 1], s[n]) ELSE k[n - 1]
  BY DEF KeptTrace
<1> DEFINE G == {n \in 0 .. N : \E e : PlacesOf(e, k[n], s, good, n)}
<1>3. 0 \in G
  <2> DEFINE e == [i \in 1 .. 0 |-> 1]
  <2>1. Len(k[0]) = 0 /\ e \in [1 .. 0 -> 1 .. 0] BY <1>2
  <2>2. PlacesOf(e, k[0], s, good, 0)
    <3> HIDE DEF e
    <3> QED BY <2>1 DEF PlacesOf
  <2> HIDE DEF e
  <2> QED BY <1>1, <2>2
<1>4. ASSUME NEW n \in 1 .. N, n - 1 \in G PROVE n \in G
  <2>1. PICK e : PlacesOf(e, k[n - 1], s, good, n - 1) BY <1>4
  <2>a. n - 1 \in 0 .. N /\ n \in 0 .. N /\ s[n] \in S BY <1>1
  <2>2. n - 1 \in 0 .. N /\ n \in 0 .. N /\ k[n - 1] \in Seq(S) /\ s[n] \in S BY <2>a, <1>2
  <2>3. CASE n \notin good
    <3>1. k[n] = k[n - 1] BY <2>3, <1>2
    <3>2. \A m \in 1 .. n : m \in 1 .. n - 1 \/ m = n BY <2>2
    <3>3. \A m \in 1 .. n - 1 : m \in 1 .. n BY <2>2
    <3>4. PlacesOf(e, k[n], s, good, n) BY <2>1, <2>3, <3>1, <3>2, <3>3 DEF PlacesOf
    <3> QED BY <2>2, <3>4
  <2>4. CASE n \in good
    <3> DEFINE M == Len(k[n - 1])
               d == [i \in 1 .. M + 1 |-> IF i = M + 1 THEN n ELSE e[i]]
    <3>1. k[n] = Append(k[n - 1], s[n]) BY <2>4, <1>2
    <3>2. M \in Nat /\ Len(k[n]) = M + 1 /\ k[n][M + 1] = s[n] /\ \A i \in 1 .. M : k[n][i] = k[n - 1][i]
      BY <2>2, <3>1
    <3>3. \A i \in 1 .. M + 1 : i # M + 1 => i \in 1 .. M BY <3>2
    <3>4. \A i \in 1 .. M : i \in 1 .. M + 1 /\ i # M + 1 BY <3>2
    <3>5. M + 1 \in 1 .. M + 1 BY <3>2
    <3>6. d[M + 1] = n /\ \A i \in 1 .. M : d[i] = e[i] BY <3>4, <3>5
    <3>7. \A i \in 1 .. M : e[i] \in 1 .. n - 1 BY <2>1 DEF PlacesOf
    <3>8. d \in [1 .. M + 1 -> 1 .. n]
      <4>1. \A i \in 1 .. M : e[i] \in 1 .. n BY <3>7, <2>2
      <4> QED BY <3>3, <4>1
    <3> HIDE DEF d, M
    <3>9. \A i, j \in 1 .. M + 1 : i < j => d[i] < d[j]
      <4> SUFFICES ASSUME NEW i \in 1 .. M + 1, NEW j \in 1 .. M + 1, i < j PROVE d[i] < d[j] OBVIOUS
      <4>1. i \in 1 .. M BY <3>2
      <4>2. CASE j = M + 1
        <5>1. e[i] \in 1 .. n - 1 BY <4>1, <3>7
        <5> QED BY <5>1, <4>1, <4>2, <3>6
      <4>3. CASE j \in 1 .. M BY <4>1, <4>3, <3>6, <2>1 DEF PlacesOf, M
      <4> QED BY <4>2, <4>3, <3>3
    <3>10. \A i \in 1 .. M + 1 : d[i] \in good /\ k[n][i] = s[d[i]]
      <4>1. \A i \in 1 .. M : e[i] \in good /\ k[n - 1][i] = s[e[i]] BY <2>1 DEF PlacesOf, M
      <4> QED BY <4>1, <2>4, <3>2, <3>3, <3>6
    <3>11. \A m \in 1 .. n : m \in good => \E i \in 1 .. M + 1 : d[i] = m
      <4> SUFFICES ASSUME NEW m \in 1 .. n, m \in good PROVE \E i \in 1 .. M + 1 : d[i] = m OBVIOUS
      <4>1. CASE m = n BY <4>1, <3>5, <3>6
      <4>2. CASE m # n
        <5>1. m \in 1 .. n - 1 BY <4>2
        <5>2. PICK i \in 1 .. M : e[i] = m BY <5>1, <2>1 DEF PlacesOf, M
        <5> QED BY <5>2, <3>4, <3>6
      <4> QED BY <4>1, <4>2
    <3>12. PlacesOf(d, k[n], s, good, n) BY <3>2, <3>8, <3>9, <3>10, <3>11 DEF PlacesOf
    <3> QED BY <2>2, <3>12
  <2> QED BY <2>3, <2>4
<1>5. N \in G
  <2> HIDE DEF G, N
  <2>1. \A n \in 0 .. N : n \in G BY <1>1, <1>3, <1>4, UpTo
  <2> QED BY <1>1, <2>1
<1> QED BY <1>1, <1>2, <1>5

\* Its items are those at the good places.
LEMMA KeptRange ==
  ASSUME NEW S, NEW s \in Seq(S), NEW good
  PROVE  /\ Kept(s, good) \in Seq(S)
         /\ Range(Kept(s, good)) = {s[i] : i \in good \cap DOMAIN s}
         /\ Kept(s, good) = <<>> <=> good \cap DOMAIN s = {}
<1> DEFINE k == Kept(s, good)
<1>1. k \in Seq(S) /\ Len(s) \in Nat /\ DOMAIN s = 1 .. Len(s) BY KeptPlaces
<1>2. PICK e : PlacesOf(e, k, s, good, Len(s)) BY KeptPlaces
<1> HIDE DEF k
<1>3. DOMAIN k = 1 .. Len(k) /\ Len(k) \in Nat BY <1>1
<1>4. \A i \in DOMAIN k : e[i] \in good \cap DOMAIN s /\ k[i] = s[e[i]] BY <1>1, <1>2, <1>3 DEF PlacesOf
<1>5. \A m \in good \cap DOMAIN s : \E i \in DOMAIN k : e[i] = m BY <1>1, <1>2, <1>3 DEF PlacesOf
<1>6. Range(k) = {s[i] : i \in good \cap DOMAIN s}
  <2>1. ASSUME NEW x \in Range(k) PROVE x \in {s[i] : i \in good \cap DOMAIN s} BY <1>4 DEF Range
  <2>2. ASSUME NEW m \in good \cap DOMAIN s PROVE s[m] \in Range(k) BY <1>4, <1>5 DEF Range
  <2> QED BY <2>1, <2>2
<1>7. k = <<>> <=> DOMAIN k = {} BY <1>1
<1> QED BY <1>1, <1>4, <1>5, <1>6, <1>7 DEF k

\* A list without its repetitions has the same items.
LEMMA DedupRange ==
  ASSUME NEW S, NEW s \in Seq(S)
  PROVE  Dedup(s) \in Seq(S) /\ Range(Dedup(s)) = Range(s) /\ IsInjective(Dedup(s))
<1> DEFINE good == {i \in DOMAIN s : \A j \in 1 .. i - 1 : s[j] # s[i]}
<1>1. Dedup(s) = Kept(s, good) BY DEF Dedup
<1>2. Dedup(s) \in Seq(S) /\ Range(Dedup(s)) = {s[i] : i \in good \cap DOMAIN s}
  <2> HIDE DEF good
  <2> QED BY <1>1, KeptRange
<1>3. Len(s) \in Nat /\ DOMAIN s = 1 .. Len(s) OBVIOUS
<1>4. ASSUME NEW i \in DOMAIN s PROVE \E j \in good : s[j] = s[i]
  <2> DEFINE same == {j \in DOMAIN s : s[j] = s[i]}
  <2>1. same \subseteq Nat /\ same # {} BY <1>3
  <2>2. PICK j \in same : \A m \in same : j <= m
    <3> HIDE DEF same
    <3> QED BY <2>1, LeastNat
  <2>3. \A m \in 1 .. j - 1 : m \in DOMAIN s /\ ~(j <= m) BY <1>3
  <2>4. \A m \in 1 .. j - 1 : s[m] # s[j] BY <2>2, <2>3
  <2> QED BY <2>4
<1>5. Range(s) = {s[i] : i \in good \cap DOMAIN s} BY <1>4 DEF Range
<1>6. IsInjective(Dedup(s))
  <2> DEFINE k == Dedup(s)
  <2>1. PICK e : PlacesOf(e, k, s, good, Len(s)) BY <1>1, KeptPlaces
  <2>2. DOMAIN k = 1 .. Len(k) /\ Len(k) \in Nat BY <1>2
  <2>3. \A a, b \in good : s[a] = s[b] => a = b
    <3> SUFFICES ASSUME NEW a \in good, NEW b \in good, s[a] = s[b], a # b PROVE FALSE OBVIOUS
    <3>1. a \in 1 .. b - 1 \/ b \in 1 .. a - 1 BY <1>3
    <3> QED BY <3>1
  <2> HIDE DEF k, good
  <2>4. \A a, b \in 1 .. Len(k) : k[a] = k[b] => a = b
    <3> SUFFICES ASSUME NEW a \in 1 .. Len(k), NEW b \in 1 .. Len(k), k[a] = k[b] PROVE a = b OBVIOUS
    <3>1. e[a] = e[b] BY <2>1, <2>3 DEF PlacesOf
    <3>2. e[a] \in Nat BY <2>1, <1>3, SMTT(60) DEF PlacesOf
    <3>3. ~(a < b) /\ ~(b < a) BY <2>1, <3>1, <3>2 DEF PlacesOf
    <3>4. a \in Nat /\ b \in Nat BY <2>2
    <3> QED BY <3>3, <3>4
  <2> QED BY <2>2, <2>4 DEF IsInjective, k
<1> QED BY <1>2, <1>5, <1>6

\* The items of a part of a list, and of a list without one of its places.
LEMMA SubSeqRange ==
  ASSUME NEW S, NEW s \in Seq(S), NEW m \in 1 .. Len(s) + 1, NEW n \in 0 .. Len(s)
  PROVE  SubSeq(s, m, n) \in Seq(S) /\ Range(SubSeq(s, m, n)) = {s[j] : j \in m .. n}
<1>1. Len(s) \in Nat /\ m \in Nat /\ n \in Nat /\ 1 <= m OBVIOUS
<1>2. \A i \in m .. n : s[i] \in S BY <1>1
<1> DEFINE t == SubSeq(s, m, n)
<1>3. t \in Seq(S) /\ Len(t) = (IF m <= n THEN n - m + 1 ELSE 0) /\ \A i \in 1 .. n - m + 1 : t[i] = s[m + i - 1]
  BY <1>1, <1>2, SubSeqProperties
<1> HIDE DEF t
<1>4. Range(t) = {t[i] : i \in 1 .. Len(t)} BY <1>3 DEF Range
<1>5. \A i \in 1 .. Len(t) : i \in 1 .. n - m + 1 /\ m + i - 1 \in m .. n BY <1>1, <1>3
<1>6. \A j \in m .. n : j - m + 1 \in 1 .. Len(t) /\ j - m + 1 \in 1 .. n - m + 1 /\ m + (j - m + 1) - 1 = j
  BY <1>1, <1>3
<1>7. \A i \in 1 .. Len(t) : t[i] \in {s[j] : j \in m .. n} BY <1>3, <1>5
<1>8. \A j \in m .. n : s[j] \in {t[i] : i \in 1 .. Len(t)}
  <2> SUFFICES ASSUME NEW j \in m .. n PROVE s[j] \in {t[i] : i \in 1 .. Len(t)} OBVIOUS
  <2>1. t[j - m + 1] = s[m + (j - m + 1) - 1] BY <1>3, <1>6
  <2>2. t[j - m + 1] = s[j] BY <2>1, <1>6
  <2> QED BY <2>2, <1>6
<1> QED BY <1>3, <1>4, <1>7, <1>8 DEF t

\* ... and of a list without one of its places.
LEMMA RemoveAtRange ==
  ASSUME NEW S, NEW s \in Seq(S), NEW i \in 1 .. Len(s)
  PROVE  RemoveAt(s, i) \in Seq(S) /\ Range(RemoveAt(s, i)) = {s[j] : j \in (1 .. Len(s)) \ {i}}
<1> DEFINE N == Len(s)
           a == SubSeq(s, 1, i - 1)
           b == SubSeq(s, i + 1, N)
<1>1. N \in Nat OBVIOUS
<1>2. 1 \in 1 .. N + 1 /\ i - 1 \in 0 .. N /\ i + 1 \in 1 .. N + 1 /\ N \in 0 .. N BY <1>1
<1>3. a \in Seq(S) /\ Range(a) = {s[j] : j \in 1 .. i - 1} BY <1>2, SubSeqRange, ZenonT(60)
<1>4. b \in Seq(S) /\ Range(b) = {s[j] : j \in i + 1 .. N} BY <1>2, SubSeqRange
<1>5. RemoveAt(s, i) = a \o b BY DEF RemoveAt
<1> HIDE DEF a, b
<1>6. a \o b \in Seq(S) /\ Range(a \o b) = Range(a) \cup Range(b) BY <1>3, <1>4, RangeConcatenation
<1>7. (1 .. N) \ {i} = (1 .. i - 1) \cup (i + 1 .. N) BY <1>1
<1> HIDE DEF N
<1> QED BY <1>3, <1>4, <1>5, <1>6, <1>7 DEF N

\* A list without its repetitions is t where every item comes after those that
\* precede it in t.
LEMMA DedupIs ==
  ASSUME NEW S, NEW s \in Seq(S), NEW t \in Seq(S),
         \A p, q \in 1 .. Len(t) : t[p] = t[q] => p = q,
         \A n \in 1 .. Len(s) : \E p \in 1 .. Len(t) : s[n] = t[p],
         \A p \in 1 .. Len(t) : \E n \in 1 .. Len(s) : s[n] = t[p],
         \A n \in 1 .. Len(s), p \in 1 .. Len(t) : s[n] = t[p] =>
           \A q \in 1 .. p - 1 : \E m \in 1 .. n - 1 : s[m] = t[q]
  PROVE  Dedup(s) = t
<1> DEFINE N == Len(s)
           M == Len(t)
           good == {i \in DOMAIN s : \A j \in 1 .. i - 1 : s[j] # s[i]}
<1>1. N \in Nat /\ M \in Nat /\ DOMAIN s = 1 .. N /\ 0 \in 0 .. N /\ N \in 0 .. N OBVIOUS
<1>2. \A n \in 1 .. N : n \in good <=> \A j \in 1 .. n - 1 : s[j] # s[n] BY <1>1
<1>3. Dedup(s) = Kept(s, good) BY DEF Dedup
<1> HIDE DEF good
<1>4. PICK k : KeptTrace(k, S, s, good) BY KeptLoop
<1>5. /\ k[0] = <<>> /\ Dedup(s) = k[N]
      /\ \A n \in 1 .. N : k[n] = IF n \in good THEN Append(k[n - 1], s[n]) ELSE k[n - 1]
  BY <1>3, <1>4 DEF KeptTrace
<1>6. \A m \in 0 .. M : /\ SubSeq(t, 1, m) \in Seq(S) /\ Len(SubSeq(t, 1, m)) = m
                        /\ \A i \in 1 .. m : SubSeq(t, 1, m)[i] = t[i] BY <1>1
<1> DEFINE Seen(n, m) == k[n] = SubSeq(t, 1, m)
                         /\ \A p \in 1 .. M : p <= m <=> \E i \in 1 .. n : s[i] = t[p]
           G == {n \in 0 .. N : \E m \in 0 .. M : Seen(n, m)}
<1>7. 0 \in G
  <2>1. 0 \in 0 .. M /\ SubSeq(t, 1, 0) = <<>> BY <1>1, <1>6
  <2>2. Seen(0, 0) BY <2>1, <1>5
  <2> QED BY <2>1, <2>2, <1>1
<1>8. ASSUME NEW n \in 1 .. N, n - 1 \in G PROVE n \in G
  <2>1. PICK m \in 0 .. M : Seen(n - 1, m) BY <1>8
  <2>2. PICK p \in 1 .. M : s[n] = t[p] OBVIOUS
  <2>3. n \in Nat /\ n - 1 \in Nat /\ n \in 0 .. N /\ m \in Nat /\ p \in Nat BY <1>1
  <2>4. \A q \in 1 .. p - 1 : q \in 1 .. M /\ q <= m
    <3> SUFFICES ASSUME NEW q \in 1 .. p - 1 PROVE q \in 1 .. M /\ q <= m OBVIOUS
    <3>1. q \in 1 .. M BY <2>3, <1>1
    <3>2. \E i \in 1 .. n - 1 : s[i] = t[q] BY <2>2
    <3> QED BY <3>1, <3>2, <2>1
  <2>5. \A x \in 1 .. M : (\E i \in 1 .. n : s[i] = t[x]) <=> (\E i \in 1 .. n - 1 : s[i] = t[x]) \/ x = p
    <3>1. \A i \in 1 .. n : i \in 1 .. n - 1 \/ i = n BY <2>3
    <3>2. \A i \in 1 .. n - 1 : i \in 1 .. n BY <2>3
    <3>3. n \in 1 .. n BY <2>3
    <3> QED BY <3>1, <3>2, <3>3, <2>2
  <2>6. CASE n \in good
    <3>1. ~(p <= m)
      <4>1. \A i \in 1 .. n - 1 : s[i] # t[p] BY <2>6, <2>2, <1>2
      <4> QED BY <4>1, <2>1
    <3>2. p = m + 1
      <4>1. p - 1 # 0 => p - 1 \in 1 .. p - 1 BY <2>3
      <4>2. p - 1 # 0 => p - 1 <= m BY <4>1, <2>4
      <4>3. p - 1 <= m BY <4>2, <2>3
      <4> QED BY <4>3, <3>1, <2>3
    <3>3. m + 1 \in 0 .. M /\ m + 1 \in 1 .. M BY <3>2, <2>3
    <3>4. k[n] = Append(SubSeq(t, 1, m), t[m + 1]) BY <2>1, <2>2, <2>6, <3>2, <1>5
    <3> DEFINE a == SubSeq(t, 1, m)
               b == SubSeq(t, 1, m + 1)
    <3>5. a \in Seq(S) /\ Len(a) = m /\ \A i \in 1 .. m : a[i] = t[i] BY <1>6
    <3>6. b \in Seq(S) /\ Len(b) = m + 1 /\ \A i \in 1 .. m + 1 : b[i] = t[i] BY <1>6, <3>3
    <3>7. t[m + 1] \in S BY <3>3
    <3> HIDE DEF a, b
    <3>8. Append(a, t[m + 1]) = b
      <4> DEFINE last == t[m + 1]
                 c == Append(a, last)
      <4> HIDE DEF last
      <4>1. c \in Seq(S) /\ Len(c) = m + 1 /\ c[m + 1] = t[m + 1] /\ \A i \in 1 .. m : c[i] = a[i]
        <5>1. a \in Seq(S) /\ last \in S BY <3>5, <3>7 DEF last
        <5>2. /\ c \in Seq(S) /\ Len(c) = Len(a) + 1 /\ c[Len(a) + 1] = last
              /\ \A i \in 1 .. Len(a) : c[i] = a[i]
          BY <5>1, AppendProperties
        <5> HIDE DEF c
        <5> QED BY <5>2, <3>5 DEF last
      <4>2. \A i \in 1 .. m + 1 : i \in 1 .. m \/ i = m + 1 BY <2>3
      <4> HIDE DEF c
      <4>3. \A i \in 1 .. m + 1 : c[i] = b[i] BY <4>1, <4>2, <3>5, <3>6, ZenonT(60)
      <4>4. c = b BY <4>1, <4>3, <3>6
      <4> QED BY <4>4 DEF c, last
    <3>9. \A x \in 1 .. M : x <= m + 1 <=> \E i \in 1 .. n : s[i] = t[x]
      <4>1. \A x \in 1 .. M : x <= m + 1 <=> x <= m \/ x = p BY <3>2, <2>3, SMTT(60)
      <4> QED BY <4>1, <2>1, <2>5
    <3>10. Seen(n, m + 1) BY <3>4, <3>8, <3>9 DEF a, b
    <3> QED BY <3>3, <3>10, <2>3
  <2>7. CASE n \notin good
    <3>1. PICK j \in 1 .. n - 1 : s[j] = s[n] BY <2>7, <1>2
    <3>2. p <= m BY <3>1, <2>1, <2>2
    <3>3. k[n] = SubSeq(t, 1, m) BY <2>1, <2>7, <1>5
    <3>4. \A x \in 1 .. M : x <= m <=> \E i \in 1 .. n : s[i] = t[x] BY <3>2, <2>1, <2>5
    <3>5. Seen(n, m) BY <3>3, <3>4
    <3> QED BY <3>5, <2>3
  <2> QED BY <2>6, <2>7
<1>9. N \in G
  <2> HIDE DEF G, N
  <2>1. \A n \in 0 .. N : n \in G BY <1>1, <1>7, <1>8, UpTo
  <2> QED BY <2>1, <1>1
<1>10. PICK m \in 0 .. M : Seen(N, m) BY <1>9
<1>11. m = M
  <2>1. M # 0 => M \in 1 .. M BY <1>1
  <2>2. M # 0 => M <= m BY <2>1, <1>10
  <2> QED BY <2>2, <1>1
<1>12. SubSeq(t, 1, M) = t
  <2> DEFINE a == SubSeq(t, 1, M)
  <2>1. a \in Seq(S) /\ Len(a) = M /\ \A i \in 1 .. M : a[i] = t[i]
    <3>1. M \in 0 .. M BY <1>1
    <3> QED BY <3>1, <1>6
  <2> HIDE DEF a
  <2>2. Len(a) = Len(t) /\ \A i \in 1 .. Len(a) : a[i] = t[i] BY <2>1
  <2>3. a = t BY <2>1, <2>2, SeqEqual
  <2> QED BY <2>3 DEF a
<1> QED BY <1>5, <1>10, <1>11, <1>12

\* The loop of Folded.
FoldedTrace(f, T, step, base, s) ==
  /\ f \in [0 .. Len(s) -> T]
  /\ f[0] = base /\ Folded(step, base, s) = f[Len(s)]
  /\ \A n \in 1 .. Len(s) : f[n] = step[<<f[n - 1], s[n]>>]

\* Folded runs that loop.
LEMMA FoldedLoop ==
  ASSUME NEW T, NEW S, NEW s \in Seq(S), NEW base \in T, NEW step \in [T \X S -> T]
  PROVE  \E f : FoldedTrace(f, T, step, base, s)
<1> DEFINE N == Len(s)
           one == [x \in (1 .. N) \X T |-> step[<<x[2], s[x[1]]>>]]
           W(f) == f = [n \in 0 .. N |-> IF n = 0 THEN base ELSE step[<<f[n - 1], s[n]>>]]
<1>1. N \in Nat /\ \A n \in 1 .. N : s[n] \in S OBVIOUS
<1>2. StepsIn(one, N, T)
  <2>1. \A x \in (1 .. N) \X T : step[<<x[2], s[x[1]]>>] \in T
    <3> SUFFICES ASSUME NEW x \in (1 .. N) \X T PROVE step[<<x[2], s[x[1]]>>] \in T OBVIOUS
    <3>1. x[2] \in T /\ s[x[1]] \in S BY <1>1
    <3> HIDE DEF N
    <3>2. <<x[2], s[x[1]]>> \in T \X S BY <3>1
    <3> QED BY <3>2
  <2> HIDE DEF N
  <2>2. one \in [(1 .. N) \X T -> T] BY <2>1
  <2> QED BY <2>2 DEF StepsIn
<1>3. PICK f : TraceOf(f, one, N, T, base)
  <2> HIDE DEF N, one
  <2> QED BY <1>1, <1>2, Loop
<1>4. f \in [0 .. N -> T] /\ f[0] = base /\ \A n \in 1 .. N : f[n] = one[<<n, f[n - 1]>>]
  BY <1>3 DEF TraceOf
<1>5. \A n \in 0 .. N : n # 0 => n \in 1 .. N /\ f[n - 1] \in T
  <2>1. \A n \in 0 .. N : n # 0 => n \in 1 .. N /\ n - 1 \in 0 .. N BY <1>1
  <2> HIDE DEF N
  <2> QED BY <2>1, <1>4
<1>6. \A n \in 0 .. N : n # 0 => f[n] = step[<<f[n - 1], s[n]>>]
  <2> HIDE DEF N
  <2> QED BY <1>4, <1>5
<1>7. W(f)
  <2> HIDE DEF one, N
  <2>1. f = [n \in 0 .. N |-> f[n]] BY <1>4
  <2> QED BY <2>1, <1>4, <1>6
<1>8. Folded(step, base, s) = (CHOOSE g : W(g))[N] BY DEF Folded
<1> DEFINE g == CHOOSE g : W(g)
<1>9. W(g)
  <2> HIDE DEF W
  <2> QED BY <1>7
<1>10. Folded(step, base, s) = g[N] BY <1>8
<1> HIDE DEF g, N
<1>11. \A n \in 0 .. N : g[n] = IF n = 0 THEN base ELSE step[<<g[n - 1], s[n]>>] BY <1>9
<1> DEFINE G == {n \in 0 .. N : g[n] = f[n]}
<1>12. 0 \in G
  <2>1. 0 \in 0 .. N BY <1>1
  <2>2. g[0] = base BY <2>1, <1>11
  <2> QED BY <2>1, <2>2, <1>4
<1>13. ASSUME NEW n \in 1 .. N, n - 1 \in G PROVE n \in G
  <2>1. n \in 0 .. N /\ n # 0 /\ g[n - 1] = f[n - 1] BY <1>13, <1>1
  <2> QED BY <2>1, <1>6, <1>11
<1>14. \A n \in 0 .. N : n \in G
  <2> HIDE DEF G
  <2> QED BY <1>1, <1>12, <1>13, UpTo
<1>15. Folded(step, base, s) = f[N] BY <1>1, <1>10, <1>14
<1>16. \A n \in 1 .. N : n \in 0 .. N /\ n # 0 BY <1>1
<1>17. FoldedTrace(f, T, step, base, s) BY <1>4, <1>6, <1>15, <1>16 DEF FoldedTrace, N
<1> QED BY <1>17

\* Max is the greatest element of a set that has one.
LEMMA MaxIs ==
  ASSUME NEW I, I \subseteq Nat, NEW m \in I, \A i \in I : i <= m
  PROVE  Max(I) = m
<1> DEFINE P(x) == x \in I /\ \A y \in I : x >= y
<1>1. P(m) /\ Max(I) = CHOOSE x : P(x) BY DEF Max
<1>2. P(Max(I))
  <2> HIDE DEF P
  <2> QED BY <1>1
<1>3. Max(I) >= m /\ m >= Max(I) /\ Max(I) \in Nat /\ m \in Nat BY <1>2
<1> QED BY <1>3

\* Min is the least element of a set that has one.
LEMMA MinIs ==
  ASSUME NEW I, I \subseteq Nat, I # {}
  PROVE  Min(I) \in I /\ \A i \in I : Min(I) <= i
<1> DEFINE P(x) == x \in I /\ \A y \in I : x <= y
<1>1. \E x : P(x) BY LeastNat
<1>2. Min(I) = CHOOSE x : P(x) BY DEF Min
<1>3. P(Min(I))
  <2> HIDE DEF P
  <2> QED BY <1>1, <1>2
<1> QED BY <1>3

\* A non-empty set of places of a list has a last one.
LEMMA MaxOf ==
  ASSUME NEW n \in Nat, NEW I, I \subseteq 1 .. n, I # {}
  PROVE  Max(I) \in I /\ \A i \in I : i <= Max(I)
<1> DEFINE J == {n - i : i \in I}
<1>1. J \subseteq Nat /\ J # {} OBVIOUS
<1>2. PICK j \in J : \A k \in J : j <= k
  <2> HIDE DEF J
  <2> QED BY <1>1, LeastNat
<1>3. PICK m \in I : j = n - m BY <1>2
<1>4. ASSUME NEW i \in I PROVE i <= m
  <2>1. n - i \in J BY <1>4
  <2>2. n - m <= n - i BY <2>1, <1>2, <1>3
  <2> QED BY <2>2
<1>5. I \subseteq Nat OBVIOUS
<1>6. Max(I) = m BY <1>4, <1>5, MaxIs
<1> QED BY <1>4, <1>6
-----------------------------------------------------------------------------
(***************************************************************************)
(* Transports                                                              *)
(***************************************************************************)
\* Rounding up past x to a multiple of b.
LEMMA NextMultiple ==
  ASSUME NEW P \in Nat \ {0}, NEW n \in Nat
  PROVE  /\ (P - (n % P)) % P \in Nat
         /\ (n + ((P - (n % P)) % P)) % P = 0
<1>1. n % P \in 0 .. P - 1 OBVIOUS
<1>2. P - (n % P) \in Int BY <1>1
<1>3. (P - (n % P)) % P \in Nat BY <1>2
<1>4. (n + ((P - (n % P)) % P)) % P = 0 BY SMTT(60)
<1> QED BY <1>3, <1>4

\* DNSCrypt padding can be undone, whatever the message ends in and however it
\* fills its blocks, and the padded query has a legal size (_pad_query).
LEMMA PaddingUndone ==
  ASSUME NEW message \in Seq(Byte)
  PROVE  LET padded == PadQuery(message)
         IN  /\ Unpad(padded) = message
             /\ Len(padded) >= MinimumSize /\ Len(padded) % ModuloSize = 0
<1> USE TransportsAssumption
<1> DEFINE L == Len(message)
           least == IF L + 1 < MinimumSize THEN MinimumSize ELSE L + 1
           size == least + ((ModuloSize - (least % ModuloSize)) % ModuloSize)
           padded == PadQuery(message)
<1>1. L \in Nat /\ DOMAIN message = 1 .. L OBVIOUS
<1>2. least \in Nat /\ least >= L + 1 /\ least >= MinimumSize BY <1>1
<1>3. padded = [i \in 1 .. size |->
                  IF i <= L THEN message[i] ELSE IF i = L + 1 THEN Marker ELSE Zero]
  BY DEF PadQuery
<1> HIDE DEF L, least, padded
<1>4. size \in Nat /\ size >= least /\ size % ModuloSize = 0
  <2>1. ModuloSize \in Nat \ {0} /\ least \in Nat BY <1>2
  <2>2. (ModuloSize - (least % ModuloSize)) % ModuloSize \in Nat BY <2>1, NextMultiple
  <2>3. size % ModuloSize = 0 BY <2>1, NextMultiple
  <2> QED BY <2>1, <2>2, <2>3
<1> HIDE DEF size
<1>5. \A i \in 1 .. size : padded[i] \in Byte
  <2> SUFFICES ASSUME NEW i \in 1 .. size PROVE padded[i] \in Byte OBVIOUS
  <2>1. CASE i <= L
    <3>1. i \in 1 .. L BY <2>1, <1>1
    <3>2. message[i] \in Byte BY <3>1 DEF L
    <3> QED BY <3>2, <2>1, <1>3
  <2>2. CASE ~(i <= L) BY <2>2, <1>3
  <2> QED BY <2>1, <2>2
<1>6. padded \in [1 .. size -> Byte] BY <1>3, <1>5
<1>7. padded \in Seq(Byte) /\ Len(padded) = size BY <1>4, <1>6
<1>8. L + 1 \in 1 .. size /\ \A i \in 1 .. L : i \in 1 .. size BY <1>1, <1>2, <1>4
<1>9. padded[L + 1] = Marker /\ \A i \in 1 .. L : padded[i] = message[i] BY <1>1, <1>3, <1>8
<1> DEFINE I == {i \in 1 .. Len(padded) : padded[i] # Zero}
<1>10. L + 1 \in I /\ I \subseteq Nat BY <1>7, <1>8, <1>9
<1>11. \A i \in I : i <= L + 1
  <2> SUFFICES ASSUME NEW i \in 1 .. size, ~(i <= L + 1) PROVE padded[i] = Zero BY <1>7
  <2>1. ~(i <= L) /\ i # L + 1 BY <1>1
  <2> QED BY <2>1, <1>3
<1>12. SelectLastInSeq(padded, LAMBDA byte : byte # Zero) = L + 1
  <2>1. SelectLastInSeq(padded, LAMBDA byte : byte # Zero) = IF I # {} THEN Max(I) ELSE 0
    BY DEF SelectLastInSeq
  <2>2. Max(I) = L + 1
    <3> HIDE DEF I
    <3> QED BY <1>10, <1>11, MaxIs
  <2> QED BY <2>1, <2>2, <1>10
<1>13. L + 1 # 0 /\ (L + 1) - 1 = L BY <1>1
<1>14. Unpad(padded) = SubSeq(padded, 1, L) BY <1>9, <1>12, <1>13 DEF Unpad
<1>15. SubSeq(padded, 1, L) = message
  <2>1. SubSeq(padded, 1, L) \in Seq(Byte) /\ Len(SubSeq(padded, 1, L)) = L
        /\ \A i \in 1 .. L : SubSeq(padded, 1, L)[i] = padded[i]
    <3>1. \A i \in 1 .. L : i \in 1 .. Len(padded) BY <1>7, <1>8
    <3> QED BY <3>1, <1>1, <1>7, <1>8
  <2>2. Len(message) = L BY DEF L
  <2> QED BY <2>1, <2>2, <1>1, <1>9, SeqEqual
<1> QED BY <1>2, <1>4, <1>7, <1>14, <1>15 DEF padded

\* The loop of SelectCertificate: the newest usable certificate so far.
CertTrace(f, certs, now) ==
  /\ f[0] = NoCert /\ SelectCertificate(certs, now) = f[Len(certs)]
  /\ \A n \in 1 .. Len(certs) :
       f[n] = IF /\ Usable(certs[n], now)
                 /\ f[n - 1] = NoCert \/ certs[n].serial > f[n - 1].serial
              THEN certs[n] ELSE f[n - 1]

\* SelectCertificate runs that loop.
LEMMA CertLoop ==
  ASSUME NEW S, NEW certs \in Seq(S), NEW now
  PROVE  \E f : CertTrace(f, certs, now)
<1> DEFINE N == Len(certs)
           T == S \cup {NoCert}
           step == [x \in (1 .. N) \X T |->
                      IF /\ Usable(certs[x[1]], now)
                         /\ x[2] = NoCert \/ certs[x[1]].serial > x[2].serial
                      THEN certs[x[1]] ELSE x[2]]
           W(f) == f = [n \in 0 .. N |->
                          IF n = 0 THEN NoCert
                          ELSE IF /\ Usable(certs[n], now)
                                  /\ f[n - 1] = NoCert \/ certs[n].serial > f[n - 1].serial
                               THEN certs[n] ELSE f[n - 1]]
<1>1. N \in Nat /\ \A n \in 1 .. N : certs[n] \in T OBVIOUS
<1>2. NoCert \in T /\ StepsIn(step, N, T)
  <2>1. ASSUME NEW x \in (1 .. N) \X T PROVE step[x] \in T BY <1>1
  <2> QED BY <2>1 DEF StepsIn
<1>3. PICK f : TraceOf(f, step, N, T, NoCert)
  <2> HIDE DEF N, step, T
  <2> QED BY <1>1, <1>2, Loop
<1>4. \A n \in 0 .. N : n # 0 => n \in 1 .. N /\ f[n - 1] \in T BY <1>1, <1>3 DEF TraceOf
<1>5. \A n \in 0 .. N : n # 0 =>
        f[n] = IF /\ Usable(certs[n], now)
                  /\ f[n - 1] = NoCert \/ certs[n].serial > f[n - 1].serial
               THEN certs[n] ELSE f[n - 1]
  <2> SUFFICES ASSUME NEW n \in 0 .. N, n # 0
               PROVE f[n] = IF /\ Usable(certs[n], now)
                               /\ f[n - 1] = NoCert \/ certs[n].serial > f[n - 1].serial
                            THEN certs[n] ELSE f[n - 1]
    OBVIOUS
  <2>1. n \in 1 .. N /\ f[n - 1] \in T BY <1>4
  <2>2. f[n] = step[<<n, f[n - 1]>>] BY <2>1, <1>3 DEF TraceOf
  <2> HIDE DEF T, N
  <2> QED BY <2>1, <2>2
<1>6. W(f)
  <2> HIDE DEF step
  <2>1. f = [n \in 0 .. N |-> f[n]] /\ f[0] = NoCert BY <1>3 DEF TraceOf
  <2> QED BY <2>1, <1>5
<1> DEFINE g == CHOOSE g : W(g)
<1>7. W(g)
  <2> HIDE DEF W
  <2> QED BY <1>6
<1>8. SelectCertificate(certs, now) = g[N] BY DEF SelectCertificate
<1>9. 0 \in 0 .. N /\ \A n \in 1 .. N : n \in 0 .. N /\ n # 0 BY <1>1
<1> HIDE DEF g
<1>10. g[0] = NoCert BY <1>7, <1>9
<1>11. \A n \in 1 .. N :
         g[n] = IF /\ Usable(certs[n], now)
                   /\ g[n - 1] = NoCert \/ certs[n].serial > g[n - 1].serial
                THEN certs[n] ELSE g[n - 1]
  BY <1>7, <1>9
<1>12. CertTrace(g, certs, now) BY <1>8, <1>10, <1>11 DEF CertTrace
<1> QED BY <1>12

\* The certificate in use is the newest usable one, whatever the order in which
\* the server lists them (_fetch_server_key).
LEMMA NewestCertificate ==
  ASSUME NEW S, NEW certs \in Seq(S), NEW now,
         \A x \in Range(certs) : x # NoCert /\ x.serial \in Nat
  PROVE  LET chosen == SelectCertificate(certs, now)
             valid == {x \in Range(certs) : Usable(x, now)}
         IN  IF valid = {} THEN chosen = NoCert
             ELSE chosen \in valid /\ \A x \in valid : x.serial <= chosen.serial
<1> DEFINE N == Len(certs)
<1>1. PICK f : CertTrace(f, certs, now) BY CertLoop
<1>2. N \in Nat /\ N \in 0 .. N /\ DOMAIN certs = 1 .. N OBVIOUS
<1>3. \A n \in 1 .. N : certs[n] # NoCert /\ certs[n].serial \in Nat BY <1>2 DEF Range
<1> DEFINE Good(x, n) ==
             IF x = NoCert THEN \A i \in 1 .. n : ~Usable(certs[i], now)
             ELSE /\ \E i \in 1 .. n : x = certs[i] /\ Usable(x, now)
                  /\ \A i \in 1 .. n : Usable(certs[i], now) => certs[i].serial <= x.serial
           G == {n \in 0 .. N : Good(f[n], n)}
<1>4. 0 \in G BY <1>1, <1>2 DEF CertTrace
<1>5. ASSUME NEW n \in 1 .. N, n - 1 \in G PROVE n \in G
  <2>1. n - 1 \in 0 .. N /\ n \in 0 .. N /\ n \in 1 .. n BY <1>2
  <2>2. \A i \in 1 .. n : i \in 1 .. n - 1 \/ i = n BY <1>2
  <2>3. \A i \in 1 .. n - 1 : i \in 1 .. n /\ i \in 1 .. N BY <1>2
  <2>4. Good(f[n - 1], n - 1) BY <1>5
  <2>5. f[n] = IF /\ Usable(certs[n], now)
                  /\ f[n - 1] = NoCert \/ certs[n].serial > f[n - 1].serial
               THEN certs[n] ELSE f[n - 1]
    BY <1>1 DEF CertTrace
  <2>6. f[n - 1] # NoCert => f[n - 1].serial \in Nat BY <2>3, <2>4, <1>3
  <2>7. CASE Usable(certs[n], now) /\ (f[n - 1] = NoCert \/ certs[n].serial > f[n - 1].serial)
    <3>1. f[n] = certs[n] /\ certs[n] # NoCert BY <2>5, <2>7, <1>3
    <3>2. \A i \in 1 .. n - 1 : Usable(certs[i], now) => certs[i].serial <= certs[n].serial
      <4> SUFFICES ASSUME NEW i \in 1 .. n - 1, Usable(certs[i], now)
                   PROVE certs[i].serial <= certs[n].serial OBVIOUS
      <4>1. f[n - 1] # NoCert /\ certs[i].serial <= f[n - 1].serial BY <2>4
      <4>2. certs[n].serial > f[n - 1].serial BY <4>1, <2>7
      <4>3. certs[i].serial \in Nat /\ certs[n].serial \in Nat /\ f[n - 1].serial \in Nat
        BY <4>1, <2>3, <2>6, <1>3
      <4> QED BY <4>1, <4>2, <4>3
    <3>3. certs[n].serial <= certs[n].serial BY <1>3
    <3>4. Good(certs[n], n) BY <3>1, <3>2, <3>3, <2>1, <2>2, <2>7
    <3> QED BY <3>1, <3>4, <2>1
  <2>8. CASE ~(Usable(certs[n], now) /\ (f[n - 1] = NoCert \/ certs[n].serial > f[n - 1].serial))
    <3>1. f[n] = f[n - 1] BY <2>5, <2>8
    <3>2. Usable(certs[n], now) => f[n - 1] # NoCert /\ certs[n].serial <= f[n - 1].serial
      <4> SUFFICES ASSUME Usable(certs[n], now)
                   PROVE f[n - 1] # NoCert /\ certs[n].serial <= f[n - 1].serial OBVIOUS
      <4>1. f[n - 1] # NoCert /\ ~(certs[n].serial > f[n - 1].serial) BY <2>8
      <4>2. certs[n].serial \in Nat /\ f[n - 1].serial \in Nat BY <4>1, <2>6, <1>3
      <4> QED BY <4>1, <4>2
    <3>3. Good(f[n - 1], n) BY <3>2, <2>2, <2>3, <2>4
    <3> QED BY <3>1, <3>3, <2>1
  <2> QED BY <2>7, <2>8
<1>6. N \in G
  <2> HIDE DEF G, N
  <2> QED BY <1>2, <1>4, <1>5, UpTo
<1>7. Good(f[N], N) BY <1>6
<1>8. SelectCertificate(certs, now) = f[N] BY <1>1 DEF CertTrace
<1> HIDE DEF N
<1> QED BY <1>2, <1>7, <1>8 DEF Range

\* FlattenSeq concatenates from the left, starting from nothing.
FlattenTrace(f, S, lists) ==
  /\ f \in [0 .. Len(lists) -> Seq(S)]
  /\ f[0] = <<>> /\ FlattenSeq(lists) = f[Len(lists)]
  /\ \A n \in 1 .. Len(lists) : f[n] = f[n - 1] \o lists[n]

\* It runs that loop.
LEMMA FlattenLoop ==
  ASSUME NEW S, NEW lists \in Seq(Seq(S))
  PROVE  \E f : FlattenTrace(f, S, lists)
<1> DEFINE N == Len(lists)
           step == [x \in (1 .. N) \X Seq(S) |-> x[2] \o lists[x[1]]]
           W(g) == g = [i \in 1 .. N |-> IF i = 1 THEN lists[i] ELSE g[i - 1] \o lists[i]]
<1>1. N \in Nat /\ \A n \in 1 .. N : lists[n] \in Seq(S) OBVIOUS
<1>2. <<>> \in Seq(S) /\ StepsIn(step, N, Seq(S))
  <2>1. ASSUME NEW x \in (1 .. N) \X Seq(S) PROVE step[x] \in Seq(S)
    <3>1. x[2] \in Seq(S) /\ lists[x[1]] \in Seq(S) BY <1>1
    <3> HIDE DEF N
    <3>2. x[2] \o lists[x[1]] \in Seq(S) BY <3>1
    <3> QED BY <3>2
  <2> QED BY <2>1 DEF StepsIn
<1>3. PICK f : TraceOf(f, step, N, Seq(S), <<>>)
  <2> HIDE DEF N, step
  <2> QED BY <1>1, <1>2, Loop
<1>a. f \in [0 .. N -> Seq(S)] BY <1>3 DEF TraceOf
<1>4. \A n \in 0 .. N : n # 0 => n \in 1 .. N /\ f[n - 1] \in Seq(S)
  <2>1. \A n \in 0 .. N : n # 0 => n \in 1 .. N /\ n - 1 \in 0 .. N BY <1>1
  <2> HIDE DEF N
  <2> QED BY <2>1, <1>a, SMTT(60)
<1>5. \A n \in 1 .. N : f[n] = f[n - 1] \o lists[n]
  <2> SUFFICES ASSUME NEW n \in 1 .. N PROVE f[n] = f[n - 1] \o lists[n] OBVIOUS
  <2>1. n \in 0 .. N /\ n # 0 BY <1>1
  <2>2. f[n - 1] \in Seq(S) BY <1>4, <2>1
  <2>3. f[n] = step[<<n, f[n - 1]>>] BY <1>3 DEF TraceOf
  <2> HIDE DEF N
  <2> QED BY <2>2, <2>3
<1>6. f \in [0 .. N -> Seq(S)] /\ f[0] = <<>> BY <1>3 DEF TraceOf
<1> HIDE DEF step
<1>7. \A n \in 1 .. N : n = 1 => f[n] = lists[n]
  <2> SUFFICES ASSUME NEW n \in 1 .. N, n = 1 PROVE f[n] = lists[n] OBVIOUS
  <2>a. n - 1 = 0 OBVIOUS
  <2>b. f[n] = f[n - 1] \o lists[n] BY <1>5
  <2>1. f[n] = <<>> \o lists[n] BY <2>a, <2>b, <1>6
  <2>2. lists[n] \in Seq(S) BY <1>1
  <2>3. <<>> \o lists[n] = lists[n] BY <2>2, ConcatEmptySeq
  <2> QED BY <2>1, <2>3
<1>8. W([n \in 1 .. N |-> f[n]])
  <2>1. \A i \in 1 .. N : i # 1 => i - 1 \in 1 .. N BY <1>1
  <2> HIDE DEF N
  <2> QED BY <2>1, <1>5, <1>7
<1> DEFINE g == CHOOSE g : W(g)
<1>9. W(g)
  <2> HIDE DEF W
  <2> QED BY <1>8
<1>10. N # 0 => FlattenSeq(lists) = g[N] BY DEF FlattenSeq
<1> HIDE DEF g
<1> DEFINE G == {n \in 0 .. N : n # 0 => g[n] = f[n]}
<1>11. 0 \in G BY <1>1
<1>12. ASSUME NEW n \in 1 .. N, n - 1 \in G PROVE n \in G
  <2>1. n \in 0 .. N /\ g[n] = IF n = 1 THEN lists[n] ELSE g[n - 1] \o lists[n]
    <3>1. n \in 0 .. N BY <1>1
    <3> HIDE DEF N
    <3> QED BY <3>1, <1>9
  <2>2. n # 1 => g[n - 1] = f[n - 1] BY <1>12, <1>1
  <2> HIDE DEF N, W
  <2>3. g[n] = f[n] BY <2>1, <2>2, <1>5, <1>7
  <2> QED BY <2>1, <2>3
<1>13. N \in G
  <2>1. N \in 0 .. N BY <1>1
  <2> HIDE DEF G, N
  <2> QED BY <2>1, <1>1, <1>11, <1>12, UpTo
<1>14. FlattenSeq(lists) = f[N]
  <2>1. CASE N = 0
    <3>1. FlattenSeq(lists) = lists BY <2>1 DEF FlattenSeq
    <3>2. lists = <<>> BY <2>1
    <3> QED BY <3>1, <3>2, <2>1, <1>6
  <2>2. CASE N # 0 BY <2>2, <1>10, <1>13
  <2> QED BY <2>1, <2>2
<1>15. FlattenTrace(f, S, lists) BY <1>5, <1>6, <1>14 DEF FlattenTrace
<1> QED BY <1>15

\* Of one list and of two.
LEMMA FlattenFew ==
  ASSUME NEW S, NEW a \in Seq(S), NEW b \in Seq(S)
  PROVE  FlattenSeq(<<a>>) = a /\ FlattenSeq(<<a, b>>) = a \o b
<1>1. <<>> \o a = a BY ConcatEmptySeq
<1>2. FlattenSeq(<<a>>) = a
  <2> DEFINE lists == <<a>>
  <2>1. lists \in Seq(Seq(S)) /\ Len(lists) = 1 /\ lists[1] = a OBVIOUS
  <2> HIDE DEF lists
  <2>2. PICK f : FlattenTrace(f, S, lists) BY <2>1, FlattenLoop
  <2>3. \A n \in 1 .. 1 : f[n] = f[n - 1] \o lists[n] BY <2>1, <2>2 DEF FlattenTrace
  <2>4. f[1] = f[0] \o lists[1]
    <3>1. 1 \in 1 .. 1 /\ 1 - 1 = 0 OBVIOUS
    <3> QED BY <2>3, <3>1
  <2>5. f[0] = <<>> /\ FlattenSeq(lists) = f[1] BY <2>1, <2>2 DEF FlattenTrace
  <2>6. FlattenSeq(lists) = a BY <2>1, <2>4, <2>5, <1>1
  <2> QED BY <2>6 DEF lists
<1>3. FlattenSeq(<<a, b>>) = a \o b
  <2> DEFINE lists == <<a, b>>
  <2>1. lists \in Seq(Seq(S)) /\ Len(lists) = 2 /\ lists[1] = a /\ lists[2] = b OBVIOUS
  <2> HIDE DEF lists
  <2>2. PICK f : FlattenTrace(f, S, lists) BY <2>1, FlattenLoop
  <2>3. \A n \in 1 .. 2 : f[n] = f[n - 1] \o lists[n] BY <2>1, <2>2 DEF FlattenTrace
  <2>4. f[1] = f[0] \o lists[1] /\ f[2] = f[1] \o lists[2]
    <3>1. 1 \in 1 .. 2 /\ 1 - 1 = 0 /\ 2 \in 1 .. 2 /\ 2 - 1 = 1 OBVIOUS
    <3> QED BY <2>3, <3>1
  <2>5. f[0] = <<>> /\ FlattenSeq(lists) = f[2] BY <2>1, <2>2 DEF FlattenTrace
  <2>6. FlattenSeq(lists) = a \o b BY <2>1, <2>4, <2>5, <1>1
  <2> QED BY <2>6 DEF lists
<1> QED BY <1>2, <1>3

\* A sequence is what its first k items and the rest make.
LEMMA Rejoined ==
  ASSUME NEW S, NEW s \in Seq(S), NEW k \in 1 .. Len(s)
  PROVE  /\ SubSeq(s, 1, k) \in Seq(S) /\ Len(SubSeq(s, 1, k)) = k
         /\ SubSeq(s, k + 1, Len(s)) \in Seq(S)
         /\ SubSeq(s, 1, k) \o SubSeq(s, k + 1, Len(s)) = s
<1>1. Len(s) \in Nat /\ k \in Nat /\ 1 <= k /\ k <= Len(s) OBVIOUS
<1>2. SubSeq(s, 1, k) \in Seq(S) /\ Len(SubSeq(s, 1, k)) = k
      /\ \A i \in 1 .. k : SubSeq(s, 1, k)[i] = s[i] BY <1>1
<1>3. SubSeq(s, k + 1, Len(s)) \in Seq(S) /\ Len(SubSeq(s, k + 1, Len(s))) = Len(s) - k
      /\ \A i \in 1 .. Len(s) - k : SubSeq(s, k + 1, Len(s))[i] = s[k + i] BY <1>1
<1> DEFINE a == SubSeq(s, 1, k)
           b == SubSeq(s, k + 1, Len(s))
<1>4. a \in Seq(S) /\ Len(a) = k /\ \A i \in 1 .. k : a[i] = s[i] BY <1>2
<1>5. b \in Seq(S) /\ Len(b) = Len(s) - k /\ \A i \in 1 .. Len(s) - k : b[i] = s[k + i] BY <1>3
<1> HIDE DEF a, b
<1>6. a \o b \in Seq(S) /\ Len(a \o b) = Len(a) + Len(b)
      /\ \A i \in 1 .. Len(a) + Len(b) : (a \o b)[i] = IF i <= Len(a) THEN a[i] ELSE b[i - Len(a)]
  BY <1>4, <1>5, ConcatProperties, ZenonT(60)
<1>7. Len(a \o b) = Len(s) BY <1>1, <1>4, <1>5, <1>6
<1>8. ASSUME NEW i \in 1 .. Len(s) PROVE (a \o b)[i] = s[i]
  <2>1. (a \o b)[i] = IF i <= k THEN a[i] ELSE b[i - k] BY <1>1, <1>4, <1>5, <1>6
  <2>2. i <= k => i \in 1 .. k BY <1>1
  <2>3. ~(i <= k) => i - k \in 1 .. Len(s) - k /\ k + (i - k) = i BY <1>1
  <2>4. ~(i <= k) => b[i - k] = s[i] BY <2>3, <1>5
  <2> QED BY <2>1, <2>2, <2>4, <1>4
<1>9. a \o b = s BY <1>6, <1>7, <1>8, SeqEqual
<1> QED BY <1>4, <1>5, <1>9 DEF a, b

\* Front undoes Append.
LEMMA FrontOfAppended ==
  ASSUME NEW S, NEW s \in Seq(S), NEW x \in S
  PROVE  Front(s \o <<x>>) = s
<1> DEFINE one == <<x>>
           c == s \o one
<1>1. one \in Seq(S) /\ Len(one) = 1 /\ Len(s) \in Nat OBVIOUS
<1> HIDE DEF one
<1>2. c \in Seq(S) /\ Len(c) = Len(s) + 1
      /\ \A i \in 1 .. Len(s) + 1 : c[i] = IF i <= Len(s) THEN s[i] ELSE one[i - Len(s)]
  BY <1>1, ConcatProperties
<1> HIDE DEF c
<1>3. \A i \in 1 .. Len(s) : i \in 1 .. Len(s) + 1 /\ i <= Len(s) BY <1>1
<1>4. \A i \in 1 .. Len(s) : c[i] = s[i] BY <1>2, <1>3
<1>5. Front(c) = SubSeq(c, 1, Len(s))
  <2>1. Len(c) - 1 = Len(s) BY <1>1, <1>2
  <2> QED BY <2>1 DEF Front
<1>6. 1 \in 1 .. Len(c) + 1 /\ Len(s) \in 0 .. Len(c) BY <1>1, <1>2
<1>7. SubSeq(c, 1, Len(s)) \in Seq(S) /\ Len(SubSeq(c, 1, Len(s))) = Len(s)
      /\ \A i \in 1 .. Len(s) : SubSeq(c, 1, Len(s))[i] = c[i] BY <1>1, <1>2, <1>6
<1>8. SubSeq(c, 1, Len(s)) = s BY <1>4, <1>7, SeqEqual
<1> QED BY <1>5, <1>8 DEF c, one

\* What the socket's trick writes is, in band, the message (sendall).
LEMMA StreamUnchanged ==
  ASSUME NEW what \in Seq(Byte), NEW tricks
  PROVE  InBand(StreamWrites(what, tricks)) = what
<1> USE TransportsAssumption
<1> DEFINE writes == StreamWrites(what, tricks)
           band(i) == IF writes[i].urgent THEN Front(writes[i].data) ELSE writes[i].data
<1>1. InBand(writes) = FlattenSeq([i \in DOMAIN writes |-> band(i)]) BY DEF InBand
<1>2. CASE tricks /\ Len(what) > 32
  <2> DEFINE a == SubSeq(what, 1, 16)
             b == SubSeq(what, 17, Len(what))
  <2>1. a \in Seq(Byte) /\ b \in Seq(Byte) /\ a \o b = what
    <3>1. 16 \in 1 .. Len(what) /\ 16 + 1 = 17 BY <1>2
    <3> QED BY <3>1, Rejoined
  <2>2. writes = <<[data |-> a \o <<Zero>>, urgent |-> TRUE], [data |-> b, urgent |-> FALSE]>>
    BY <1>2 DEF StreamWrites
  <2> HIDE DEF a, b, writes
  <2>3. Front(a \o <<Zero>>) = a BY <2>1, FrontOfAppended
  <2>4. DOMAIN writes = 1 .. 2 BY <2>2
  <2>5. band(1) = a /\ band(2) = b
    <3>1. writes[1] = [data |-> a \o <<Zero>>, urgent |-> TRUE] BY <2>2
    <3>2. writes[2] = [data |-> b, urgent |-> FALSE] BY <2>2
    <3>3. writes[1].urgent = TRUE /\ writes[1].data = a \o <<Zero>> BY <3>1
    <3>4. writes[2].urgent = FALSE /\ writes[2].data = b BY <3>2
    <3> QED BY <3>3, <3>4, <2>3
  <2> HIDE DEF band
  <2>6. [i \in 1 .. 2 |-> band(i)] = <<a, b>> BY <2>5
  <2>7. InBand(writes) = FlattenSeq(<<a, b>>) BY <1>1, <2>4, <2>6
  <2>8. FlattenSeq(<<a, b>>) = a \o b BY <2>1, FlattenFew
  <2>9. InBand(writes) = what BY <2>1, <2>7, <2>8
  <2> QED BY <2>9 DEF writes
<1>3. CASE ~(tricks /\ Len(what) > 32)
  <2>1. writes = <<[data |-> what, urgent |-> FALSE]>> BY <1>3 DEF StreamWrites
  <2> HIDE DEF writes
  <2>2. DOMAIN writes = 1 .. 1 BY <2>1
  <2>3. band(1) = what
    <3>1. writes[1] = [data |-> what, urgent |-> FALSE] BY <2>1
    <3>2. writes[1].urgent = FALSE /\ writes[1].data = what BY <3>1
    <3> QED BY <3>2
  <2> HIDE DEF band
  <2>4. [i \in 1 .. 1 |-> band(i)] = <<what>> BY <2>3
  <2>5. InBand(writes) = FlattenSeq(<<what>>) BY <1>1, <2>2, <2>4
  <2>6. InBand(writes) = what BY <2>5, FlattenFew
  <2> QED BY <2>6 DEF writes
<1> QED BY <1>2, <1>3

\* Where the items of each list are in what FlattenSeq makes of the lists.
Offsets(f, lists) ==
  LET flat == FlattenSeq(lists) IN
  /\ f \in [0 .. Len(lists) -> Nat]
  /\ \A n \in 1 .. Len(lists) : f[n] = f[n - 1] + Len(lists[n])
  /\ \A m, n \in 0 .. Len(lists) : m <= n => f[m] <= f[n]
  /\ \A n \in 1 .. Len(lists) : \A j \in 1 .. Len(lists[n]) :
       f[n - 1] + j \in 1 .. Len(flat) /\ flat[f[n - 1] + j] = lists[n][j]
  /\ \A x \in 1 .. Len(flat) :
       \E n \in 1 .. Len(lists) : \E j \in 1 .. Len(lists[n]) : x = f[n - 1] + j

\* Each list's items are together, in the order of the lists.
LEMMA FlattenOffsets ==
  ASSUME NEW S, NEW lists \in Seq(Seq(S))
  PROVE  FlattenSeq(lists) \in Seq(S) /\ \E f : Offsets(f, lists)
<1> DEFINE N == Len(lists)
<1>1. N \in Nat /\ 0 \in 0 .. N /\ N \in 0 .. N /\ \A n \in 1 .. N : lists[n] \in Seq(S) OBVIOUS
<1>2. PICK g : FlattenTrace(g, S, lists) BY FlattenLoop
<1>3. /\ g \in [0 .. N -> Seq(S)] /\ g[0] = <<>> /\ FlattenSeq(lists) = g[N]
      /\ \A n \in 1 .. N : g[n] = g[n - 1] \o lists[n] BY <1>2 DEF FlattenTrace
<1> DEFINE f == [n \in 0 .. N |-> Len(g[n])]
<1>4. f \in [0 .. N -> Nat] /\ \A n \in 0 .. N : f[n] = Len(g[n]) /\ g[n] \in Seq(S)
  <2> HIDE DEF N
  <2>1. \A n \in 0 .. N : g[n] \in Seq(S) BY <1>3
  <2>2. \A n \in 0 .. N : Len(g[n]) \in Nat BY <2>1, LenProperties
  <2> QED BY <2>1, <2>2
<1> HIDE DEF f, N
<1>5. \A n \in 1 .. N : n \in 0 .. N /\ n - 1 \in 0 .. N /\ n \in Nat BY <1>1
<1>6. \A n \in 1 .. N : /\ f[n] = f[n - 1] + Len(lists[n])
                        /\ \A x \in 1 .. f[n - 1] : g[n][x] = g[n - 1][x]
                        /\ \A j \in 1 .. Len(lists[n]) : g[n][f[n - 1] + j] = lists[n][j]
  <2> SUFFICES ASSUME NEW n \in 1 .. N
               PROVE  /\ f[n] = f[n - 1] + Len(lists[n])
                      /\ \A x \in 1 .. f[n - 1] : g[n][x] = g[n - 1][x]
                      /\ \A j \in 1 .. Len(lists[n]) : g[n][f[n - 1] + j] = lists[n][j]
    OBVIOUS
  <2> DEFINE a == g[n - 1]
             b == lists[n]
  <2>1. a \in Seq(S) /\ b \in Seq(S) /\ f[n - 1] = Len(a) /\ f[n] = Len(g[n]) /\ g[n] = a \o b
    BY <1>1, <1>3, <1>4, <1>5
  <2> HIDE DEF a, b
  <2>2. /\ Len(a \o b) = Len(a) + Len(b) /\ Len(a) \in Nat /\ Len(b) \in Nat
        /\ \A i \in 1 .. Len(a) + Len(b) : (a \o b)[i] = IF i <= Len(a) THEN a[i] ELSE b[i - Len(a)]
    BY <2>1
  <2>3. \A x \in 1 .. Len(a) : x \in 1 .. Len(a) + Len(b) /\ x <= Len(a) BY <2>2
  <2>4. \A j \in 1 .. Len(b) : Len(a) + j \in 1 .. Len(a) + Len(b) /\ ~(Len(a) + j <= Len(a))
          /\ Len(a) + j - Len(a) = j BY <2>2
  <2>5. \A x \in 1 .. Len(a) : (a \o b)[x] = a[x] BY <2>2, <2>3
  <2>6. \A j \in 1 .. Len(b) : (a \o b)[Len(a) + j] = b[j] BY <2>2, <2>4
  <2> QED BY <2>1, <2>2, <2>5, <2>6 DEF a, b
<1>7. \A n \in 0 .. N : f[n] \in Nat BY <1>4
<1>8. \A n \in 1 .. N : Len(lists[n]) \in Nat BY <1>1
<1> DEFINE Laid(n) ==
             /\ \A m \in 0 .. n : f[m] <= f[n]
             /\ \A i \in 1 .. n : \A j \in 1 .. Len(lists[i]) :
                  f[i - 1] + j \in 1 .. f[n] /\ g[n][f[i - 1] + j] = lists[i][j]
             /\ \A x \in 1 .. f[n] : \E i \in 1 .. n : \E j \in 1 .. Len(lists[i]) : x = f[i - 1] + j
           G == {n \in 0 .. N : Laid(n)}
<1>9. 0 \in G
  <2>1. f[0] = 0 BY <1>1, <1>3, <1>4
  <2>2. Laid(0) BY <2>1
  <2> QED BY <2>2, <1>1
<1>10. ASSUME NEW n \in 1 .. N, n - 1 \in G PROVE n \in G
  <2>1. Laid(n - 1) BY <1>10
  <2> DEFINE A == f[n - 1]
             B == Len(lists[n])
  <2>2. n \in Nat /\ n - 1 \in 0 .. N /\ n \in 0 .. N /\ A \in Nat /\ B \in Nat /\ f[n] = A + B
    BY <1>5, <1>6, <1>7, <1>8
  <2>3. \A i \in 1 .. n : i # n => i \in 1 .. n - 1 BY <2>2
  <2>4. \A i \in 1 .. n - 1 : i \in 1 .. n /\ i \in 1 .. N BY <2>2, <1>1
  <2>5. \A m \in 0 .. n : f[m] <= f[n]
    <3> SUFFICES ASSUME NEW m \in 0 .. n, m # n PROVE f[m] <= f[n] BY <2>2
    <3>1. m \in 0 .. n - 1 /\ m \in 0 .. N BY <2>2, <1>1
    <3>2. f[m] <= A /\ f[m] \in Nat BY <3>1, <2>1, <1>7
    <3> HIDE DEF A, B
    <3> QED BY <3>2, <2>2
  <2>6. ASSUME NEW i \in 1 .. n, NEW j \in 1 .. Len(lists[i])
        PROVE  f[i - 1] + j \in 1 .. f[n] /\ g[n][f[i - 1] + j] = lists[i][j]
    <3>1. CASE i = n
      <4>1. g[n][A + j] = lists[n][j] BY <3>1, <1>6
      <4>2. j \in 1 .. B BY <3>1
      <4>3. A + j \in 1 .. A + B
        <5> HIDE DEF A, B
        <5> QED BY <4>2, <2>2
      <4> QED BY <3>1, <4>1, <4>3, <2>2
    <3>2. CASE i # n
      <4> DEFINE x == f[i - 1] + j
      <4>1. x \in 1 .. A /\ g[n - 1][x] = lists[i][j] BY <3>2, <2>3, <2>1
      <4>2. g[n][x] = g[n - 1][x] BY <4>1, <1>6
      <4>3. x \in 1 .. A + B
        <5> HIDE DEF A, B, x
        <5> QED BY <4>1, <2>2
      <4> QED BY <4>1, <4>2, <4>3, <2>2
    <3> QED BY <3>1, <3>2
  <2>7. ASSUME NEW x \in 1 .. f[n]
        PROVE  \E i \in 1 .. n : \E j \in 1 .. Len(lists[i]) : x = f[i - 1] + j
    <3>1. CASE x \in 1 .. A BY <3>1, <2>1, <2>4
    <3>2. CASE x \notin 1 .. A
      <4>1. x - A \in 1 .. B /\ x = A + (x - A)
        <5>1. x \in 1 .. A + B BY <2>2
        <5> HIDE DEF A, B
        <5> QED BY <5>1, <3>2, <2>2
      <4>2. n \in 1 .. n BY <2>2
      <4> QED BY <4>1, <4>2
    <3> QED BY <3>1, <3>2
  <2>8. Laid(n) BY <2>5, <2>6, <2>7
  <2> QED BY <2>2, <2>8
<1>11. \A n \in 0 .. N : n \in G
  <2> HIDE DEF G
  <2> QED BY <1>1, <1>9, <1>10, UpTo
<1>12. Laid(N) /\ \A m, n \in 0 .. N : m <= n => f[m] <= f[n]
  <2>1. \A n \in 0 .. N : \A m \in 0 .. n : f[m] <= f[n] BY <1>11
  <2>2. \A m, n \in 0 .. N : m <= n => m \in 0 .. n OBVIOUS
  <2>3. Laid(N) BY <1>1, <1>11
  <2> QED BY <2>1, <2>2, <2>3
<1>13. f[N] = Len(FlattenSeq(lists)) /\ g[N] = FlattenSeq(lists) /\ FlattenSeq(lists) \in Seq(S)
  BY <1>1, <1>3, <1>4
<1>14. Offsets(f, lists) BY <1>4, <1>6, <1>12, <1>13, SMTT(60) DEF Offsets, N
<1> QED BY <1>13, <1>14

-----------------------------------------------------------------------------
(***************************************************************************)
(* HTTPS records                                                           *)
(***************************************************************************)
\* SelectInSeq finds the first item that passes a test, whose places are I.
LEMMA FirstPlace ==
  ASSUME NEW s, NEW n \in Nat, DOMAIN s = 1 .. n, NEW I, I \subseteq 1 .. n, I # {}
  PROVE  Min(I) \in I /\ Min(I) # 0
<1>1. I \subseteq Nat OBVIOUS
<1>2. Min(I) \in I BY <1>1, MinIs
<1> QED BY <1>2

\* A record's parameters before and after _sanitize_https_rdata.
LEMMA SanitizeKeeps ==
  ASSUME NEW x, IsRecord(x)
  PROVE  LET y == Sanitize(x)
         IN  /\ y.priority = x.priority /\ WellFormed(y)
             /\ DOMAIN y.params \subseteq DOMAIN x.params /\ DOMAIN y.params \cap Hints = {}
             /\ "alpn" \in DOMAIN y.params => "h3" \notin Range(y.params["alpn"])
             /\ "ech" \in DOMAIN y.params <=> "ech" \in DOMAIN x.params
             /\ "ech" \in DOMAIN y.params => y.params["ech"] = x.params["ech"]
<1> DEFINE p == x.params
           ids == IF "alpn" \in DOMAIN p THEN WithoutH3(p["alpn"]) ELSE <<>>
           gone == (DOMAIN p \cap Hints)
                   \cup (IF "alpn" \in DOMAIN p /\ ids = <<>> /\ p["alpn"] # <<>>
                         THEN DOMAIN p \cap {"alpn", "no-default-alpn"} ELSE {})
           kept == [k \in DOMAIN p \ gone |->
                     CASE k = "alpn" -> ids
                       [] k = "mandatory" -> MandatoryLeft(p[k], gone)
                       [] OTHER -> p[k]]
           emptied == {k \in DOMAIN kept \cap {"mandatory"} : kept[k] = {} /\ p[k] # {}}
           left == Without(kept, emptied)
           y == Sanitize(x)
<1>1. x = [priority |-> x.priority, params |-> p] BY DEF IsRecord
<1>2. y = [x EXCEPT !.params = left] BY DEF Sanitize
<1>3. y.priority = x.priority /\ y.params = left
  <2> HIDE DEF left, y, p
  <2> QED BY <1>1, <1>2
<1>4. DOMAIN kept = DOMAIN p \ gone OBVIOUS
<1>5. DOMAIN left = (DOMAIN p \ gone) \ emptied /\ \A k \in DOMAIN left : left[k] = kept[k]
  <2> HIDE DEF kept, emptied
  <2> QED BY <1>4 DEF Without, Restrict
<1>6. /\ "alpn" \in DOMAIN p => p["alpn"] # <<>> /\ p["alpn"] \in Seq(Range(p["alpn"]))
      /\ "mandatory" \in DOMAIN p => p["mandatory"] # {} /\ p["mandatory"] \subseteq DOMAIN p
      /\ "no-default-alpn" \in DOMAIN p => "alpn" \in DOMAIN p BY DEF IsRecord, WellFormed
<1>7. "alpn" \in DOMAIN p => "h3" \notin Range(ids)
  <2> SUFFICES ASSUME "alpn" \in DOMAIN p PROVE "h3" \notin Range(ids) OBVIOUS
  <2> DEFINE all == p["alpn"]
             good == {i \in DOMAIN all : all[i] # "h3"}
  <2>1. ids = Kept(all, good) BY DEF WithoutH3
  <2>2. all \in Seq(Range(all)) BY <1>6
  <2> HIDE DEF all, ids
  <2>3. Range(Kept(all, good)) = {all[i] : i \in good \cap DOMAIN all}
    <3> HIDE DEF good
    <3> QED BY <2>2, KeptRange
  <2> QED BY <2>1, <2>3
<1> HIDE DEF ids
<1>8. "alpn" \in DOMAIN p => ("alpn" \in gone <=> ids = <<>>) BY <1>6 DEF Hints
<1>9. "no-default-alpn" \in DOMAIN p /\ ids = <<>> => "no-default-alpn" \in gone BY <1>6
<1>10. gone \subseteq Hints \cup {"alpn", "no-default-alpn"} /\ DOMAIN p \cap Hints \subseteq gone OBVIOUS
<1>11. "alpn" \in DOMAIN p => p["alpn"] # <<>> BY <1>6
<1> HIDE DEF gone, p
<1>12. "mandatory" \in DOMAIN kept => kept["mandatory"] = p["mandatory"] \ gone
  BY DEF MandatoryLeft
<1>13. "alpn" \in DOMAIN kept => kept["alpn"] = ids OBVIOUS
<1>14. \A k \in DOMAIN kept : k \notin {"alpn", "mandatory"} => kept[k] = p[k] OBVIOUS
<1> HIDE DEF kept
<1>15. emptied \subseteq {"mandatory"} OBVIOUS
<1>16. "mandatory" \in DOMAIN left => kept["mandatory"] # {} /\ emptied = {}
  <2> SUFFICES ASSUME "mandatory" \in DOMAIN left PROVE kept["mandatory"] # {} /\ emptied = {} OBVIOUS
  <2>1. "mandatory" \in DOMAIN kept /\ "mandatory" \notin emptied BY <1>4, <1>5
  <2>2. "mandatory" \in DOMAIN p /\ p["mandatory"] # {} BY <2>1, <1>4, <1>6 DEF p
  <2> QED BY <2>1, <2>2
<1> HIDE DEF emptied, left, y
<1>17. WellFormed(y)
  <2>1. "mandatory" \in DOMAIN left => left["mandatory"] # {} /\ left["mandatory"] \subseteq DOMAIN left
    <3> SUFFICES ASSUME "mandatory" \in DOMAIN left
                 PROVE  left["mandatory"] # {} /\ left["mandatory"] \subseteq DOMAIN left OBVIOUS
    <3>1. "mandatory" \in DOMAIN p /\ "mandatory" \in DOMAIN kept BY <1>4, <1>5
    <3>2. left["mandatory"] = p["mandatory"] \ gone BY <3>1, <1>5, <1>12
    <3>3. p["mandatory"] \subseteq DOMAIN p BY <3>1, <1>6 DEF p
    <3>4. DOMAIN left = DOMAIN p \ gone BY <1>5, <1>16
    <3> QED BY <3>2, <3>3, <3>4, <1>5, <1>16
  <2>2. "no-default-alpn" \in DOMAIN left => "alpn" \in DOMAIN left
    <3> SUFFICES ASSUME "no-default-alpn" \in DOMAIN left PROVE "alpn" \in DOMAIN left OBVIOUS
    <3>1. "no-default-alpn" \in DOMAIN p /\ "no-default-alpn" \notin gone BY <1>5
    <3>2. "alpn" \in DOMAIN p /\ ids # <<>> BY <3>1, <1>6, <1>9 DEF p
    <3>3. "alpn" \notin gone BY <3>2, <1>8
    <3> QED BY <3>2, <3>3, <1>5, <1>15
  <2>3. "alpn" \in DOMAIN left => left["alpn"] # <<>>
    <3> SUFFICES ASSUME "alpn" \in DOMAIN left PROVE left["alpn"] # <<>> OBVIOUS
    <3>1. "alpn" \in DOMAIN p /\ "alpn" \notin gone /\ "alpn" \in DOMAIN kept BY <1>4, <1>5
    <3> QED BY <3>1, <1>5, <1>8, <1>13
  <2> QED BY <2>1, <2>2, <2>3, <1>3 DEF WellFormed
<1>18. DOMAIN left \subseteq DOMAIN p /\ DOMAIN left \cap Hints = {} BY <1>5, <1>10
<1>19. "alpn" \in DOMAIN left => "h3" \notin Range(left["alpn"])
  <2> SUFFICES ASSUME "alpn" \in DOMAIN left PROVE "h3" \notin Range(left["alpn"]) OBVIOUS
  <2>1. "alpn" \in DOMAIN p /\ "alpn" \in DOMAIN kept BY <1>4, <1>5
  <2>2. left["alpn"] = ids BY <2>1, <1>5, <1>13
  <2> QED BY <2>1, <2>2, <1>7
<1>20. ("ech" \in DOMAIN left <=> "ech" \in DOMAIN p) /\ ("ech" \in DOMAIN left => left["ech"] = p["ech"])
  <2>1. "ech" \notin gone /\ "ech" \notin emptied BY <1>10, <1>15 DEF Hints
  <2>2. "ech" \in DOMAIN left <=> "ech" \in DOMAIN p BY <2>1, <1>5
  <2>3. "ech" \in DOMAIN left => left["ech"] = p["ech"] BY <1>4, <1>5, <1>14
  <2> QED BY <2>2, <2>3
<1> QED BY <1>3, <1>17, <1>18, <1>19, <1>20 DEF p, y

\* _inject_ech makes records of records.
LEMMA EchMakesRecord ==
  ASSUME NEW x, IsRecord(x), x.priority # 0, NEW ech
  PROVE  LET y == [x EXCEPT !.params = WithEch(@, ech)]
         IN  /\ IsRecord(y) /\ y.priority = x.priority
             /\ "ech" \in DOMAIN y.params /\ y.params["ech"] = ech
<1> DEFINE p == x.params
           q == WithEch(p, ech)
           y == [x EXCEPT !.params = WithEch(@, ech)]
<1>1. x = [priority |-> x.priority, params |-> p] BY DEF IsRecord
<1>2. DOMAIN q = {"ech"} \cup DOMAIN p /\ q["ech"] = ech
      /\ \A k \in DOMAIN p : k # "ech" => q[k] = p[k] BY DEF WithEch
<1>3. q = [k \in DOMAIN q |-> q[k]] BY DEF WithEch
<1>4. /\ "alpn" \in DOMAIN p => p["alpn"] # <<>> /\ p["alpn"] \in Seq(Range(p["alpn"]))
      /\ "mandatory" \in DOMAIN p => p["mandatory"] # {} /\ p["mandatory"] \subseteq DOMAIN p
      /\ "no-default-alpn" \in DOMAIN p => "alpn" \in DOMAIN p BY DEF IsRecord, WellFormed
<1> HIDE DEF p, q
<1>5. y = [priority |-> x.priority, params |-> q] BY <1>1 DEF q, p
<1> HIDE DEF y
<1>6. y.priority = x.priority /\ y.params = q BY <1>5
<1>7. "alpn" \in DOMAIN q => "alpn" \in DOMAIN p /\ q["alpn"] = p["alpn"] BY <1>2
<1>8. "mandatory" \in DOMAIN q => "mandatory" \in DOMAIN p /\ q["mandatory"] = p["mandatory"] BY <1>2
<1>9. "no-default-alpn" \in DOMAIN q => "no-default-alpn" \in DOMAIN p BY <1>2
<1>10. WellFormed(y)
  <2>1. "mandatory" \in DOMAIN q => q["mandatory"] # {} /\ q["mandatory"] \subseteq DOMAIN q BY <1>2, <1>4, <1>8
  <2>2. "no-default-alpn" \in DOMAIN q => "alpn" \in DOMAIN q BY <1>2, <1>4, <1>9
  <2>3. "alpn" \in DOMAIN q => q["alpn"] # <<>> BY <1>4, <1>7
  <2> QED BY <2>1, <2>2, <2>3, <1>6 DEF WellFormed
<1>11. y = [priority |-> y.priority, params |-> [k \in DOMAIN y.params |-> y.params[k]]]
  <2>1. [k \in DOMAIN y.params |-> y.params[k]] = q BY <1>3, <1>6
  <2> QED BY <2>1, <1>5, <1>6
<1>12. "alpn" \in DOMAIN y.params => y.params["alpn"] \in Seq(Range(y.params["alpn"]))
  BY <1>4, <1>6, <1>7
<1>13. y.priority # 0 BY <1>6
<1>14. IsRecord(y) BY <1>10, <1>11, <1>12, <1>13 DEF IsRecord
<1> QED BY <1>2, <1>6, <1>14 DEF y, p

\* OnHttpsResponse works on the upstream's records or, with an ECH parameter, on
\* those _inject_ech made of them; the reply holds what _sanitize_https_rdata makes
\* of each.
Extended(c) ==
  LET ech == ExtractEch(c.cloudflare)
  IN  IF WantsEch(c.cfg, c.requestTags, c.baseTags, c.subqueryTags, c.rrset) /\ ech # NoEch
      THEN InjectEch(c.rrset, ech) ELSE c.rrset

Injects(c) ==
  /\ WantsEch(c.cfg, c.requestTags, c.baseTags, c.subqueryTags, c.rrset)
  /\ ExtractEch(c.cloudflare) # NoEch

\* What _inject_ech leaves are records, with the ECH parameter where it adds one.
LEMMA InjectedRecords ==
  ASSUME NEW S, NEW rrset \in Seq(S), \A r \in Range(rrset) : IsRecord(r), NEW ech, ~HasAnyEch(rrset)
  PROVE  LET injected == InjectEch(rrset, ech)
         IN  /\ injected \in Seq(Range(injected)) /\ \A r \in Range(injected) : IsRecord(r)
             /\ \A r \in Range(injected) : r.priority # 0 =>
                  "ech" \in DOMAIN r.params /\ r.params["ech"] = ech
<1> DEFINE injected == InjectEch(rrset, ech)
<1>1. Len(rrset) \in Nat /\ DOMAIN rrset = 1 .. Len(rrset) OBVIOUS
<1>2. CASE rrset = <<>>
  <2> DEFINE r == [priority |-> 1, params |-> WithEch(<<>>, ech)]
  <2>1. injected = <<r>> BY <1>2 DEF InjectEch
  <2>2. DOMAIN r.params = {"ech"} /\ r.params["ech"] = ech BY DEF WithEch
  <2>3. r.params = [k \in DOMAIN r.params |-> r.params[k]] BY DEF WithEch
  <2>4. r.priority = 1 OBVIOUS
  <2>5. r = [priority |-> r.priority, params |-> [k \in DOMAIN r.params |-> r.params[k]]]
    BY <2>3, <2>4
  <2> HIDE DEF r
  <2>6. IsRecord(r) BY <2>2, <2>4, <2>5 DEF IsRecord, WellFormed
  <2>7. injected \in Seq({r}) /\ Range(injected) = {r} BY <2>1 DEF Range
  <2> HIDE DEF injected
  <2> QED BY <2>2, <2>6, <2>7 DEF injected
<1>3. CASE rrset # <<>>
  <2> DEFINE new(i) == IF rrset[i].priority = 0 \/ "ech" \in DOMAIN rrset[i].params THEN rrset[i]
                       ELSE [rrset[i] EXCEPT !.params = WithEch(@, ech)]
  <2>1. injected = [i \in DOMAIN rrset |-> new(i)] BY <1>3 DEF InjectEch
  <2>2. ASSUME NEW i \in DOMAIN rrset
        PROVE  /\ IsRecord(new(i))
               /\ new(i).priority # 0 => "ech" \in DOMAIN new(i).params /\ new(i).params["ech"] = ech
    <3> DEFINE x == rrset[i]
    <3>1. x \in Range(rrset) BY DEF Range
    <3>2. IsRecord(x) /\ "ech" \notin DOMAIN x.params BY <3>1 DEF HasAnyEch
    <3>3. CASE x.priority = 0
      <4>1. new(i) = x BY <3>3
      <4> HIDE DEF new, x
      <4> QED BY <3>2, <3>3, <4>1
    <3>4. CASE x.priority # 0
      <4>1. new(i) = [x EXCEPT !.params = WithEch(@, ech)] BY <3>2, <3>4
      <4> HIDE DEF new, x
      <4>2. LET y == [x EXCEPT !.params = WithEch(@, ech)]
            IN  /\ IsRecord(y) /\ y.priority = x.priority
                /\ "ech" \in DOMAIN y.params /\ y.params["ech"] = ech
        BY <3>2, <3>4, EchMakesRecord
      <4> QED BY <4>1, <4>2
    <3> QED BY <3>3, <3>4
  <2> HIDE DEF new
  <2>3. Range(injected) = {new(i) : i \in DOMAIN rrset} BY <2>1 DEF Range
  <2>4. injected \in Seq(Range(injected))
    <3>1. injected = [i \in 1 .. Len(rrset) |-> new(i)] BY <2>1, <1>1
    <3>2. \A i \in 1 .. Len(rrset) : new(i) \in Range(injected) BY <2>3, <1>1
    <3> HIDE DEF injected
    <3> QED BY <3>1, <3>2, <1>1
  <2>5. \A r \in Range(injected) : IsRecord(r) /\
          (r.priority # 0 => "ech" \in DOMAIN r.params /\ r.params["ech"] = ech) BY <2>2, <2>3
  <2> QED BY <2>4, <2>5
<1> QED BY <1>2, <1>3

\* What the reply's records are made of.
LEMMA ReplyIs ==
  ASSUME NEW c, c.rrset \in Seq(Range(c.rrset)), \A r \in Range(c.rrset) : IsRecord(r)
  PROVE  /\ Range(HttpsReply(c)) = {Sanitize(x) : x \in Range(Extended(c))}
         /\ \A x \in Range(Extended(c)) : IsRecord(x)
         /\ Injects(c) => \A x \in Range(Extended(c)) : x.priority # 0 =>
              "ech" \in DOMAIN x.params /\ x.params["ech"] = ExtractEch(c.cloudflare)
<1> DEFINE ex == Extended(c)
           sane == [i \in DOMAIN ex |-> Sanitize(ex[i])]
<1>3. /\ ex \in Seq(Range(ex)) /\ \A r \in Range(ex) : IsRecord(r)
      /\ Injects(c) => \A x \in Range(ex) : x.priority # 0 =>
           "ech" \in DOMAIN x.params /\ x.params["ech"] = ExtractEch(c.cloudflare)
  <2>1. CASE Injects(c)
    <3>1. ex = InjectEch(c.rrset, ExtractEch(c.cloudflare)) BY <2>1 DEF Extended, Injects
    <3>2. ~HasAnyEch(c.rrset) BY <2>1 DEF Injects, WantsEch
    <3> HIDE DEF ex
    <3>3. /\ ex \in Seq(Range(ex)) /\ \A r \in Range(ex) : IsRecord(r)
          /\ \A r \in Range(ex) : r.priority # 0 =>
               "ech" \in DOMAIN r.params /\ r.params["ech"] = ExtractEch(c.cloudflare)
      BY <3>1, <3>2, InjectedRecords
    <3> QED BY <3>3
  <2>2. CASE ~Injects(c)
    <3>1. ex = c.rrset BY <2>2 DEF Extended, Injects
    <3> HIDE DEF ex
    <3> QED BY <3>1, <2>2
  <2> QED BY <2>1, <2>2
<1>4. HttpsReply(c) = Dedup(sane) BY DEF HttpsReply, OnHttpsResponse, Extended
<1> HIDE DEF ex
<1>5. Range(sane) = {Sanitize(x) : x \in Range(ex)}
  <2>1. DOMAIN sane = DOMAIN ex /\ \A i \in DOMAIN ex : sane[i] = Sanitize(ex[i]) OBVIOUS
  <2> HIDE DEF sane
  <2> QED BY <2>1 DEF Range
<1>6. sane \in Seq(Range(sane))
  <2>1. Len(ex) \in Nat /\ DOMAIN ex = 1 .. Len(ex) BY <1>3
  <2>2. \A i \in 1 .. Len(ex) : Sanitize(ex[i]) \in Range(sane) BY <2>1 DEF Range
  <2>3. sane = [i \in 1 .. Len(ex) |-> Sanitize(ex[i])] BY <2>1
  <2> HIDE DEF sane
  <2> QED BY <2>1, <2>2, <2>3
<1> HIDE DEF sane
<1>7. Range(HttpsReply(c)) = Range(sane) BY <1>4, <1>6, DedupRange
<1> QED BY <1>3, <1>5, <1>7 DEF ex

\* The ECH and the HTTPS plugin leave records that a client can use, whatever the
\* upstream sent and whatever the ECH subquery found (HttpsPlugin.on_response,
\* CloudflareEchPlugin.on_response).
LEMMA HttpsReplyIsUsable ==
  ASSUME Is("https"), case.of.rrset \in Seq(Range(case.of.rrset)),
         \A r \in Range(case.of.rrset) : IsRecord(r)
  PROVE  HttpsRecordsStayUsable
<1> DEFINE c == case.of
           reply == Range(HttpsReply(c))
           from == Range(Extended(c))
<1>1. /\ reply = {Sanitize(x) : x \in from} /\ \A x \in from : IsRecord(x)
      /\ Injects(c) => \A x \in from : x.priority # 0 =>
           "ech" \in DOMAIN x.params /\ x.params["ech"] = ExtractEch(c.cloudflare)
  BY ReplyIs
<1>2. ~Injects(c) => from = Range(c.rrset) BY DEF Extended, Injects
<1>3. HasAnyEch(c.rrset) => ~Injects(c) BY DEF Injects, WantsEch
<1>4. SanitisedRecordsStayUsable
  <2> SUFFICES ASSUME NEW r \in reply
               PROVE  /\ WellFormed(r) /\ DOMAIN r.params \cap Hints = {}
                      /\ "alpn" \in DOMAIN r.params => "h3" \notin Range(r.params["alpn"])
    BY DEF SanitisedRecordsStayUsable
  <2> HIDE DEF c, reply, from
  <2>1. PICK x \in from : r = Sanitize(x) BY <1>1
  <2> QED BY <2>1, <1>1, SanitizeKeeps
<1>5. EchIsAllOrNothing
  <2> DEFINE services == {r \in reply : r.priority # 0}
             with == {r \in services : "ech" \in DOMAIN r.params}
             had == {r \in Range(c.rrset) : "ech" \in DOMAIN r.params}
  <2> SUFFICES /\ \A r \in reply : r.priority = 0 => DOMAIN r.params = {}
               /\ HasAnyEch(c.rrset)
                  \/ with = {}
                  \/ (with = services /\ \A r \in with : r.params["ech"] = ExtractEch(c.cloudflare))
               /\ HasAnyEch(c.rrset) => {r.params["ech"] : r \in with} = {r.params["ech"] : r \in had}
    BY DEF EchIsAllOrNothing
  <2>1. \A r \in Range(c.rrset) : IsRecord(r) OBVIOUS
  <2> HIDE DEF c, reply, from
  <2>2. \A x \in from : IsRecord(x) => (x.priority = 0 => DOMAIN x.params = {}) BY DEF IsRecord
  <2>3. \A r \in reply : \E x \in from :
          /\ r = Sanitize(x) /\ r.priority = x.priority /\ DOMAIN r.params \subseteq DOMAIN x.params
          /\ "ech" \in DOMAIN r.params <=> "ech" \in DOMAIN x.params
          /\ "ech" \in DOMAIN r.params => r.params["ech"] = x.params["ech"]
    <3> SUFFICES ASSUME NEW x \in from
                 PROVE  LET r == Sanitize(x) IN
                        /\ r.priority = x.priority /\ DOMAIN r.params \subseteq DOMAIN x.params
                        /\ "ech" \in DOMAIN r.params <=> "ech" \in DOMAIN x.params
                        /\ "ech" \in DOMAIN r.params => r.params["ech"] = x.params["ech"]
      BY <1>1
    <3> QED BY <1>1, SanitizeKeeps
  <2>4. \A r \in reply : r.priority = 0 => DOMAIN r.params = {} BY <1>1, <2>2, <2>3
  <2>5. Injects(c) => with = services /\ \A r \in with : r.params["ech"] = ExtractEch(c.cloudflare)
    BY <1>1, <2>3
  <2>6. ~Injects(c) /\ ~HasAnyEch(c.rrset) => with = {} BY <1>2, <2>3 DEF HasAnyEch
  <2>7. HasAnyEch(c.rrset) => {r.params["ech"] : r \in with} = {r.params["ech"] : r \in had}
    <3> SUFFICES ASSUME HasAnyEch(c.rrset)
                 PROVE  {r.params["ech"] : r \in with} = {r.params["ech"] : r \in had} OBVIOUS
    <3>1. from = Range(c.rrset) BY <1>2, <1>3
    <3>2. \A r \in with : \E x \in had : r.params["ech"] = x.params["ech"] BY <2>3, <3>1
    <3>3. ASSUME NEW x \in had PROVE \E r \in with : r.params["ech"] = x.params["ech"]
      <4>1. x \in from /\ IsRecord(x) BY <3>1, <2>1
      <4>2. x.priority # 0 BY <4>1, <2>2
      <4> DEFINE r == Sanitize(x)
      <4>3. r \in reply BY <1>1, <4>1
      <4>4. r.priority = x.priority /\ "ech" \in DOMAIN r.params /\ r.params["ech"] = x.params["ech"]
        BY <4>1, SanitizeKeeps
      <4> QED BY <4>2, <4>3, <4>4
    <3> QED BY <3>2, <3>3
  <2> QED BY <2>4, <2>5, <2>6, <2>7
<1> QED BY <1>4, <1>5 DEF HttpsRecordsStayUsable

-----------------------------------------------------------------------------
(***************************************************************************)
(* Speed test                                                              *)
(***************************************************************************)
\* s lists 1 .. N in the order of b.
Ordered(s, b, N) ==
  /\ s \in [1 .. N -> 1 .. N]
  /\ \A m, n \in 1 .. N : s[m] = s[n] => m = n
  /\ \A i \in 1 .. N : \E n \in 1 .. N : s[n] = i
  /\ \A m, n \in 1 .. N : m < n => b[s[m]] <= b[s[n]]

\* Ranking by b, then by place, gives every place a rank of its own: sorted is a
\* stable sort.
LEMMA RanksAreAnOrder ==
  ASSUME NEW N \in Nat, NEW b \in [1 .. N -> Nat]
  PROVE  LET rank == [i \in 1 .. N |->
               Cardinality({j \in 1 .. N : b[j] < b[i] \/ (b[j] = b[i] /\ j <= i)})]
         IN  Ordered([n \in 1 .. N |-> CHOOSE i \in 1 .. N : rank[i] = n], b, N)
<1> DEFINE below(i) == {j \in 1 .. N : b[j] < b[i] \/ (b[j] = b[i] /\ j <= i)}
           rank == [i \in 1 .. N |-> Cardinality(below(i))]
           sorted == [n \in 1 .. N |-> CHOOSE i \in 1 .. N : rank[i] = n]
<1>1. IsFiniteSet(1 .. N) /\ Cardinality(1 .. N) = N BY FS_Interval
<1>2. \A i \in 1 .. N : below(i) \subseteq 1 .. N /\ i \in below(i) OBVIOUS
<1>3. \A i, j \in 1 .. N : i # j => i \in below(j) \/ j \in below(i) OBVIOUS
<1>4. \A i, j \in 1 .. N : i # j /\ i \in below(j) => below(i) \subseteq below(j) /\ j \notin below(i)
  OBVIOUS
<1>5. \A i, j \in 1 .. N : i \in below(j) => b[i] <= b[j] OBVIOUS
<1> HIDE DEF below
<1>6. \A i \in 1 .. N : rank[i] \in 1 .. N /\ IsFiniteSet(below(i))
  <2> SUFFICES ASSUME NEW i \in 1 .. N PROVE rank[i] \in 1 .. N /\ IsFiniteSet(below(i)) OBVIOUS
  <2>1. below(i) \in SUBSET (1 .. N) BY <1>2
  <2>2. IsFiniteSet(below(i)) /\ Cardinality(below(i)) <= N BY <2>1, <1>1, FS_Subset
  <2>3. Cardinality(below(i)) \in Nat BY <2>2, FS_CardinalityType
  <2>4. below(i) # {} BY <1>2
  <2>5. Cardinality(below(i)) # 0 BY <2>2, <2>4, FS_EmptySet
  <2> QED BY <2>2, <2>3, <2>5
<1>a. 1 .. N \subseteq Nat OBVIOUS
<1>7. \A i, j \in 1 .. N : i # j /\ i \in below(j) => rank[i] < rank[j]
  <2> SUFFICES ASSUME NEW i \in 1 .. N, NEW j \in 1 .. N, i # j, i \in below(j)
               PROVE  rank[i] < rank[j] OBVIOUS
  <2>1. below(i) \in SUBSET below(j) /\ below(i) # below(j) BY <1>2, <1>4
  <2>2. IsFiniteSet(below(j)) BY <1>6
  <2>3. Cardinality(below(i)) <= Cardinality(below(j)) /\ Cardinality(below(i)) # Cardinality(below(j))
    BY <2>1, <2>2, FS_Subset
  <2>4. rank[i] = Cardinality(below(i)) /\ rank[j] = Cardinality(below(j)) OBVIOUS
  <2>5. rank[i] \in Nat /\ rank[j] \in Nat
    <3> HIDE DEF rank
    <3> QED BY <1>6, <1>a
  <2> HIDE DEF rank
  <2> QED BY <2>3, <2>4, <2>5
<1> DEFINE T == 1 .. N
<1>8. rank \in [T -> T] BY <1>6
<1>9. \A i, j \in T : rank[i] = rank[j] => i = j
  <2> SUFFICES ASSUME NEW i \in T, NEW j \in T, i # j PROVE rank[i] # rank[j] OBVIOUS
  <2>1. rank[i] < rank[j] \/ rank[j] < rank[i] BY <1>3, <1>7
  <2>2. rank[i] \in Nat /\ rank[j] \in Nat
    <3> HIDE DEF rank
    <3> QED BY <1>6, <1>a
  <2> QED BY <2>1, <2>2
<1>10. \A n \in T : \E i \in T : rank[i] = n
  <2> HIDE DEF rank
  <2>1. rank \in Injection(T, T) BY <1>8, <1>9 DEF Injection, IsInjective
  <2>2. IsFiniteSet(T) /\ Cardinality(T) = Cardinality(T) BY <1>1
  <2> HIDE DEF T
  <2>3. rank \in Surjection(T, T) BY <2>1, <2>2, FS_Injection
  <2> QED BY <2>3 DEF Surjection
<1> HIDE DEF rank
<1>11. \A n \in T : sorted[n] \in T /\ rank[sorted[n]] = n BY <1>10
<1>12. DOMAIN sorted = T OBVIOUS
<1> HIDE DEF sorted
<1>13. \A m, n \in T : sorted[m] = sorted[n] => m = n BY <1>11
<1>14. \A i \in T : \E n \in T : sorted[n] = i
  <2> SUFFICES ASSUME NEW i \in T PROVE \E n \in T : sorted[n] = i OBVIOUS
  <2>1. rank[i] \in T BY <1>8
  <2>2. rank[sorted[rank[i]]] = rank[i] /\ sorted[rank[i]] \in T BY <2>1, <1>11
  <2>3. sorted[rank[i]] = i BY <2>2, <1>9
  <2> QED BY <2>1, <2>3
<1>15. \A m, n \in T : m < n => b[sorted[m]] <= b[sorted[n]]
  <2> SUFFICES ASSUME NEW m \in T, NEW n \in T, m < n PROVE b[sorted[m]] <= b[sorted[n]] OBVIOUS
  <2>1. sorted[m] \in T /\ sorted[n] \in T /\ rank[sorted[m]] = m /\ rank[sorted[n]] = n BY <1>11
  <2>2. sorted[m] # sorted[n] BY <2>1
  <2>3. ~(sorted[n] \in below(sorted[m]))
    <3> SUFFICES ASSUME sorted[n] \in below(sorted[m]) PROVE FALSE OBVIOUS
    <3>1. rank[sorted[n]] < rank[sorted[m]] BY <2>1, <2>2, <1>7
    <3> QED BY <3>1, <2>1
  <2>4. sorted[m] \in below(sorted[n]) BY <2>1, <2>2, <2>3, <1>3
  <2> QED BY <2>1, <2>4, <1>5
<1>16. sorted \in [T -> T]
  <2> HIDE DEF T
  <2>1. sorted = [n \in T |-> sorted[n]] BY <1>12 DEF sorted
  <2> QED BY <2>1, <1>11
<1>17. Ordered(sorted, b, N) BY <1>13, <1>14, <1>15, <1>16 DEF Ordered
<1> QED BY <1>17 DEF sorted, rank, below

\* The loop that breaks keeps the longest prefix without a bad place.
LEMMA KeepWhileKeeps ==
  ASSUME NEW S, NEW s \in Seq(S), NEW good
  PROVE  \E k \in 0 .. Len(s) :
           /\ KeepWhile(s, good) \in Seq(S) /\ Len(KeepWhile(s, good)) = k
           /\ \A n \in 1 .. k : n \in good /\ KeepWhile(s, good)[n] = s[n]
           /\ k < Len(s) => k + 1 \notin good
<1> DEFINE N == Len(s)
           P == {i \in DOMAIN s : 1 .. i \subseteq good}
           k == Cardinality(P)
<1>1. N \in Nat /\ DOMAIN s = 1 .. N OBVIOUS
<1>2. KeepWhile(s, good) = SubSeq(s, 1, k) BY DEF KeepWhile
<1>3. \A i \in P : \A j \in 1 .. i : j \in P
  <2> SUFFICES ASSUME NEW i \in P, NEW j \in 1 .. i PROVE j \in P OBVIOUS
  <2>1. j \in 1 .. N /\ 1 .. j \subseteq 1 .. i BY <1>1
  <2> QED BY <2>1, <1>1
<1>4. P \subseteq 1 .. N BY <1>1
<1>5. \A i \in P : i \in good BY <1>1
<1>6. \A i \in 1 .. N : i \notin P => \E j \in 1 .. i : j \notin good BY <1>1
<1> HIDE DEF P
<1>7. k \in 0 .. N /\ P = 1 .. k
  <2>1. CASE P = {}
    <3>1. k = 0 BY <2>1, FS_EmptySet
    <3>2. 1 .. 0 = {} OBVIOUS
    <3> QED BY <2>1, <3>1, <3>2, <1>1
  <2>2. CASE P # {}
    <3> DEFINE m == Max(P)
    <3>1. m \in P /\ \A i \in P : i <= m BY <2>2, <1>1, <1>4, MaxOf
    <3> HIDE DEF m
    <3>2. m \in 1 .. N BY <3>1, <1>4
    <3>3. P = 1 .. m
      <4>1. \A i \in P : i \in 1 .. m BY <3>1, <3>2, <1>1, <1>4
      <4> QED BY <4>1, <3>1, <1>3
    <3>4. Cardinality(1 .. m) = m BY <3>2, <1>1, FS_Interval
    <3> QED BY <3>2, <3>3, <3>4, <1>1
  <2> QED BY <2>1, <2>2
<1> HIDE DEF k
<1>8. SubSeq(s, 1, k) \in Seq(S) /\ Len(SubSeq(s, 1, k)) = k /\ \A n \in 1 .. k : SubSeq(s, 1, k)[n] = s[n]
  BY <1>1, <1>7
<1>9. \A n \in 1 .. k : n \in good BY <1>5, <1>7
<1>10. k < N => k + 1 \notin good
  <2> SUFFICES ASSUME k < N, k + 1 \in good PROVE FALSE OBVIOUS
  <2>1. k + 1 \in 1 .. N /\ k + 1 \notin P BY <1>1, <1>7
  <2>2. PICK j \in 1 .. k + 1 : j \notin good BY <2>1, <1>6
  <2>3. j = k + 1 \/ j \in 1 .. k BY <1>7
  <2> QED BY <2>2, <2>3, <1>9
<1> QED BY <1>2, <1>7, <1>8, <1>9, <1>10

\* The candidates that were measured, each once.
LEMMA MeasuredAre ==
  ASSUME NEW S, NEW candidates \in Seq(S), IsInjective(candidates), NEW list
  PROVE  /\ Measured(list, candidates) \in Seq(S)
         /\ IsInjective(Measured(list, candidates))
         /\ Range(Measured(list, candidates)) = {ip \in Range(candidates) : HasDuration(list, ip)}
<1> DEFINE good == {i \in DOMAIN candidates : HasDuration(list, candidates[i])}
           k == Measured(list, candidates)
<1>1. k = Kept(candidates, good) BY DEF Measured
<1> HIDE DEF k
<1>2. k \in Seq(S) /\ Range(k) = {candidates[i] : i \in good \cap DOMAIN candidates}
  <2> HIDE DEF good
  <2> QED BY <1>1, KeptRange
<1>3. PICK e : PlacesOf(e, k, candidates, good, Len(candidates)) BY <1>1, KeptPlaces
<1>4. DOMAIN k = 1 .. Len(k) /\ Len(k) \in Nat /\ Len(candidates) \in Nat BY <1>2
<1>5. Range(k) = {ip \in Range(candidates) : HasDuration(list, ip)} BY <1>2 DEF Range
<1> HIDE DEF good
<1>6. \A i \in 1 .. Len(k) : e[i] \in 1 .. Len(candidates) /\ k[i] = candidates[e[i]] BY <1>3 DEF PlacesOf
<1>7. \A i, j \in 1 .. Len(k) : i < j => e[i] < e[j] BY <1>3 DEF PlacesOf
<1>8. \A i, j \in 1 .. Len(k) : k[i] = k[j] => i = j
  <2> SUFFICES ASSUME NEW i \in 1 .. Len(k), NEW j \in 1 .. Len(k), k[i] = k[j] PROVE i = j OBVIOUS
  <2>1. e[i] = e[j] BY <1>6 DEF IsInjective
  <2>2. e[i] \in Nat /\ i \in Nat /\ j \in Nat BY <1>4, <1>6
  <2>3. ~(i < j) /\ ~(j < i) BY <2>1, <2>2, <1>7
  <2> QED BY <2>2, <2>3
<1>9. IsInjective(k) BY <1>4, <1>8 DEF IsInjective
<1> QED BY <1>2, <1>5, <1>9 DEF k

\* What an address is judged by is a duration.
LEMMA BestIsDuration ==
  ASSUME NEW S, NEW list \in Seq([ip: S, best: (0 .. Inf) \cup {NoRtt}]), NEW ip, HasDuration(list, ip)
  PROVE  Best(list, ip) \in 0 .. Inf
<1> DEFINE N == Len(list)
           I == {i \in 1 .. N : list[i].ip = ip /\ list[i].best # NoRtt}
<1>1. N \in Nat /\ DOMAIN list = 1 .. N /\ I \subseteq 1 .. N OBVIOUS
<1>2. I # {} BY <1>1 DEF HasDuration, Range
<1>3. Best(list, ip) = list[Max(I)].best BY <1>2 DEF Best, SelectLastInSeq
<1>4. Max(I) \in I
  <2> HIDE DEF I, N
  <2> QED BY <1>1, <1>2, MaxOf
<1> DEFINE D == (0 .. Inf) \cup {NoRtt}
           R == [ip: S, best: D]
<1>5. \A i \in 1 .. N : list[i].best \in D
  <2>1. list \in Seq(R) OBVIOUS
  <2>2. \A x \in R : x.best \in D OBVIOUS
  <2> HIDE DEF R, D
  <2>3. \A i \in 1 .. N : list[i] \in R BY <2>1
  <2> QED BY <2>2, <2>3
<1>6. \A i \in I : list[i].best \in 0 .. Inf BY <1>5
<1> HIDE DEF I
<1> QED BY <1>3, <1>4, <1>6

\* Sorting, the tolerance, the gap and the limit together choose the fastest
\* (SpeedTestPlugin.on_response).
LEMMA ChoiceIsFastest ==
  ASSUME NEW S, NEW candidates \in Seq(S), IsInjective(candidates),
         NEW list \in Seq([ip: S, best: (0 .. Inf) \cup {NoRtt}]),
         \E ip \in Range(candidates) : HasDuration(list, ip),
         NEW cfg, cfg.tolerance \in Nat, cfg.gap \in Nat, cfg.limit \in Nat \ {0}
  PROVE  AreFastest(Choose(list, candidates, cfg), list, candidates, cfg)
<1> USE SpeedChoiceAssumption
<1> DEFINE known == Measured(list, candidates)
           N == Len(known)
           has == {ip \in Range(candidates) : HasDuration(list, ip)}
<1>1. known \in Seq(S) /\ IsInjective(known) /\ Range(known) = has BY MeasuredAre
<1>2. \A ip \in has : HasDuration(list, ip) OBVIOUS
<1>3. has # {}
  <2>1. PICK ip \in Range(candidates) : HasDuration(list, ip) OBVIOUS
  <2>2. ip \in has BY <2>1
  <2> QED BY <2>2
<1> DEFINE best == [i \in DOMAIN known |-> Best(list, known[i])]
           rank == [i \in DOMAIN known |->
                      Cardinality({j \in DOMAIN known :
                        best[j] < best[i] \/ (best[j] = best[i] /\ j <= i)})]
           sorted == [n \in DOMAIN known |-> CHOOSE i \in DOMAIN known : rank[i] = n]
           near == KeepWhile(sorted, {n \in DOMAIN sorted :
                     Within(best[sorted[n]], best[sorted[1]], cfg.tolerance)})
           kept == IF near = <<>> THEN sorted ELSE near
           cut == KeepWhile(kept, {n \in DOMAIN kept :
                    n = 1 \/ ~GapAfter(best[kept[n]], best[kept[n - 1]], cfg.gap)})
           chosen == [n \in 1 .. (IF Len(cut) < cfg.limit THEN Len(cut) ELSE cfg.limit) |-> known[cut[n]]]
<1>4. Choose(list, candidates, cfg) = chosen BY DEF Choose
<1> HIDE DEF known, has
<1>5. N \in Nat /\ DOMAIN known = 1 .. N /\ N # 0
  <2>1. known # <<>> BY <1>1, <1>3 DEF Range
  <2> QED BY <2>1, <1>1
<1>6. \A i \in 1 .. N : known[i] \in has BY <1>1, <1>5 DEF Range
<1>7. \A ip \in has : \E i \in 1 .. N : known[i] = ip BY <1>1, <1>5 DEF Range
<1>8. \A i, j \in 1 .. N : known[i] = known[j] => i = j BY <1>1, <1>5 DEF IsInjective
<1>9. \A ip \in has : Best(list, ip) \in 0 .. Inf BY <1>2, BestIsDuration
<1> HIDE DEF N
<1>10. best \in [1 .. N -> 0 .. Inf] /\ \A i \in 1 .. N : best[i] = Best(list, known[i])
  BY <1>5, <1>6, <1>9
<1>11. Ordered(sorted, best, N)
  <2> DEFINE r(b) == [i \in 1 .. N |-> Cardinality({j \in 1 .. N : b[j] < b[i] \/ (b[j] = b[i] /\ j <= i)})]
             o(b) == [n \in 1 .. N |-> CHOOSE i \in 1 .. N : r(b)[i] = n]
  <2>1. sorted = o(best) BY <1>5
  <2> HIDE DEF sorted
  <2>2. best \in [1 .. N -> Nat] BY <1>10
  <2> HIDE DEF best
  <2>3. Ordered(o(best), best, N) BY <2>2, <1>5, RanksAreAnOrder
  <2> HIDE DEF o
  <2> QED BY <2>1, <2>3
<1> HIDE DEF best, rank, sorted
<1>12. /\ sorted \in [1 .. N -> 1 .. N] /\ \A m, n \in 1 .. N : sorted[m] = sorted[n] => m = n
       /\ \A i \in 1 .. N : \E n \in 1 .. N : sorted[n] = i
       /\ \A m, n \in 1 .. N : m < n => best[sorted[m]] <= best[sorted[n]]
  BY <1>11 DEF Ordered
<1>13. sorted \in Seq(1 .. N) /\ Len(sorted) = N /\ DOMAIN sorted = 1 .. N
  <2> DEFINE T == 1 .. N
  <2>1. sorted \in [1 .. N -> T] BY <1>12
  <2> HIDE DEF T
  <2>2. sorted \in Seq(T) /\ Len(sorted) = N /\ DOMAIN sorted = 1 .. N BY <2>1, <1>5
  <2> QED BY <2>2 DEF T
<1>14. \A n \in 1 .. N : best[sorted[n]] \in 0 .. Inf BY <1>10, <1>12
<1>15. \A n \in 1 .. N : best[sorted[1]] <= best[sorted[n]]
  <2> SUFFICES ASSUME NEW n \in 1 .. N PROVE best[sorted[1]] <= best[sorted[n]] OBVIOUS
  <2>1. 1 \in 1 .. N /\ (n = 1 \/ 1 < n) BY <1>5
  <2>2. best[sorted[1]] \in 0 .. Inf BY <2>1, <1>14
  <2>3. best[sorted[1]] <= best[sorted[1]] BY <2>2
  <2> QED BY <2>1, <2>3, <1>12
\* the tolerance keeps a prefix
<1> DEFINE close == {n \in DOMAIN sorted : Within(best[sorted[n]], best[sorted[1]], cfg.tolerance)}
<1>16. PICK p \in 0 .. N :
         /\ near \in Seq(1 .. N) /\ Len(near) = p
         /\ \A n \in 1 .. p : n \in close /\ near[n] = sorted[n]
         /\ p < N => p + 1 \notin close
  <2>1. near = KeepWhile(sorted, close) OBVIOUS
  <2> DEFINE T == 1 .. N
  <2> HIDE DEF near, close, T
  <2>2. sorted \in Seq(T) BY <1>13 DEF T
  <2>3. \E k \in 0 .. Len(sorted) :
          /\ KeepWhile(sorted, close) \in Seq(T) /\ Len(KeepWhile(sorted, close)) = k
          /\ \A n \in 1 .. k : n \in close /\ KeepWhile(sorted, close)[n] = sorted[n]
          /\ k < Len(sorted) => k + 1 \notin close BY <2>2, KeepWhileKeeps
  <2> QED BY <2>1, <2>3, <1>13 DEF T
<1> HIDE DEF near
<1>17. p = 0 => best[sorted[1]] = Inf
  <2> SUFFICES ASSUME p = 0, best[sorted[1]] # Inf PROVE FALSE OBVIOUS
  <2>1. 1 \in 1 .. N /\ 0 < N BY <1>5
  <2>2. 1 \notin close BY <2>1, <1>16
  <2>3. best[sorted[1]] \in Nat /\ best[sorted[1]] - best[sorted[1]] <= cfg.tolerance BY <2>1, <1>14
  <2> QED BY <2>1, <2>2, <2>3, <1>13 DEF Within
<1>18. \A n \in 1 .. p : best[sorted[n]] - best[sorted[1]] <= cfg.tolerance BY <1>16 DEF Within
<1> DEFINE q == IF p = 0 THEN N ELSE p
<1>19. q \in 1 .. N /\ (p # 0 => q = p) BY <1>5, <1>16
<1>20. kept \in Seq(1 .. N) /\ Len(kept) = q /\ \A n \in 1 .. q : kept[n] = sorted[n]
  <2>1. CASE p = 0
    <3>1. near = <<>> BY <2>1, <1>16
    <3>2. kept = sorted /\ q = N BY <2>1, <3>1
    <3> HIDE DEF kept, q
    <3> QED BY <3>2, <1>13
  <2>2. CASE p # 0
    <3>1. near # <<>> BY <2>2, <1>16
    <3>2. kept = near /\ q = p BY <2>2, <3>1
    <3> HIDE DEF kept, q
    <3> QED BY <3>2, <1>16
  <2> QED BY <2>1, <2>2
<1> HIDE DEF kept, q, close
\* the gap cuts it
<1> DEFINE slow == {n \in DOMAIN kept : n = 1 \/ ~GapAfter(best[kept[n]], best[kept[n - 1]], cfg.gap)}
<1>21. PICK u \in 0 .. q :
         /\ cut \in Seq(1 .. N) /\ Len(cut) = u
         /\ \A n \in 1 .. u : cut[n] = kept[n]
         /\ u < q => u + 1 \notin slow
  <2>1. cut = KeepWhile(kept, slow) OBVIOUS
  <2> HIDE DEF cut, slow
  <2>2. \E k \in 0 .. Len(kept) :
          /\ KeepWhile(kept, slow) \in Seq(1 .. N) /\ Len(KeepWhile(kept, slow)) = k
          /\ \A n \in 1 .. k : n \in slow /\ KeepWhile(kept, slow)[n] = kept[n]
          /\ k < Len(kept) => k + 1 \notin slow BY <1>20, KeepWhileKeeps
  <2> QED BY <2>1, <2>2, <1>20
<1>22. u # 0
  <2> SUFFICES ASSUME u = 0 PROVE FALSE OBVIOUS
  <2>1. 1 \notin slow BY <1>19, <1>21
  <2>2. 1 \in DOMAIN kept BY <1>19, <1>20
  <2> QED BY <2>1, <2>2
<1> HIDE DEF cut, slow
\* and the limit once more
<1> DEFINE L == IF Len(cut) < cfg.limit THEN Len(cut) ELSE cfg.limit
<1>23. L \in 1 .. N /\ L <= u /\ L <= q /\ L <= cfg.limit BY <1>5, <1>19, <1>21, <1>22, SMTT(60)
<1>24. \A n \in 1 .. L : n \in 1 .. N /\ n \in 1 .. q /\ cut[n] = sorted[n] /\ (p # 0 => n \in 1 .. p)
  <2> SUFFICES ASSUME NEW n \in 1 .. L
               PROVE  n \in 1 .. N /\ n \in 1 .. q /\ cut[n] = sorted[n] /\ (p # 0 => n \in 1 .. p) OBVIOUS
  <2> HIDE DEF L
  <2>1. n \in 1 .. u /\ n \in 1 .. q /\ n \in 1 .. N BY <1>5, <1>19, <1>21, <1>23
  <2>2. cut[n] = sorted[n] BY <2>1, <1>20, <1>21
  <2> QED BY <2>1, <2>2, <1>19
<1>25. chosen = [n \in 1 .. L |-> known[cut[n]]] OBVIOUS
<1> HIDE DEF chosen, L
<1>26. DOMAIN chosen = 1 .. L /\ \A n \in 1 .. L : chosen[n] = known[sorted[n]] BY <1>24, <1>25
<1>27. L \in Nat /\ \A n \in 1 .. L : sorted[n] \in 1 .. N
  <2>1. L \in Nat BY <1>5, <1>23
  <2>2. \A n \in 1 .. N : sorted[n] \in 1 .. N BY <1>12
  <2>3. \A n \in 1 .. L : n \in 1 .. N BY <1>24
  <2> QED BY <2>1, <2>2, <2>3
<1>28. chosen \in Seq(has) /\ Len(chosen) = L
  <2>1. \A n \in 1 .. L : chosen[n] \in has BY <1>6, <1>26, <1>27
  <2>2. chosen \in [1 .. L -> has]
    <3> HIDE DEF has
    <3>1. chosen = [n \in DOMAIN chosen |-> chosen[n]] BY <1>25
    <3> QED BY <2>1, <3>1, <1>26
  <2>3. L \in Nat BY <1>27
  <2> HIDE DEF has
  <2> QED BY <2>2, <2>3
<1> DEFINE b(ip) == Best(list, ip)
<1>29. \A n \in 1 .. L : b(chosen[n]) = best[sorted[n]] BY <1>10, <1>26, <1>27
<1>30. \A ip \in has : \E n \in 1 .. N : ip = known[sorted[n]] /\ b(ip) = best[sorted[n]]
  <2> SUFFICES ASSUME NEW ip \in has
               PROVE  \E n \in 1 .. N : ip = known[sorted[n]] /\ b(ip) = best[sorted[n]] OBVIOUS
  <2>1. PICK i \in 1 .. N : known[i] = ip BY <1>7
  <2>2. PICK n \in 1 .. N : sorted[n] = i BY <1>12
  <2> QED BY <2>1, <2>2, <1>10
<1>31. \A a \in Range(chosen) : \E n \in 1 .. L : a = chosen[n] /\ b(a) = best[sorted[n]]
  BY <1>26, <1>29 DEF Range
<1> HIDE DEF b
<1>a. chosen # <<>> /\ Range(chosen) \subseteq has /\ Len(chosen) <= cfg.limit
  <2>1. chosen # <<>> BY <1>23, <1>28
  <2>2. Range(chosen) \subseteq has BY <1>28 DEF Range
  <2> QED BY <2>1, <2>2, <1>23, <1>28
<1>b. IsInjective(chosen)
  <2> SUFFICES ASSUME NEW m \in 1 .. L, NEW n \in 1 .. L, chosen[m] = chosen[n] PROVE m = n
    BY <1>26 DEF IsInjective
  <2>1. sorted[m] = sorted[n] BY <1>8, <1>26, <1>27, SMTT(60)
  <2> QED BY <2>1, <1>12, <1>24
<1>c. \A i \in 1 .. Len(chosen) - 1 : b(chosen[i]) <= b(chosen[i + 1])
  <2> SUFFICES ASSUME NEW i \in 1 .. L - 1 PROVE b(chosen[i]) <= b(chosen[i + 1]) BY <1>28
  <2>1. i \in 1 .. L /\ i + 1 \in 1 .. L /\ i < i + 1 BY <1>27
  <2>2. best[sorted[i]] <= best[sorted[i + 1]] BY <2>1, <1>12, <1>24
  <2> QED BY <2>1, <2>2, <1>29
<1>d. \A x \in Range(chosen), y \in has \ Range(chosen) : b(x) <= b(y)
  <2> SUFFICES ASSUME NEW x \in Range(chosen), NEW y \in has \ Range(chosen) PROVE b(x) <= b(y) OBVIOUS
  <2>1. PICK m \in 1 .. L : b(x) = best[sorted[m]] BY <1>31
  <2>2. PICK n \in 1 .. N : y = known[sorted[n]] /\ b(y) = best[sorted[n]] BY <1>30
  <2>3. n \notin 1 .. L BY <2>2, <1>26 DEF Range
  <2>4. m < n BY <2>3, <1>23, <1>5
  <2>5. m \in 1 .. N BY <1>24
  <2>6. best[sorted[m]] <= best[sorted[n]] BY <2>4, <2>5, <1>12
  <2> QED BY <2>1, <2>2, <2>6
<1>e. (\E y \in has : b(y) # Inf) => \A x \in Range(chosen), y \in has : b(x) - b(y) <= cfg.tolerance
  <2> SUFFICES ASSUME NEW z \in has, b(z) # Inf, NEW x \in Range(chosen), NEW y \in has
               PROVE  b(x) - b(y) <= cfg.tolerance OBVIOUS
  <2>1. PICK n \in 1 .. N : b(z) = best[sorted[n]] BY <1>30
  <2>2. best[sorted[1]] <= best[sorted[n]] /\ best[sorted[n]] # Inf BY <2>1, <1>15
  <2>3. 1 \in 1 .. N BY <1>5
  <2>4. best[sorted[1]] \in 0 .. Inf /\ best[sorted[n]] \in 0 .. Inf BY <2>3, <1>14
  <2>5. best[sorted[1]] # Inf BY <2>2, <2>4, SMTT(60)
  <2>6. PICK m \in 1 .. L : b(x) = best[sorted[m]] BY <1>31
  <2>7. m \in 1 .. p /\ m \in 1 .. N BY <2>5, <1>17, <1>24
  <2>8. best[sorted[m]] - best[sorted[1]] <= cfg.tolerance BY <2>7, <1>18
  <2>9. PICK k \in 1 .. N : b(y) = best[sorted[k]] BY <1>30
  <2>10. best[sorted[1]] <= best[sorted[k]] BY <1>15
  <2>11. best[sorted[m]] \in Nat /\ best[sorted[1]] \in Nat /\ best[sorted[k]] \in Nat BY <2>3, <2>7, <1>14, SMTT(60)
  <2>12. \A i, j, l \in Nat : i - j <= cfg.tolerance /\ j <= l => i - l <= cfg.tolerance BY SMTT(60)
  <2>13. best[sorted[m]] - best[sorted[k]] <= cfg.tolerance BY <2>8, <2>10, <2>11, <2>12
  <2> QED BY <2>6, <2>9, <2>13
<1> QED BY <1>4, <1>a, <1>b, <1>c, <1>d, <1>e DEF AreFastest, has, b

\* Where nothing could be measured, the answer is a fallback of its family or stays
\* what it was (_select_fallback_ips).
LEMMA FallbackOfFamily ==
  ASSUME NEW S, NEW rules, rules \in Seq(Range(rules)), NEW tags, NEW family,
         \A rule \in Range(rules) : rule[family] \in Seq(S)
  PROVE  SelectFallback(rules, tags, family) \in Seq(S)
<1> DEFINE N == Len(rules)
           Applies(rule) == /\ tags \cap rule.exclude = {} /\ tags \cap rule.match # {}
                            /\ rule[family] # <<>>
           I == {i \in 1 .. N : Applies(rules[i])}
           i == IF I # {} THEN Min(I) ELSE 0
<1>1. SelectFallback(rules, tags, family) = IF i = 0 THEN <<>> ELSE rules[i][family]
  BY DEF SelectFallback, SelectInSeq
<1>2. N \in Nat /\ I \subseteq 1 .. N /\ DOMAIN rules = 1 .. N OBVIOUS
<1> HIDE DEF I
<1>3. I # {} => i \in 1 .. N /\ i # 0 BY <1>2, FirstPlace
<1>4. i # 0 => rules[i] \in Range(rules) BY <1>2, <1>3 DEF Range
<1> QED BY <1>1, <1>4

-----------------------------------------------------------------------------
(***************************************************************************)
(* Answers                                                                 *)
(***************************************************************************)
\* The place of the RRset of a name and a type, the RRset found there, and where
\* one step along the chain of aliases leads.
Place(section, n, t) == SelectInSeq(section, LAMBDA r : r.name = n /\ r.type = t)
Found(section, n, t) == IF Place(section, n, t) = 0 THEN NoRRset ELSE section[Place(section, n, t)]
Follow(section, t, n) ==
  IF Place(section, n, t) = 0 /\ Place(section, n, "CNAME") # 0
  THEN section[Place(section, n, "CNAME")].data ELSE n

\* A place that is not 0 is that of an RRset of the name and the type.
LEMMA PlaceIs ==
  ASSUME NEW section, NEW n, NEW t, Len(section) \in Nat
  PROVE  /\ Place(section, n, t) \in 0 .. Len(section)
         /\ Place(section, n, t) # 0 =>
              /\ section[Place(section, n, t)].name = n /\ section[Place(section, n, t)].type = t
              /\ \A j \in 1 .. Len(section) :
                   section[j].name = n /\ section[j].type = t => Place(section, n, t) <= j
         /\ Place(section, n, t) = 0 =>
              \A j \in 1 .. Len(section) : ~(section[j].name = n /\ section[j].type = t)
<1> DEFINE N == Len(section)
           I == {i \in 1 .. N : section[i].name = n /\ section[i].type = t}
<1>1. Place(section, n, t) = IF I # {} THEN Min(I) ELSE 0 BY DEF Place, SelectInSeq
<1>2. I \subseteq 1 .. N /\ I \subseteq Nat OBVIOUS
<1>3. \A i \in I : section[i].name = n /\ section[i].type = t OBVIOUS
<1>4. \A j \in 1 .. N : section[j].name = n /\ section[j].type = t => j \in I OBVIOUS
<1> HIDE DEF I
<1>5. I # {} => Min(I) \in I /\ \A i \in I : Min(I) <= i BY <1>2, MinIs
<1>6. CASE I = {}
  <2>1. Place(section, n, t) = 0 BY <1>1, <1>6
  <2> QED BY <2>1, <1>4, <1>6
<1>7. CASE I # {}
  <2>1. Place(section, n, t) \in I /\ \A i \in I : Place(section, n, t) <= i BY <1>1, <1>5, <1>7
  <2>2. Place(section, n, t) \in 1 .. N BY <2>1, <1>2
  <2>3. Place(section, n, t) \in 0 .. N /\ Place(section, n, t) # 0 BY <2>2
  <2> QED BY <2>1, <2>3, <1>3, <1>4
<1> QED BY <1>6, <1>7

\* dnspython's walk along the aliases.
ChainTrace(at, qname, type, rcode, section) ==
  /\ at[0] = qname
  /\ \A k \in 1 .. Len(section) : at[k] = Follow(section, type, at[k - 1])
  /\ MakeAnswer(qname, type, rcode, section) =
       [qname |-> qname, type |-> type, rcode |-> rcode, section |-> section,
        rrset |-> Found(section, at[Len(section)], type)]

\* The walk, told by the places of the section.
LEMMA ChainLoop ==
  ASSUME NEW section, Len(section) \in Nat, NEW qname, NEW type, NEW rcode
  PROVE  \E at : ChainTrace(at, qname, type, rcode, section)
<1> DEFINE N == Len(section)
           T == {qname} \cup {section[i].data : i \in 1 .. N}
           step == [x \in (1 .. N) \X T |-> Follow(section, type, x[2])]
           W(g) == g = [k \in 0 .. N |-> IF k = 0 THEN qname ELSE Follow(section, type, g[k - 1])]
<1>1. \A n \in T : Follow(section, type, n) \in T
  <2> SUFFICES ASSUME NEW n \in T PROVE Follow(section, type, n) \in T OBVIOUS
  <2> DEFINE i == Place(section, n, "CNAME")
  <2>1. i \in 0 .. N BY PlaceIs
  <2>2. Follow(section, type, n) = n \/ (i # 0 /\ Follow(section, type, n) = section[i].data) BY DEF Follow
  <2> HIDE DEF i
  <2>3. i # 0 => i \in 1 .. N BY <2>1
  <2> QED BY <2>2, <2>3
<1>2. qname \in T /\ StepsIn(step, N, T)
  <2>1. \A x \in (1 .. N) \X T : x[2] \in T OBVIOUS
  <2> HIDE DEF T, N
  <2>2. step \in [(1 .. N) \X T -> T] BY <2>1, <1>1
  <2> HIDE DEF step
  <2>3. StepsIn(step, N, T) BY <2>2 DEF StepsIn
  <2> QED BY <2>3 DEF T
<1>3. PICK f : TraceOf(f, step, N, T, qname)
  <2> HIDE DEF N, step, T
  <2>1. N \in Nat BY DEF N
  <2> QED BY <2>1, <1>2, Loop
<1>4. f \in [0 .. N -> T] /\ f[0] = qname /\ \A n \in 1 .. N : f[n] = step[<<n, f[n - 1]>>]
  BY <1>3 DEF TraceOf
<1>5. \A n \in 0 .. N : n # 0 => n \in 1 .. N /\ f[n - 1] \in T
  <2>1. \A n \in 0 .. N : n # 0 => n \in 1 .. N /\ n - 1 \in 0 .. N OBVIOUS
  <2> HIDE DEF N, T
  <2> QED BY <2>1, <1>4
<1>6. \A n \in 0 .. N : n # 0 => f[n] = Follow(section, type, f[n - 1])
  <2> HIDE DEF N, T
  <2> QED BY <1>4, <1>5
<1>7. W(f)
  <2> HIDE DEF step, T, N
  <2>1. f = [n \in 0 .. N |-> f[n]] BY <1>4
  <2> QED BY <2>1, <1>4, <1>6
<1> DEFINE at == CHOOSE g : W(g)
<1>8. W(at)
  <2> HIDE DEF W
  <2> QED BY <1>7
<1>9. MakeAnswer(qname, type, rcode, section) =
        [qname |-> qname, type |-> type, rcode |-> rcode, section |-> section,
         rrset |-> Found(section, at[N], type)]
  BY DEF MakeAnswer, Found, Follow, Place, SelectInSeq
<1> HIDE DEF at
<1>10. 0 \in 0 .. N /\ \A k \in 1 .. N : k \in 0 .. N /\ k # 0 OBVIOUS
<1>11. at[0] = qname /\ \A k \in 1 .. N : at[k] = Follow(section, type, at[k - 1])
  <2> HIDE DEF N
  <2> QED BY <1>8, <1>10
<1>12. ChainTrace(at, qname, type, rcode, section) BY <1>9, <1>11 DEF ChainTrace
<1> QED BY <1>12

\* What the answer's RRset is, whatever the chain.
LEMMA AnswerIs ==
  ASSUME NEW section, Len(section) \in Nat, NEW qname, NEW type, NEW rcode
  PROVE  LET answer == MakeAnswer(qname, type, rcode, section)
         IN  /\ answer = [qname |-> qname, type |-> type, rcode |-> rcode, section |-> section,
                          rrset |-> answer.rrset]
             /\ answer.rrset # NoRRset =>
                  \E i \in 1 .. Len(section) : section[i] = answer.rrset /\ section[i].type = type
<1> PICK at : ChainTrace(at, qname, type, rcode, section) BY ChainLoop
<1> DEFINE answer == MakeAnswer(qname, type, rcode, section)
           last == at[Len(section)]
           i == Place(section, last, type)
<1>1. answer = [qname |-> qname, type |-> type, rcode |-> rcode, section |-> section,
                rrset |-> Found(section, last, type)] BY DEF ChainTrace
<1> HIDE DEF last, answer
<1>2. answer.rrset = Found(section, last, type) BY <1>1
<1>3. answer.rrset # NoRRset => i # 0 /\ answer.rrset = section[i] BY <1>2 DEF Found
<1>4. i \in 0 .. Len(section) /\ (i # 0 => section[i].type = type) BY PlaceIs
<1> HIDE DEF i
<1>5. i # 0 => i \in 1 .. Len(section) BY <1>4
<1> QED BY <1>1, <1>2, <1>3, <1>4, <1>5 DEF answer
-----------------------------------------------------------------------------
\* A static reply to an address query carries addresses (BlockPlugin._resolve_rule,
\* _apply_static_response).
LEMMA StaticReply ==
  ASSUME NEW rules, rules \in Seq(Range(rules)), NEW tags, NEW type, NEW qname,
         ResolveRule(rules, tags, type) # NoRule
  PROVE  LET rule == ResolveRule(rules, tags, type)
             answer == BuildAnswer(qname, type, "NOERROR", StaticSection(rule, qname, type))
         IN  /\ CanSync(answer)
             /\ type \in AddressTypes <=> answer.rrset # NoRRset
<1> DEFINE rule == ResolveRule(rules, tags, type)
           section == StaticSection(rule, qname, type)
           answer == BuildAnswer(qname, type, "NOERROR", section)
           made == MakeAnswer(qname, type, "NOERROR", section)
<1>1. type \in AddressTypes <=> RuleAddresses(rule, type) # <<>>
  <2> DEFINE Speaks(r) == IF type \in AddressTypes THEN RuleAddresses(r, type) # <<>> ELSE r.other
             I == {i \in 1 .. Len(rules) :
                    rules[i].exclude \cap tags = {} /\ rules[i].match \cap tags # {} /\ Speaks(rules[i])}
             i == IF I # {} THEN Min(I) ELSE 0
  <2>1. rule = IF i = 0 THEN NoRule ELSE rules[i] BY DEF ResolveRule, SelectInSeq
  <2>2. I \subseteq 1 .. Len(rules) /\ Len(rules) \in Nat OBVIOUS
  <2>3. \A j \in I : Speaks(rules[j]) OBVIOUS
  <2>4. DOMAIN rules = 1 .. Len(rules) OBVIOUS
  <2>5. rule # NoRule OBVIOUS
  <2> HIDE DEF I, rule
  <2>6. I # {} => Min(I) \in I /\ Min(I) # 0 BY <2>2, <2>4, FirstPlace
  <2>7. rule = rules[i] /\ i \in I BY <2>1, <2>5, <2>6
  <2> HIDE DEF i
  <2>8. Speaks(rule) BY <2>3, <2>7
  <2>9. type \notin AddressTypes => RuleAddresses(rule, type) = <<>> BY DEF RuleAddresses, AddressTypes
  <2> QED BY <2>8, <2>9
<1> HIDE DEF rule
<1>2. CASE type \notin AddressTypes
  <2>1. section = <<>> /\ Len(section) = 0 BY <1>1, <1>2 DEF StaticSection
  <2> HIDE DEF section
  <2>2. made.rrset = NoRRset
    <3>1. made.rrset # NoRRset => \E i \in 1 .. Len(section) : TRUE BY <2>1, AnswerIs
    <3> QED BY <2>1, <3>1
  <2>3. answer = made BY <2>1 DEF BuildAnswer
  <2> QED BY <1>2, <2>2, <2>3 DEF CanSync, section, rule
<1>3. CASE type \in AddressTypes
  <2> DEFINE r == [name |-> qname, type |-> type, data |-> RuleAddresses(rule, type)]
  <2>1. section = <<r>> BY <1>1, <1>3 DEF StaticSection
  <2>2. r.name = qname /\ r.type = type OBVIOUS
  <2> HIDE DEF r, section
  <2>3. Len(section) = 1 /\ section[1] = r BY <2>1
  <2>a. Len(section) \in Nat BY <2>3
  <2>4. r # NoRRset
    <3>1. NoRRset.type = "no RRset" /\ type # "no RRset" BY <1>3 DEF NoRRset, AddressTypes
    <3> QED BY <2>2, <3>1
  <2>5. PICK at : ChainTrace(at, qname, type, "NOERROR", section) BY <2>a, ChainLoop
  <2>6. Place(section, qname, type) = 1
    <3>1. Place(section, qname, type) \in 0 .. 1
          /\ (Place(section, qname, type) = 0 =>
               \A j \in 1 .. 1 : ~(section[j].name = qname /\ section[j].type = type)) BY <2>3, PlaceIs
    <3> QED BY <2>2, <2>3, <3>1
  <2>7. at[1] = qname
    <3>1. 1 \in 1 .. Len(section) /\ 1 - 1 = 0 BY <2>3
    <3>2. at[1] = Follow(section, type, at[0]) /\ at[0] = qname BY <2>5, <3>1 DEF ChainTrace
    <3> QED BY <2>6, <3>2 DEF Follow
  <2>8. made = [qname |-> qname, type |-> type, rcode |-> "NOERROR", section |-> section,
                rrset |-> Found(section, at[1], type)] BY <2>3, <2>5 DEF ChainTrace
  <2>9. made.rrset = r /\ made.type = type BY <2>3, <2>6, <2>7, <2>8 DEF Found
  <2>10. answer = made BY <2>4, <2>9 DEF BuildAnswer
  <2> HIDE DEF made, answer
  <2>11. CanSync(answer) /\ answer.rrset # NoRRset BY <2>2, <2>4, <2>9, <2>10 DEF CanSync
  <2> QED BY <1>3, <2>11 DEF answer, section, rule
<1> QED BY <1>2, <1>3

\* A redirect is answered with what its subquery found
\* (RedirectPlugin.on_request, _build_redirect_response).
LEMMA RedirectReply ==
  ASSUME NEW source, NEW type, NEW target, NEW S, NEW section \in Seq(S),
         type # "CNAME", \A i \in 1 .. Len(section) : section[i].name # source,
         MakeAnswer(target, type, "NOERROR", section).rrset # NoRRset
  PROVE  LET sub == MakeAnswer(target, type, "NOERROR", section)
             answer == Redirect(source, type, target, sub)
         IN  answer.rrset = sub.rrset /\ CanSync(answer)
<1> DEFINE N == Len(section)
           alias == [name |-> source, type |-> "CNAME", data |-> target]
           longer == <<alias>> \o section
           sub == MakeAnswer(target, type, "NOERROR", section)
           made == MakeAnswer(source, type, "NOERROR", longer)
<1>1. N \in Nat /\ section \in Seq(S \cup {alias}) OBVIOUS
<1>2. /\ Len(longer) = N + 1 /\ longer[1] = alias
      /\ \A i \in 1 .. N : longer[i + 1] = section[i]
  <2> DEFINE one == <<alias>>
  <2>1. one \in Seq(S \cup {alias}) /\ Len(one) = 1 /\ one[1] = alias OBVIOUS
  <2> HIDE DEF one, alias, N
  <2>a. Len(one \o section) = Len(one) + Len(section) /\ \A i \in 1 .. Len(one) + Len(section) :
          (one \o section)[i] = IF i <= Len(one) THEN one[i] ELSE section[i - Len(one)]
    BY <2>1, <1>1, ConcatProperties, ZenonT(60)
  <2>2. Len(one \o section) = 1 + N /\ \A i \in 1 .. 1 + N :
          (one \o section)[i] = IF i <= 1 THEN one[i] ELSE section[i - 1]
    BY <2>1, <2>a DEF N
  <2>3. longer = one \o section BY DEF one
  <2> HIDE DEF longer
  <2>4. \A i \in 1 .. N : i + 1 \in 1 .. 1 + N /\ ~(i + 1 <= 1) /\ (i + 1) - 1 = i BY <1>1
  <2>5. 1 \in 1 .. 1 + N /\ 1 + N = N + 1 BY <1>1
  <2>6. longer[1] = one[1] BY <2>2, <2>3, <2>5
  <2>7. \A i \in 1 .. N : longer[i + 1] = section[i] BY <2>2, <2>3, <2>4
  <2> QED BY <2>1, <2>2, <2>3, <2>5, <2>6, <2>7
<1>3. alias.name = source /\ alias.type = "CNAME" /\ alias.data = target OBVIOUS
<1> HIDE DEF longer, alias
<1>4. Len(longer) \in Nat BY <1>1, <1>2
<1>5. \A j \in 1 .. N + 1 : j = 1 \/ (j - 1 \in 1 .. N /\ longer[j] = section[j - 1])
  <2> SUFFICES ASSUME NEW j \in 1 .. N + 1, j # 1 PROVE j - 1 \in 1 .. N /\ longer[j] = section[j - 1]
    OBVIOUS
  <2>1. j - 1 \in 1 .. N /\ (j - 1) + 1 = j BY <1>1
  <2> QED BY <2>1, <1>2
\* other names are found where they were, one place on
<1>6. ASSUME NEW n, n # source, NEW t
      PROVE  Found(longer, n, t) = Found(section, n, t)
             /\ (Place(longer, n, t) = 0 <=> Place(section, n, t) = 0)
             /\ (Place(section, n, t) # 0 =>
                   longer[Place(longer, n, t)] = section[Place(section, n, t)])
  <2> DEFINE p == Place(section, n, t)
             q == Place(longer, n, t)
  <2>1. p \in 0 .. N /\ (p # 0 => /\ section[p].name = n /\ section[p].type = t
                                  /\ \A j \in 1 .. N : section[j].name = n /\ section[j].type = t => p <= j)
        /\ (p = 0 => \A j \in 1 .. N : ~(section[j].name = n /\ section[j].type = t)) BY <1>1, PlaceIs
  <2>2. q \in 0 .. N + 1
        /\ (q # 0 => /\ longer[q].name = n /\ longer[q].type = t
                     /\ \A j \in 1 .. N + 1 : longer[j].name = n /\ longer[j].type = t => q <= j)
        /\ (q = 0 => \A j \in 1 .. N + 1 : ~(longer[j].name = n /\ longer[j].type = t))
    BY <1>2, <1>4, PlaceIs
  <2>3. Found(section, n, t) = (IF p = 0 THEN NoRRset ELSE section[p])
        /\ Found(longer, n, t) = (IF q = 0 THEN NoRRset ELSE longer[q]) BY DEF Found
  <2> HIDE DEF p, q, N
  <2>4. CASE p = 0
    <3>1. q = 0
      <4> SUFFICES ASSUME q # 0 PROVE FALSE OBVIOUS
      <4>1. q \in 1 .. N + 1 /\ longer[q].name = n /\ longer[q].type = t BY <2>2, <1>1
      <4>2. q # 1 BY <4>1, <1>2, <1>3, <1>6
      <4>3. q - 1 \in 1 .. N /\ longer[q] = section[q - 1] BY <4>1, <4>2, <1>5
      <4> QED BY <4>1, <4>3, <2>1, <2>4
    <3> QED BY <3>1, <2>3, <2>4 DEF p, q
  <2>5. CASE p # 0
    <3>1. p \in 1 .. N /\ longer[p + 1] = section[p] /\ p + 1 \in 1 .. N + 1 BY <2>1, <2>5, <1>1, <1>2
    <3>2. q # 0 /\ q <= p + 1 BY <2>1, <2>2, <2>5, <3>1
    <3>3. q \in 1 .. N + 1 /\ longer[q].name = n /\ longer[q].type = t BY <2>2, <3>2, <1>1
    <3>4. q # 1 BY <3>3, <1>2, <1>3, <1>6
    <3>5. q - 1 \in 1 .. N /\ longer[q] = section[q - 1] BY <3>3, <3>4, <1>5
    <3>6. p <= q - 1 BY <3>3, <3>5, <2>1, <2>5
    <3>7. q = p + 1 BY <3>1, <3>2, <3>3, <3>6, <1>1
    <3> QED BY <3>1, <3>2, <3>7, <2>3, <2>5 DEF p, q
  <2> QED BY <2>4, <2>5
<1>7. \A n : n # source => Follow(longer, type, n) = Follow(section, type, n) BY <1>6 DEF Follow
<1>8. \A t : Place(section, source, t) = 0
  <2> SUFFICES ASSUME NEW t PROVE Place(section, source, t) = 0 OBVIOUS
  <2>1. Place(section, source, t) \in 0 .. N
        /\ (Place(section, source, t) # 0 => section[Place(section, source, t)].name = source)
    BY <1>1, PlaceIs
  <2>2. \A i \in 1 .. N : section[i].name # source OBVIOUS
  <2> QED BY <2>1, <2>2, <1>1
<1>9. Follow(section, type, source) = source BY <1>8 DEF Follow
<1>10. Follow(longer, type, source) = target
  <2>1. Place(longer, source, type) = 0
    <3> DEFINE q == Place(longer, source, type)
    <3>1. q \in 0 .. N + 1 /\ (q # 0 => longer[q].name = source /\ longer[q].type = type)
      BY <1>2, <1>4, PlaceIs
    <3> HIDE DEF q, N
    <3> SUFFICES ASSUME q # 0 PROVE FALSE BY DEF q
    <3>2. q \in 1 .. N + 1 BY <3>1, <1>1
    <3>3. q # 1 BY <3>1, <1>2, <1>3
    <3>4. q - 1 \in 1 .. N /\ section[q - 1].name = source BY <3>1, <3>2, <3>3, <1>5
    <3> QED BY <3>4 DEF N
  <2>2. Place(longer, source, "CNAME") = 1
    <3> DEFINE q == Place(longer, source, "CNAME")
    <3>1. q \in 0 .. N + 1
          /\ (q # 0 => \A j \in 1 .. N + 1 : longer[j].name = source /\ longer[j].type = "CNAME" => q <= j)
          /\ (q = 0 => \A j \in 1 .. N + 1 : ~(longer[j].name = source /\ longer[j].type = "CNAME"))
      BY <1>2, <1>4, PlaceIs
    <3> HIDE DEF q, N
    <3>2. 1 \in 1 .. N + 1 BY <1>1
    <3>3. q # 0 /\ q <= 1 BY <3>1, <3>2, <1>2, <1>3
    <3>4. q = 1 BY <3>1, <3>3, <1>1
    <3> QED BY <3>4 DEF q
  <2> QED BY <2>1, <2>2, <1>2, <1>3 DEF Follow
\* the longer chain is the shorter one, a step behind
<1> PICK at : ChainTrace(at, target, type, "NOERROR", section) BY <1>1, ChainLoop
<1> PICK on : ChainTrace(on, source, type, "NOERROR", longer) BY <1>4, ChainLoop
<1>11. at[0] = target /\ \A k \in 1 .. N : at[k] = Follow(section, type, at[k - 1]) BY DEF ChainTrace
<1>12. on[0] = source /\ \A k \in 1 .. N + 1 : on[k] = Follow(longer, type, on[k - 1])
  BY <1>2 DEF ChainTrace
<1>13. sub = [qname |-> target, type |-> type, rcode |-> "NOERROR", section |-> section,
              rrset |-> Found(section, at[N], type)] BY DEF ChainTrace
<1>14. made = [qname |-> source, type |-> type, rcode |-> "NOERROR", section |-> longer,
               rrset |-> Found(longer, on[N + 1], type)] BY <1>2 DEF ChainTrace
<1> DEFINE G == {k \in 0 .. N : at[k] = source \/ on[k + 1] = at[k]}
<1> HIDE DEF N
<1>15. 0 \in G
  <2>1. 0 \in 0 .. N /\ 1 \in 1 .. N + 1 /\ 1 - 1 = 0 /\ 0 + 1 = 1 BY <1>1
  <2>2. on[1] = Follow(longer, type, on[0]) BY <2>1, <1>12
  <2>3. on[0 + 1] = at[0] BY <2>1, <2>2, <1>10, <1>11, <1>12
  <2> QED BY <2>1, <2>3
<1>16. ASSUME NEW k \in 1 .. N, k - 1 \in G PROVE k \in G
  <2>1. k \in 0 .. N /\ k + 1 \in 1 .. N + 1 /\ (k + 1) - 1 = k /\ (k - 1) + 1 = k BY <1>1
  <2>2. at[k] = Follow(section, type, at[k - 1]) BY <1>11
  <2>3. on[k + 1] = Follow(longer, type, on[k]) BY <2>1, <1>12
  <2>4. at[k - 1] = source \/ on[k] = at[k - 1] BY <2>1, <1>16
  <2>5. CASE at[k - 1] = source BY <2>1, <2>2, <2>5, <1>9
  <2>6. CASE at[k - 1] # source
    <3>1. on[k + 1] = at[k] BY <2>2, <2>3, <2>4, <2>6, <1>7
    <3> QED BY <2>1, <3>1
  <2> QED BY <2>5, <2>6
<1>17. N \in G
  <2>1. N \in 0 .. N BY <1>1
  <2> HIDE DEF G
  <2> QED BY <2>1, <1>1, <1>15, <1>16, UpTo
<1> HIDE DEF sub, made
<1>18. sub.rrset = Found(section, at[N], type) /\ sub.section = section /\ sub.rcode = "NOERROR" BY <1>13
<1>19. sub.rrset # NoRRset BY DEF sub
<1>20. at[N] # source BY <1>8, <1>18, <1>19 DEF Found
<1>21. on[N + 1] = at[N] BY <1>17, <1>20
<1>22. made.rrset = sub.rrset /\ made.type = type BY <1>6, <1>14, <1>18, <1>20, <1>21
<1>23. Redirect(source, type, target, sub) = made
  <2>1. RedirectSection(source, target, sub) = longer BY <1>18 DEF RedirectSection, longer, alias
  <2>2. Redirect(source, type, target, sub) = BuildAnswer(source, type, "NOERROR", longer)
    BY <2>1, <1>18 DEF Redirect
  <2>3. made.rrset # NoRRset BY <1>19, <1>22
  <2> QED BY <2>2, <2>3 DEF BuildAnswer, made
<1>24. made.rrset.type = type
  <2>1. made.rrset # NoRRset BY <1>19, <1>22
  <2>2. \E i \in 1 .. Len(longer) : longer[i] = made.rrset /\ longer[i].type = type
    BY <2>1, <1>4, AnswerIs DEF made
  <2> QED BY <2>2
<1>25. CanSync(made) BY <1>22, <1>24 DEF CanSync
<1> QED BY <1>22, <1>23, <1>25 DEF sub

\* An answer whose RRset was taken away or given other data is the one read from
\* its message once it was written back (sync_answer_response), where the message
\* has at most one RRset of the type; all others stay.
LEMMA WrittenBack ==
  ASSUME NEW S, NEW section \in Seq(S), NEW qname, NEW type \in AddressTypes, NEW x,
         \A i, j \in 1 .. Len(section) : section[i].type = type /\ section[j].type = type => i = j,
         LET found == MakeAnswer(qname, type, "NOERROR", section).rrset
         IN  x = NoRRset \/ (found # NoRRset /\ x.name = found.name /\ x.type = found.type)
  PROVE  LET left == [qname |-> qname, type |-> type, rcode |-> "NOERROR", section |-> section,
                      rrset |-> x]
         IN  /\ CanSync(left) /\ SyncAnswer(left).rrset = x
             /\ \A i \in 1 .. Len(section) : section[i].type # type =>
                  section[i] \in Range(SyncAnswer(left).section)
<1> DEFINE N == Len(section)
           left == [qname |-> qname, type |-> type, rcode |-> "NOERROR", section |-> section, rrset |-> x]
           found == MakeAnswer(qname, type, "NOERROR", section).rrset
           I == {i \in 1 .. N : section[i].type = type}
           last == IF I # {} THEN Max(I) ELSE 0
           new == SyncRRset(left)
           sent == MakeAnswer(qname, type, "NOERROR", new)
<1>1. N \in Nat /\ DOMAIN section = 1 .. N /\ I \subseteq 1 .. N OBVIOUS
<1>2. left.qname = qname /\ left.type = type /\ left.rcode = "NOERROR" /\ left.section = section
      /\ left.rrset = x OBVIOUS
<1>3. new = IF x = NoRRset
            THEN IF last = 0 THEN section ELSE RemoveAt(section, last)
            ELSE IF last # 0 THEN ReplaceAt(section, last, x) ELSE Append(section, x)
  BY DEF SyncRRset, SelectLastInSeq
<1>4. \A i \in 1 .. N : section[i].type = type => i \in I OBVIOUS
<1>5. \A i \in I : section[i].type = type OBVIOUS
<1> HIDE DEF left, I
<1>6. SyncAnswer(left) = sent BY <1>2 DEF SyncAnswer
<1>7. I # {} => last \in I /\ last # 0
  <2> SUFFICES ASSUME I # {} PROVE Max(I) \in I /\ Max(I) # 0 OBVIOUS
  <2> HIDE DEF N
  <2>1. Max(I) \in I BY <1>1, MaxOf
  <2> QED BY <2>1, <1>1
<1> HIDE DEF new, last
<1>8. \A i \in 1 .. N : section[i].type = type => last = i
  <2> SUFFICES ASSUME NEW i \in 1 .. N, section[i].type = type PROVE last = i OBVIOUS
  <2>1. last \in I BY <1>4, <1>7
  <2>2. last \in 1 .. N /\ section[last].type = type BY <2>1, <1>1, <1>5
  <2> QED BY <2>2
<1>9. last # 0 => last \in 1 .. N /\ section[last].type = type BY <1>1, <1>5, <1>7 DEF last
<1>10. found # NoRRset => \E i \in 1 .. N : section[i] = found /\ section[i].type = type BY <1>1, AnswerIs
<1>11. Len(new) \in Nat => sent.section = new
       /\ (sent.rrset # NoRRset => \E i \in 1 .. Len(new) : new[i] = sent.rrset /\ new[i].type = type)
  BY AnswerIs
<1>12. x = NoRRset \/ (found # NoRRset /\ x.name = found.name /\ x.type = found.type) OBVIOUS
<1> HIDE DEF found, sent
<1> SUFFICES CanSync(left) /\ sent.rrset = x
             /\ \A i \in 1 .. N : section[i].type # type => section[i] \in Range(sent.section)
  BY <1>6 DEF left, N
<1>13. CASE x = NoRRset
  <2>1. new \in Seq(S) /\ Range(new) = {section[j] : j \in (1 .. N) \ {last}}
    <3>1. CASE last = 0
      <4>1. new = section BY <1>3, <1>13, <3>1
      <4>2. (1 .. N) \ {last} = 1 .. N BY <3>1, <1>1
      <4> QED BY <4>1, <4>2, <1>1 DEF Range
    <3>2. CASE last # 0
      <4>1. new = RemoveAt(section, last) /\ last \in 1 .. N BY <1>3, <1>9, <1>13, <3>2
      <4>2. RemoveAt(section, last) \in Seq(S)
            /\ Range(RemoveAt(section, last)) = {section[j] : j \in (1 .. Len(section)) \ {last}}
        BY <4>1, RemoveAtRange
      <4> QED BY <4>1, <4>2
    <3> QED BY <3>1, <3>2
  <2>2. Len(new) \in Nat /\ \A i \in 1 .. Len(new) : new[i] \in Range(new) BY <2>1 DEF Range
  <2>3. \A i \in 1 .. Len(new) : new[i].type # type
    <3> SUFFICES ASSUME NEW i \in 1 .. Len(new), new[i].type = type PROVE FALSE OBVIOUS
    <3>1. PICK j \in (1 .. N) \ {last} : new[i] = section[j] BY <2>1, <2>2
    <3> QED BY <3>1, <1>8
  <2>4. sent.rrset = x BY <1>11, <1>13, <2>2, <2>3
  <2>5. CanSync(left) BY <1>2, <1>13 DEF CanSync
  <2>6. \A i \in 1 .. N : section[i].type # type => section[i] \in Range(sent.section)
    <3> SUFFICES ASSUME NEW i \in 1 .. N, section[i].type # type PROVE section[i] \in Range(new)
      BY <1>11, <2>2
    <3>1. i # last BY <1>9, <1>1
    <3> QED BY <2>1, <3>1
  <2> QED BY <2>4, <2>5, <2>6
<1>14. CASE x # NoRRset
  <2>1. found # NoRRset /\ x.name = found.name /\ x.type = found.type BY <1>12, <1>14
  <2>2. PICK p \in 1 .. N : section[p] = found /\ section[p].type = type BY <1>10, <2>1
  <2>3. last = p /\ p # 0 BY <1>8, <2>2
  <2>4. new = [section EXCEPT ![p] = x] BY <1>3, <1>14, <2>3 DEF ReplaceAt
  <2> DEFINE U == S \cup {x}
  <2>5. section \in Seq(U) /\ x \in U OBVIOUS
  <2> HIDE DEF U
  <2>6. new \in Seq(U) /\ Len(new) = N /\ \A j \in 1 .. N : new[j] = IF j = p THEN x ELSE section[j]
    BY <2>4, <2>5, ExceptSeq
  <2>7. \A j \in 1 .. N : new[j].name = section[j].name /\ new[j].type = section[j].type
    BY <2>1, <2>2, <2>6
  <2>8. \A n, t : Place(new, n, t) = Place(section, n, t)
    <3> SUFFICES ASSUME NEW n, NEW t PROVE Place(new, n, t) = Place(section, n, t) OBVIOUS
    <3> DEFINE A == {i \in 1 .. N : section[i].name = n /\ section[i].type = t}
               B == {i \in 1 .. N : new[i].name = n /\ new[i].type = t}
    <3>1. A = B BY <2>7
    <3>2. Place(section, n, t) = IF A # {} THEN Min(A) ELSE 0 BY DEF Place, SelectInSeq
    <3>3. Place(new, n, t) = IF B # {} THEN Min(B) ELSE 0 BY <2>6 DEF Place, SelectInSeq
    <3> HIDE DEF A, B
    <3> QED BY <3>1, <3>2, <3>3
  <2>9. \A n : Follow(new, type, n) = Follow(section, type, n)
    <3> SUFFICES ASSUME NEW n PROVE Follow(new, type, n) = Follow(section, type, n) OBVIOUS
    <3> DEFINE c == Place(section, n, "CNAME")
    <3>1. c \in 0 .. N /\ (c # 0 => section[c].type = "CNAME") BY <1>1, PlaceIs
    <3>2. Place(new, n, type) = Place(section, n, type) /\ Place(new, n, "CNAME") = c BY <2>8
    <3>3. Follow(section, type, n) =
            IF Place(section, n, type) = 0 /\ c # 0 THEN section[c].data ELSE n BY DEF Follow
    <3>4. Follow(new, type, n) =
            IF Place(section, n, type) = 0 /\ c # 0 THEN new[c].data ELSE n BY <3>2 DEF Follow
    <3> HIDE DEF c
    <3>5. c # 0 => c \in 1 .. N /\ c # p BY <1>1, <2>2, <3>1 DEF AddressTypes
    <3>6. c # 0 => new[c] = section[c] BY <2>6, <3>5
    <3> QED BY <3>3, <3>4, <3>6
  <2>10. Len(new) \in Nat BY <1>1, <2>6
  <2> PICK at : ChainTrace(at, qname, type, "NOERROR", section) BY <1>1, ChainLoop
  <2> PICK on : ChainTrace(on, qname, type, "NOERROR", new) BY <2>10, ChainLoop
  <2>11. at[0] = qname /\ on[0] = qname
         /\ (\A k \in 1 .. N : at[k] = Follow(section, type, at[k - 1]))
         /\ (\A k \in 1 .. N : on[k] = Follow(new, type, on[k - 1])) BY <2>6 DEF ChainTrace
  <2> DEFINE G == {k \in 0 .. N : on[k] = at[k]}
  <2> HIDE DEF N
  <2>12. N \in G
    <3>1. N \in 0 .. N /\ 0 \in 0 .. N /\ \A k \in 1 .. N : k \in 0 .. N BY <1>1
    <3>2. 0 \in G BY <2>11, <3>1
    <3>3. \A k \in 1 .. N : k - 1 \in G => k \in G BY <2>9, <2>11, <3>1
    <3> HIDE DEF G
    <3> QED BY <1>1, <3>1, <3>2, <3>3, UpTo
  <2>13. on[N] = at[N] BY <2>12
  <2>14. found = Found(section, at[N], type)
    <3>1. MakeAnswer(qname, type, "NOERROR", section) =
            [qname |-> qname, type |-> type, rcode |-> "NOERROR", section |-> section,
             rrset |-> Found(section, at[N], type)] BY DEF ChainTrace, N
    <3> QED BY <3>1 DEF found
  <2>15. sent.rrset = Found(new, at[N], type)
    <3>1. sent = [qname |-> qname, type |-> type, rcode |-> "NOERROR", section |-> new,
                  rrset |-> Found(new, on[N], type)] BY <2>6 DEF ChainTrace, sent
    <3> QED BY <3>1, <2>13
  <2> DEFINE m == Place(section, at[N], type)
  <2>16. m # 0 BY <2>1, <2>14 DEF Found
  <2>17. m \in 0 .. N /\ section[m].type = type BY <1>1, <2>16, PlaceIs DEF N
  <2>18. Found(new, at[N], type) = new[m] BY <2>8, <2>16 DEF Found
  <2> HIDE DEF m
  <2>19. m = p
    <3>1. m \in 1 .. N BY <1>1, <2>16, <2>17
    <3> QED BY <3>1, <2>2, <2>17 DEF N
  <2>20. sent.rrset = x BY <2>6, <2>15, <2>18, <2>19
  <2>21. CanSync(left) BY <1>2, <2>1, <2>2 DEF CanSync
  <2>22. \A i \in 1 .. N : section[i].type # type => section[i] \in Range(sent.section)
    <3> SUFFICES ASSUME NEW i \in 1 .. N, section[i].type # type PROVE section[i] \in Range(new)
      BY <1>11, <2>10
    <3>1. i # p BY <2>2
    <3>2. new[i] = section[i] /\ i \in DOMAIN new BY <2>6, <3>1, <1>1
    <3> QED BY <3>2 DEF Range
  <2> QED BY <2>20, <2>21, <2>22
<1> QED BY <1>13, <1>14

\* The filter leaves an answer that can be written back
\* (IpFilterPlugin.on_upstream_response).
LEMMA FilteredAnswer ==
  ASSUME NEW S, NEW section \in Seq(S), NEW qname, NEW type \in AddressTypes,
         NEW tags, NEW cfg, NEW TagsOf,
         \A i \in 1 .. Len(section) : IsRRset(section[i]),
         \A i, j \in 1 .. Len(section) : section[i].type = type /\ section[j].type = type => i = j
  PROVE  LET left == Filter(MakeAnswer(qname, type, "NOERROR", section), tags, cfg, TagsOf)
         IN  /\ CanSync(left) /\ SyncAnswer(left).rrset = left.rrset
             /\ \A i \in 1 .. Len(section) : section[i].type # type =>
                  section[i] \in Range(SyncAnswer(left).section)
<1> DEFINE answer == MakeAnswer(qname, type, "NOERROR", section)
           left == Filter(answer, tags, cfg, TagsOf)
           With(x) == [qname |-> qname, type |-> type, rcode |-> "NOERROR", section |-> section, rrset |-> x]
           found == answer.rrset
<1>1. Len(section) \in Nat OBVIOUS
<1>2. answer = With(found)
      /\ (found # NoRRset => \E i \in 1 .. Len(section) : section[i] = found /\ section[i].type = type)
  BY <1>1, AnswerIs
<1>3. \E kept : left \in {answer, [answer EXCEPT !.rrset = NoRRset]}
                 \/ (answer.rrset # NoRRset /\ left = [answer EXCEPT !.rrset.data = kept])
  BY DEF Filter, IsAddressAnswer
<1>4. \E x : left = With(x)
             /\ (x = NoRRset \/ (found # NoRRset /\ x.name = found.name /\ x.type = found.type))
  <2> PICK kept : left \in {answer, [answer EXCEPT !.rrset = NoRRset]}
                  \/ (found # NoRRset /\ left = [answer EXCEPT !.rrset.data = kept]) BY <1>3
  <2> HIDE DEF left, answer
  <2>1. CASE left = answer
    <3>1. left = With(found) BY <2>1, <1>2
    <3> HIDE DEF With, found
    <3>2. found = NoRRset \/ (found # NoRRset /\ found.name = found.name /\ found.type = found.type)
      OBVIOUS
    <3> QED BY <3>1, <3>2
  <2>2. CASE left = [answer EXCEPT !.rrset = NoRRset]
    <3>1. left = With(NoRRset)
      <4> HIDE DEF found
      <4> QED BY <2>2, <1>2
    <3> HIDE DEF With, found
    <3> QED BY <3>1
  <2>3. CASE found # NoRRset /\ left = [answer EXCEPT !.rrset.data = kept]
    <3>1. PICK i \in 1 .. Len(section) : section[i] = found BY <2>3, <1>2
    <3>2. found = [name |-> found.name, type |-> found.type, data |-> found.data] BY <3>1 DEF IsRRset
    <3> DEFINE x == [found EXCEPT !.data = kept]
    <3>3. left = [answer EXCEPT !.rrset = x] BY <2>3
    <3>4. x.name = found.name /\ x.type = found.type
      <4> HIDE DEF found
      <4> QED BY <3>2
    <3> HIDE DEF x, found
    <3>5. left = With(x) BY <1>2, <3>3
    <3> HIDE DEF With
    <3> QED BY <2>3, <3>4, <3>5
  <2> QED BY <2>1, <2>2, <2>3
<1>5. PICK x : left = With(x)
             /\ (x = NoRRset \/ (found # NoRRset /\ x.name = found.name /\ x.type = found.type)) BY <1>4
<1>6. With(x).rrset = x OBVIOUS
<1>7. /\ CanSync(With(x)) /\ SyncAnswer(With(x)).rrset = x
      /\ \A i \in 1 .. Len(section) : section[i].type # type =>
           section[i] \in Range(SyncAnswer(With(x)).section)
  BY <1>5, WrittenBack
<1> HIDE DEF left, With
<1> QED BY <1>5, <1>6, <1>7 DEF left

\* An answer with one address RRset is replaced by its images, and its section is
\* its RRset, whether or not that changes anything (replace_answer).
LEMMA ReplacedIs ==
  ASSUME NEW answer, NEW ips, NEW targets \in Seq(Networks), targets # <<>>,
         answer.rrset = [name |-> "q", type |-> "A", data |-> ips],
         answer.section = <<answer.rrset>>,
         answer = [qname |-> "q", type |-> "A", rcode |-> "NOERROR", section |-> answer.section,
                   rrset |-> answer.rrset]
  PROVE  LET r == Replace(answer, {"t"}, ReplaceBy(targets))
             rrset == [name |-> "q", type |-> "A", data |-> Expand(ips, targets)]
         IN  r = [qname |-> "q", type |-> "A", rcode |-> "NOERROR", section |-> <<rrset>>,
                  rrset |-> rrset]
<1> DEFINE cfg == ReplaceBy(targets)
           new == [answer EXCEPT !.rrset.data = Expand(@, cfg.rules[1].targets[answer.type])]
           rrset == [name |-> "q", type |-> "A", data |-> Expand(ips, targets)]
           I == {i \in 1 .. Len(cfg.rules) : /\ cfg.rules[i].match \cap {"t"} # {}
                                            /\ cfg.rules[i].exclude \cap {"t"} = {}
                                            /\ cfg.rules[i].targets[answer.type] # <<>>}
           at == IF I # {} THEN Min(I) ELSE 0
<1>1. cfg.skip = {} /\ Len(cfg.rules) = 1 /\ cfg.rules[1].match = {"t"} /\ cfg.rules[1].exclude = {}
      /\ cfg.rules[1].targets["A"] = targets BY DEF ReplaceBy
<1>2. answer.type = "A" /\ answer.rcode = "NOERROR" /\ answer.qname = "q" OBVIOUS
<1> HIDE DEF cfg
<1>3. I = {1}
  <2>1. 1 .. Len(cfg.rules) = {1} BY <1>1
  <2>2. cfg.rules[1].match \cap {"t"} # {} /\ cfg.rules[1].exclude \cap {"t"} = {}
        /\ cfg.rules[1].targets[answer.type] # <<>> BY <1>1, <1>2
  <2> QED BY <2>1, <2>2
<1> HIDE DEF I
<1>4. at = 1
  <2>1. I # {} /\ I \subseteq Nat BY <1>3
  <2>2. Min(I) \in I BY <2>1, MinIs
  <2> QED BY <2>1, <2>2, <1>3
<1>5. new = [answer EXCEPT !.rrset = rrset]
  <2>1. Expand(answer.rrset.data, cfg.rules[1].targets[answer.type]) = Expand(ips, targets) BY <1>1, <1>2
  <2> QED BY <2>1
<1>6. new = [qname |-> "q", type |-> "A", rcode |-> "NOERROR", section |-> answer.section, rrset |-> rrset]
  BY <1>5
<1>7. answer.rrset # NoRRset
  <2>1. answer.rrset.type = "A" /\ NoRRset.type = "no RRset" BY DEF NoRRset
  <2> QED BY <2>1
<1>8. IsAddressAnswer(answer) BY <1>2, <1>7 DEF IsAddressAnswer, AddressTypes
<1>9. Replace(answer, {"t"}, cfg) =
        IF new.rrset = answer.rrset THEN answer ELSE [new EXCEPT !.section = SyncRRset(new)]
  <2>1. Replace(answer, {"t"}, cfg) =
          IF \/ {"t"} = {} \/ {"t"} \cap cfg.skip # {} \/ ~IsAddressAnswer(answer) \/ at = 0
             \/ [answer EXCEPT !.rrset.data = Expand(@, cfg.rules[at].targets[answer.type])].rrset = answer.rrset
          THEN answer
          ELSE [[answer EXCEPT !.rrset.data = Expand(@, cfg.rules[at].targets[answer.type])]
                  EXCEPT !.section = SyncRRset([answer EXCEPT !.rrset.data =
                                                  Expand(@, cfg.rules[at].targets[answer.type])])]
    BY DEF Replace, SelectInSeq, I, at
  <2> HIDE DEF at
  <2> QED BY <2>1, <1>1, <1>4, <1>8
<1> HIDE DEF new
<1>10. CASE new.rrset = answer.rrset
  <2>1. answer.rrset = rrset BY <1>10, <1>6
  <2> QED BY <2>1, <1>9, <1>10 DEF cfg
<1>11. CASE new.rrset # answer.rrset
  <2>1. SyncRRset(new) = <<rrset>>
    <3> DEFINE J == {i \in 1 .. Len(new.section) : new.section[i].type = new.type}
               i == IF J # {} THEN Max(J) ELSE 0
    <3>1. new.section = <<answer.rrset>> /\ new.type = "A" /\ new.rrset = rrset BY <1>6
    <3>2. J = {1}
      <4>1. Len(new.section) = 1 /\ new.section[1].type = "A" BY <3>1
      <4>2. 1 .. Len(new.section) = {1} BY <4>1
      <4> QED BY <3>1, <4>1, <4>2
    <3> HIDE DEF J
    <3>3. i = 1
      <4>1. 1 \in J /\ J \subseteq Nat /\ \A x \in J : x <= 1 BY <3>2
      <4> QED BY <4>1, MaxIs
    <3>4. rrset # NoRRset
      <4>1. rrset.type = "A" /\ NoRRset.type = "no RRset" BY DEF NoRRset
      <4> QED BY <4>1
    <3>5. SyncRRset(new) =
            IF new.rrset = NoRRset
            THEN IF i = 0 THEN new.section ELSE RemoveAt(new.section, i)
            ELSE IF i # 0 THEN ReplaceAt(new.section, i, new.rrset)
            ELSE Append(new.section, new.rrset)
      BY DEF SyncRRset, SelectLastInSeq, J
    <3> HIDE DEF i, rrset
    <3>6. SyncRRset(new) = ReplaceAt(<<answer.rrset>>, 1, rrset) BY <3>1, <3>3, <3>4, <3>5
    <3>7. ReplaceAt(<<answer.rrset>>, 1, rrset) = <<rrset>> BY DEF ReplaceAt
    <3> QED BY <3>6, <3>7
  <2> HIDE DEF rrset
  <2>2. [new EXCEPT !.section = <<rrset>>] =
          [qname |-> "q", type |-> "A", rcode |-> "NOERROR", section |-> <<rrset>>, rrset |-> rrset] BY <1>6
  <2> QED BY <2>1, <2>2, <1>9, <1>11 DEF cfg, rrset
<1> QED BY <1>10, <1>11

-----------------------------------------------------------------------------
(***************************************************************************)
(* Addresses                                                               *)
(***************************************************************************)
\* An address mapped into a network is in it and keeps its host bits: mapping it
\* again gives what mapping the address itself would (_map_ip_to_network).
LEMMA MapIpFacts ==
  ASSUME NEW ip \in Ips, NEW n \in Networks
  PROVE  /\ MapIp(ip, n) \in Ips /\ Inside(MapIp(ip, n), n)
         /\ \A o \in Networks : o.len = n.len => MapIp(MapIp(ip, o), n) = MapIp(ip, n)
<1> DEFINE B == 1 .. Width
<1>1. /\ n.net \in [B -> {0, 1}] /\ n.len \in 0 .. Width
      /\ \A b \in n.len + 1 .. Width : n.net[b] = 0 BY DEF Networks, Ips
<1>2. ip \in [B -> {0, 1}] BY DEF Ips
<1>3. MapIp(ip, n) \in Ips BY <1>1, <1>2 DEF MapIp, Ips
<1>4. Width \in Nat BY ReplaceCasesAssumption
<1>5. Inside(MapIp(ip, n), n)
  <2>1. \A b \in 1 .. n.len : b \in B /\ ~(b > n.len) BY <1>1, <1>4
  <2> HIDE DEF B
  <2> QED BY <2>1 DEF MapIp, Inside, B
<1>6. ASSUME NEW o \in Networks, o.len = n.len PROVE MapIp(MapIp(ip, o), n) = MapIp(ip, n)
  <2> DEFINE x == MapIp(ip, o)
  <2>1. \A b \in o.len + 1 .. Width : o.net[b] = 0 BY DEF Networks
  <2>2. \A b \in B : b > n.len => b \in o.len + 1 .. Width BY <1>1, <1>4, <1>6
  <2>3. \A b \in B : x[b] = IF b > o.len /\ ip[b] = 1 THEN 1 ELSE o.net[b] BY DEF MapIp
  <2> HIDE DEF x, B
  <2>4. \A b \in B : b > n.len => (x[b] = 1 <=> ip[b] = 1) BY <1>6, <2>1, <2>2, <2>3
  <2>5. [b \in B |-> IF b > n.len /\ x[b] = 1 THEN 1 ELSE n.net[b]]
          = [b \in B |-> IF b > n.len /\ ip[b] = 1 THEN 1 ELSE n.net[b]] BY <2>4
  <2> QED BY <2>5 DEF MapIp, x, B
<1> QED BY <1>3, <1>5, <1>6

\* The lists of an address's images that _expand_addresses goes through.
Images(ips, targets) == [i \in DOMAIN ips |-> [j \in DOMAIN targets |-> MapIp(ips[i], targets[j])]]

\* They are lists of addresses, one for each network.
LEMMA ImagesAre ==
  ASSUME NEW ips \in Seq(Ips), NEW targets \in Seq(Networks)
  PROVE  /\ Images(ips, targets) \in Seq(Seq(Ips)) /\ Len(Images(ips, targets)) = Len(ips)
         /\ \A i \in 1 .. Len(ips) :
              /\ Len(Images(ips, targets)[i]) = Len(targets)
              /\ \A j \in 1 .. Len(targets) : Images(ips, targets)[i][j] = MapIp(ips[i], targets[j])
<1>1. Len(ips) \in Nat /\ DOMAIN ips = 1 .. Len(ips) /\ \A i \in 1 .. Len(ips) : ips[i] \in Ips OBVIOUS
<1>2. Len(targets) \in Nat /\ DOMAIN targets = 1 .. Len(targets)
      /\ \A j \in 1 .. Len(targets) : targets[j] \in Networks OBVIOUS
<1>3. \A i \in 1 .. Len(ips) : \A j \in 1 .. Len(targets) : MapIp(ips[i], targets[j]) \in Ips
  BY <1>1, <1>2, MapIpFacts
<1> DEFINE one(i) == [j \in 1 .. Len(targets) |-> MapIp(ips[i], targets[j])]
<1>4. \A i \in 1 .. Len(ips) : one(i) \in Seq(Ips) /\ Len(one(i)) = Len(targets)
  BY <1>2, <1>3
<1>5. Images(ips, targets) = [i \in 1 .. Len(ips) |-> one(i)] BY <1>1, <1>2 DEF Images
<1>6. \A i \in 1 .. Len(ips) : \A j \in 1 .. Len(targets) : one(i)[j] = MapIp(ips[i], targets[j]) OBVIOUS
<1> HIDE DEF one
<1>7. Images(ips, targets) \in Seq(Seq(Ips)) /\ Len(Images(ips, targets)) = Len(ips) BY <1>1, <1>4, <1>5
<1> QED BY <1>4, <1>5, <1>6, <1>7

\* What an address of the replaced ones is.
LEMMA ExpandRange ==
  ASSUME NEW ips \in Seq(Ips), NEW targets \in Seq(Networks)
  PROVE  /\ Expand(ips, targets) \in Seq(Ips)
         /\ Range(Expand(ips, targets)) =
              {MapIp(ips[x[1]], targets[x[2]]) : x \in (1 .. Len(ips)) \X (1 .. Len(targets))}
<1> DEFINE lists == Images(ips, targets)
           flat == FlattenSeq(lists)
<1>1. /\ lists \in Seq(Seq(Ips)) /\ Len(lists) = Len(ips)
      /\ \A i \in 1 .. Len(ips) :
              /\ Len(lists[i]) = Len(targets)
              /\ \A j \in 1 .. Len(targets) : lists[i][j] = MapIp(ips[i], targets[j]) BY ImagesAre
<1>2. Expand(ips, targets) = Dedup(flat) BY DEF Expand, Images
<1> HIDE DEF lists
<1>3. flat \in Seq(Ips) /\ \E f : Offsets(f, lists) BY <1>1, FlattenOffsets
<1>4. PICK f : Offsets(f, lists) BY <1>3
<1>5. \A n \in 1 .. Len(lists) : \A j \in 1 .. Len(lists[n]) :
         f[n - 1] + j \in 1 .. Len(flat) /\ flat[f[n - 1] + j] = lists[n][j] BY <1>4 DEF Offsets
<1>6. \A x \in 1 .. Len(flat) :
         \E n \in 1 .. Len(lists) : \E j \in 1 .. Len(lists[n]) : x = f[n - 1] + j BY <1>4 DEF Offsets
<1> HIDE DEF flat
<1>7. DOMAIN flat = 1 .. Len(flat) BY <1>3
<1> DEFINE image == {MapIp(ips[x[1]], targets[x[2]]) : x \in (1 .. Len(ips)) \X (1 .. Len(targets))}
<1>8. ASSUME NEW x \in 1 .. Len(flat) PROVE flat[x] \in image
  <2>1. PICK n \in 1 .. Len(lists) : \E j \in 1 .. Len(lists[n]) : x = f[n - 1] + j BY <1>6
  <2>2. PICK j \in 1 .. Len(lists[n]) : x = f[n - 1] + j BY <2>1
  <2>3. n \in 1 .. Len(ips) /\ j \in 1 .. Len(targets) BY <1>1
  <2>4. flat[x] = MapIp(ips[n], targets[j]) BY <1>1, <1>5, <2>2, <2>3
  <2>5. <<n, j>> \in (1 .. Len(ips)) \X (1 .. Len(targets)) BY <2>3
  <2> QED BY <2>4, <2>5
<1>9. ASSUME NEW n \in 1 .. Len(ips), NEW j \in 1 .. Len(targets)
      PROVE  MapIp(ips[n], targets[j]) \in Range(flat)
  <2>1. n \in 1 .. Len(lists) /\ j \in 1 .. Len(lists[n]) BY <1>1
  <2>2. f[n - 1] + j \in 1 .. Len(flat) /\ flat[f[n - 1] + j] = lists[n][j] BY <2>1, <1>5
  <2>3. lists[n][j] = MapIp(ips[n], targets[j]) BY <1>1
  <2> QED BY <2>2, <2>3, <1>7 DEF Range
<1>10. Range(flat) = image
  <2>1. \A y \in Range(flat) : y \in image BY <1>7, <1>8 DEF Range
  <2>2. \A x \in (1 .. Len(ips)) \X (1 .. Len(targets)) :
          MapIp(ips[x[1]], targets[x[2]]) \in Range(flat) BY <1>9
  <2> QED BY <2>1, <2>2
<1> QED BY <1>2, <1>3, <1>10, DedupRange

\* Places are compared below without looking at how they are computed.
LEMMA NotBoth ==
  \A a, b \in Nat : ~(a <= b /\ b < a) /\ ~(a < b /\ b < a) /\ ~(a < a)
OBVIOUS

\* In consecutive blocks of K places those of a later block come later.
LEMMA LaterBlock ==
  \A a, b, K, x, y \in Nat : a + K <= b /\ x <= K /\ 1 <= y => a + x < b + y
OBVIOUS

\* Where the networks have one prefix length, replacing replaced addresses leaves
\* them as they are, in their order (_expand_addresses on the response).
LEMMA ExpandTwice ==
  ASSUME NEW ips \in Seq(Ips), NEW targets \in Seq(Networks),
         \A i, j \in 1 .. Len(targets) : targets[i].len = targets[j].len
  PROVE  Expand(Expand(ips, targets), targets) = Expand(ips, targets)
<1> DEFINE t == Expand(ips, targets)
           K == Len(targets)
           I == Len(ips)
           P == Len(t)
           M(ip, j) == MapIp(ip, targets[j])
<1>1. I \in Nat /\ K \in Nat /\ \A i \in 1 .. I : ips[i] \in Ips OBVIOUS
<1>2. \A j \in 1 .. K : targets[j] \in Networks OBVIOUS
<1>3. t \in Seq(Ips) BY ExpandRange
<1>4. P \in Nat /\ \A p \in 1 .. P : t[p] \in Ips
  <2> HIDE DEF t
  <2> QED BY <1>3
<1>5. \A ip \in Ips : \A j, k \in 1 .. K : M(ip, j) \in Ips /\ M(M(ip, j), k) = M(ip, k)
  BY <1>2, MapIpFacts
<1> DEFINE one == Images(ips, targets)
           s == FlattenSeq(one)
           two == Images(t, targets)
           r == FlattenSeq(two)
           N == Len(s)
           R == Len(r)
           good == {i \in DOMAIN s : \A j \in 1 .. i - 1 : s[j] # s[i]}
<1>6. t = Dedup(s) /\ Expand(t, targets) = Dedup(r) BY DEF Expand, Images
<1>7. /\ one \in Seq(Seq(Ips)) /\ Len(one) = I
      /\ \A i \in 1 .. I : Len(one[i]) = K /\ \A j \in 1 .. K : one[i][j] = M(ips[i], j) BY ImagesAre
<1> HIDE DEF t
<1>8. /\ two \in Seq(Seq(Ips)) /\ Len(two) = P
      /\ \A p \in 1 .. P : Len(two[p]) = K /\ \A j \in 1 .. K : two[p][j] = M(t[p], j) BY <1>3, ImagesAre
<1> HIDE DEF one, two, M
<1>9. s \in Seq(Ips) /\ \E f : Offsets(f, one) BY <1>7, FlattenOffsets
<1>10. r \in Seq(Ips) /\ \E f : Offsets(f, two) BY <1>8, FlattenOffsets
<1>11. PICK f : Offsets(f, one) BY <1>9
<1>12. PICK h : Offsets(h, two) BY <1>10
\* the places of s and of r
<1> DEFINE at(i, j) == f[i - 1] + j
           at2(i, j) == h[i - 1] + j
<1>13. /\ f \in [0 .. I -> Nat]
       /\ \A i \in 1 .. I : f[i] = f[i - 1] + K
       /\ \A m, n \in 0 .. I : m <= n => f[m] <= f[n]
       /\ \A i \in 1 .. I : \A j \in 1 .. K : at(i, j) \in 1 .. N /\ s[at(i, j)] = M(ips[i], j)
       /\ \A x \in 1 .. N : \E i \in 1 .. I : \E j \in 1 .. K : x = at(i, j)
  <2>1. /\ f \in [0 .. Len(one) -> Nat]
        /\ \A n \in 1 .. Len(one) : f[n] = f[n - 1] + Len(one[n])
        /\ \A m, n \in 0 .. Len(one) : m <= n => f[m] <= f[n]
    BY <1>11 DEF Offsets
  <2>2. \A n \in 1 .. Len(one) : \A j \in 1 .. Len(one[n]) :
          f[n - 1] + j \in 1 .. N /\ s[f[n - 1] + j] = one[n][j] BY <1>11 DEF Offsets
  <2>3. \A x \in 1 .. N : \E n \in 1 .. Len(one) : \E j \in 1 .. Len(one[n]) : x = f[n - 1] + j
    BY <1>11 DEF Offsets
  <2> HIDE DEF s, N, I, K
  <2>4. /\ f \in [0 .. I -> Nat]
        /\ \A m, n \in 0 .. I : m <= n => f[m] <= f[n]
        /\ \A i \in 1 .. I : f[i] = f[i - 1] + K BY <2>1, <1>7
  <2>5. \A i \in 1 .. I : \A j \in 1 .. K :
          f[i - 1] + j \in 1 .. N /\ s[f[i - 1] + j] = M(ips[i], j)
    <3> SUFFICES ASSUME NEW i \in 1 .. I, NEW j \in 1 .. K
                 PROVE  f[i - 1] + j \in 1 .. N /\ s[f[i - 1] + j] = M(ips[i], j)
      OBVIOUS
    <3>1. i \in 1 .. Len(one) /\ j \in 1 .. Len(one[i]) /\ one[i][j] = M(ips[i], j) BY <1>7
    <3> QED BY <2>2, <3>1
  <2>6. \A x \in 1 .. N : \E i \in 1 .. I : \E j \in 1 .. K : x = f[i - 1] + j
    <3> SUFFICES ASSUME NEW x \in 1 .. N
                 PROVE  \E i \in 1 .. I : \E j \in 1 .. K : x = f[i - 1] + j OBVIOUS
    <3>1. PICK i \in 1 .. Len(one) : \E j \in 1 .. Len(one[i]) : x = f[i - 1] + j BY <2>3
    <3>2. i \in 1 .. I /\ Len(one[i]) = K BY <1>7
    <3> QED BY <3>1, <3>2
  <2> QED BY <2>4, <2>5, <2>6
<1>14. /\ h \in [0 .. P -> Nat]
       /\ \A p \in 1 .. P : h[p] = h[p - 1] + K
       /\ \A m, n \in 0 .. P : m <= n => h[m] <= h[n]
       /\ \A p \in 1 .. P : \A j \in 1 .. K : at2(p, j) \in 1 .. R /\ r[at2(p, j)] = M(t[p], j)
       /\ \A x \in 1 .. R : \E p \in 1 .. P : \E j \in 1 .. K : x = at2(p, j)
  <2>1. /\ h \in [0 .. Len(two) -> Nat]
        /\ \A n \in 1 .. Len(two) : h[n] = h[n - 1] + Len(two[n])
        /\ \A m, n \in 0 .. Len(two) : m <= n => h[m] <= h[n]
    BY <1>12 DEF Offsets
  <2>2. \A n \in 1 .. Len(two) : \A j \in 1 .. Len(two[n]) :
          h[n - 1] + j \in 1 .. R /\ r[h[n - 1] + j] = two[n][j] BY <1>12 DEF Offsets
  <2>3. \A x \in 1 .. R : \E n \in 1 .. Len(two) : \E j \in 1 .. Len(two[n]) : x = h[n - 1] + j
    BY <1>12 DEF Offsets
  <2> HIDE DEF r, R, P, K
  <2>4. /\ h \in [0 .. P -> Nat]
        /\ \A m, n \in 0 .. P : m <= n => h[m] <= h[n]
        /\ \A p \in 1 .. P : h[p] = h[p - 1] + K BY <2>1, <1>8
  <2>5. \A p \in 1 .. P : \A j \in 1 .. K :
          h[p - 1] + j \in 1 .. R /\ r[h[p - 1] + j] = M(t[p], j)
    <3> SUFFICES ASSUME NEW p \in 1 .. P, NEW j \in 1 .. K
                 PROVE  h[p - 1] + j \in 1 .. R /\ r[h[p - 1] + j] = M(t[p], j)
      OBVIOUS
    <3>1. p \in 1 .. Len(two) /\ j \in 1 .. Len(two[p]) /\ two[p][j] = M(t[p], j) BY <1>8
    <3> QED BY <2>2, <3>1
  <2>6. \A x \in 1 .. R : \E p \in 1 .. P : \E j \in 1 .. K : x = h[p - 1] + j
    <3> SUFFICES ASSUME NEW x \in 1 .. R
                 PROVE  \E p \in 1 .. P : \E j \in 1 .. K : x = h[p - 1] + j OBVIOUS
    <3>1. PICK p \in 1 .. Len(two) : \E j \in 1 .. Len(two[p]) : x = h[p - 1] + j BY <2>3
    <3>2. p \in 1 .. P /\ Len(two[p]) = K BY <1>8
    <3> QED BY <3>1, <3>2
  <2> QED BY <2>4, <2>5, <2>6
<1> HIDE DEF s, r
<1>15. N \in Nat /\ R \in Nat /\ DOMAIN s = 1 .. N BY <1>9, <1>10
<1>16. t = Kept(s, good) BY <1>6 DEF Dedup
<1>17. \A n \in good : n \in 1 .. N /\ \A x \in 1 .. n - 1 : s[x] # s[n] BY <1>15
<1> HIDE DEF good
<1>18. PICK e : PlacesOf(e, t, s, good, N) BY <1>9, <1>16, KeptPlaces
<1>19. /\ \A p \in 1 .. P : e[p] \in 1 .. N /\ e[p] \in good /\ t[p] = s[e[p]]
       /\ \A p, q \in 1 .. P : p < q => e[p] < e[q] BY <1>18, <1>17 DEF PlacesOf
<1>0. /\ \A x \in 1 .. N : x \in Nat /\ 1 <= x
      /\ \A x \in 1 .. R : x \in Nat /\ 1 <= x
      /\ \A p \in 1 .. P : e[p] \in Nat
  BY <1>15, <1>19
<1> HIDE DEF N, R, P, I, K
\* where t's items come from
<1>20. \A p \in 1 .. P : \E i \in 1 .. I : \E j \in 1 .. K : e[p] = at(i, j) BY <1>13, <1>19
<1>21. ASSUME NEW a \in 1 .. I, NEW b \in 1 .. I, NEW x \in 1 .. K, NEW y \in 1 .. K,
              a < b \/ (a = b /\ x < y)
       PROVE  at(a, x) < at(b, y)
  <2>1. a - 1 \in 0 .. I /\ b - 1 \in 0 .. I /\ a \in 0 .. I /\ a \in Nat /\ b \in Nat BY <1>1
  <2>2. f[a - 1] \in Nat /\ f[b - 1] \in Nat BY <2>1, <1>13
  <2>3. CASE a = b BY <2>2, <2>3, <2>1, <1>21
  <2>4. CASE a < b
    <3>1. a <= b - 1 BY <2>1, <2>4
    <3>2. f[a] <= f[b - 1] /\ f[a] = f[a - 1] + K BY <3>1, <2>1, <1>13
    <3>3. x <= K /\ x \in Nat /\ y \in Nat /\ 1 <= y /\ K \in Nat BY <1>1
    <3>4. f[a - 1] + K <= f[b - 1] BY <3>2
    <3> QED BY <3>3, <3>4, <2>2, LaterBlock
  <2> QED BY <2>3, <2>4, <1>21
<1>22. ASSUME NEW a \in 1 .. P, NEW b \in 1 .. P, NEW x \in 1 .. K, NEW y \in 1 .. K,
              a < b \/ (a = b /\ x < y)
       PROVE  at2(a, x) < at2(b, y)
  <2>1. a - 1 \in 0 .. P /\ b - 1 \in 0 .. P /\ a \in 0 .. P /\ a \in Nat /\ b \in Nat BY <1>4
  <2>2. h[a - 1] \in Nat /\ h[b - 1] \in Nat BY <2>1, <1>14
  <2>3. CASE a = b BY <2>2, <2>3, <2>1, <1>22
  <2>4. CASE a < b
    <3>1. a <= b - 1 BY <2>1, <2>4
    <3>2. h[a] <= h[b - 1] /\ h[a] = h[a - 1] + K BY <3>1, <2>1, <1>14
    <3>3. x <= K /\ x \in Nat /\ y \in Nat /\ 1 <= y /\ K \in Nat BY <1>1
    <3>4. h[a - 1] + K <= h[b - 1] BY <3>2
    <3> QED BY <3>3, <3>4, <2>2, LaterBlock
  <2> QED BY <2>3, <2>4, <1>22
<1> HIDE DEF at, at2
\* an item of t is its own image, so that r has it
<1>23. ASSUME NEW p \in 1 .. P, NEW i \in 1 .. I, NEW j \in 1 .. K, e[p] = at(i, j)
       PROVE  /\ t[p] = M(ips[i], j)
              /\ \A k \in 1 .. K : M(t[p], k) = M(ips[i], k)
  <2>0. s[at(i, j)] = M(ips[i], j) /\ t[p] = s[e[p]] BY <1>13, <1>19
  <2>1. t[p] = M(ips[i], j) BY <2>0, <1>23
  <2>2. ips[i] \in Ips BY <1>1
  <2> QED BY <2>1, <2>2, <1>5
\* no place of s before e[p] has t[p]
<1>24. ASSUME NEW p \in 1 .. P, NEW x \in 1 .. N, s[x] = t[p] PROVE e[p] <= x
  <2>1. e[p] \in Nat /\ x \in Nat /\ 1 <= x BY <1>19, <1>15
  <2>2. ~(x \in 1 .. e[p] - 1) BY <1>17, <1>19, <1>24
  <2> QED BY <2>1, <2>2
<1>25. \A p, q \in 1 .. P : t[p] = t[q] => p = q
  <2> SUFFICES ASSUME NEW p \in 1 .. P, NEW q \in 1 .. P, t[p] = t[q], p < q PROVE FALSE
    BY <1>4
  <2>1. e[q] <= e[p] BY <1>19, <1>24
  <2>2. e[p] < e[q] /\ e[p] \in Nat /\ e[q] \in Nat BY <1>19, <1>0
  <2> QED BY <2>1, <2>2, NotBoth
<1>26. ASSUME NEW x \in 1 .. R PROVE \E p \in 1 .. P : r[x] = t[p]
  <2>1. PICK k \in 1 .. P : \E j \in 1 .. K : x = at2(k, j) BY <1>14
  <2>2. PICK j \in 1 .. K : x = at2(k, j) BY <2>1
  <2>3. PICK i \in 1 .. I : \E l \in 1 .. K : e[k] = at(i, l) BY <1>20
  <2>a. r[x] = M(t[k], j) BY <2>2, <1>14
  <2>b. M(t[k], j) = M(ips[i], j)
    <3>1. PICK l \in 1 .. K : e[k] = at(i, l) BY <2>3
    <3> QED BY <3>1, <1>23
  <2>4. r[x] = M(ips[i], j) BY <2>a, <2>b
  <2>5. at(i, j) \in 1 .. N /\ s[at(i, j)] = r[x] BY <2>4, <1>13
  <2>6. Range(t) = Range(s) BY <1>6, <1>9, DedupRange
  <2>7. DOMAIN t = 1 .. P BY <1>3 DEF P
  <2> QED BY <2>5, <2>6, <2>7, <1>15 DEF Range
<1>27. ASSUME NEW p \in 1 .. P PROVE \E x \in 1 .. R : r[x] = t[p]
  <2>1. PICK i \in 1 .. I : \E j \in 1 .. K : e[p] = at(i, j) BY <1>20
  <2>2. PICK j \in 1 .. K : e[p] = at(i, j) BY <2>1
  <2>3. t[p] = M(ips[i], j) /\ M(t[p], j) = M(ips[i], j) BY <2>2, <1>23
  <2>4. at2(p, j) \in 1 .. R /\ r[at2(p, j)] = M(t[p], j) BY <1>14
  <2> QED BY <2>3, <2>4
<1>28. ASSUME NEW x \in 1 .. R, NEW p \in 1 .. P, r[x] = t[p], NEW q \in 1 .. p - 1
       PROVE  \E y \in 1 .. x - 1 : r[y] = t[q]
  <2>1. q \in 1 .. P /\ q < p /\ p \in Nat /\ q \in Nat BY <1>4
  <2>2. PICK k \in 1 .. P : \E j \in 1 .. K : x = at2(k, j) BY <1>14
  <2>3. PICK j \in 1 .. K : x = at2(k, j) BY <2>2
  <2>4. PICK ip \in 1 .. I : \E jp \in 1 .. K : e[p] = at(ip, jp) BY <1>20
  <2>5. PICK jp \in 1 .. K : e[p] = at(ip, jp) BY <2>4
  <2>6. PICK iq \in 1 .. I : \E jq \in 1 .. K : e[q] = at(iq, jq) BY <2>1, <1>20
  <2>7. PICK jq \in 1 .. K : e[q] = at(iq, jq) BY <2>6
  <2>8. PICK ik \in 1 .. I : \E jk \in 1 .. K : e[k] = at(ik, jk) BY <1>20
  <2>9. PICK jk \in 1 .. K : e[k] = at(ik, jk) BY <2>8
  <2>10. e[q] < e[p] /\ e[q] \in Nat /\ e[p] \in Nat BY <2>1, <1>19, <1>0
  <2>11. iq \in Nat /\ ip \in Nat /\ ik \in Nat /\ jq \in Nat /\ jp \in Nat /\ j \in Nat /\ k \in Nat
    BY <1>1, <1>4
  <2>12. t[p] = M(t[k], j) /\ M(t[k], j) = M(ips[ik], j)
    <3>1. M(t[k], j) = M(ips[ik], j) BY <2>9, <1>23, ZenonT(60)
    <3>2. r[at2(k, j)] = M(t[k], j) BY <1>14
    <3> QED BY <3>1, <3>2, <2>3, <1>28
  \* it is the first one in its block
  <2>13. iq < ip \/ (iq = ip /\ jq < jp)
    <3>1. ~(ip < iq \/ (ip = iq /\ jp < jq))
      <4> SUFFICES ASSUME ip < iq \/ (ip = iq /\ jp < jq) PROVE FALSE OBVIOUS
      <4>1. at(ip, jp) < at(iq, jq) BY <1>21
      <4>2. e[p] < e[q] BY <4>1, <2>5, <2>7
      <4> QED BY <4>2, <2>10, NotBoth
    <3>2. ~(ip = iq /\ jp = jq)
      <4>1. e[p] # e[q] BY <2>10, NotBoth
      <4> QED BY <4>1, <2>5, <2>7
    <3> QED BY <3>1, <3>2, <2>11
  <2>14. \A i \in 1 .. I : M(ips[i], j) = t[p] => ~(i < ip)
    <3> SUFFICES ASSUME NEW i \in 1 .. I, M(ips[i], j) = t[p], i < ip PROVE FALSE OBVIOUS
    <3>1. at(i, j) \in 1 .. N /\ s[at(i, j)] = t[p] BY <1>13
    <3> DEFINE z == at(i, j)
    <3>2. e[p] <= z BY <3>1, <1>24
    <3>3. z < e[p] BY <2>5, <1>21
    <3>4. z \in Nat BY <3>1, <1>0
    <3> HIDE DEF z
    <3> QED BY <3>2, <3>3, <3>4, <2>10, NotBoth
  <2>15. M(ips[ip], j) = t[p]
    <3>1. M(t[p], j) = M(ips[ip], j) BY <2>5, <1>23
    <3>2. t[p] = M(t[k], j) /\ t[k] \in Ips BY <2>12, <1>4
    <3>3. M(M(t[k], j), j) = M(t[k], j) BY <3>2, <1>5
    <3> QED BY <3>1, <3>2, <3>3
  <2>16. ~(j < jp)
    <3> SUFFICES ASSUME j < jp PROVE FALSE OBVIOUS
    <3>1. at(ip, j) \in 1 .. N /\ s[at(ip, j)] = t[p] BY <2>15, <1>13
    <3> DEFINE z == at(ip, j)
    <3>2. e[p] <= z BY <3>1, <1>24
    <3>3. z < e[p] BY <2>5, <1>21
    <3>4. z \in Nat BY <3>1, <1>0
    <3> HIDE DEF z
    <3> QED BY <3>2, <3>3, <3>4, <2>10, NotBoth
  <2>17. ~(ik < ip) BY <2>12, <2>14
  <2>18. CASE iq = ip
    <3> DEFINE y == at2(k, jq)
    <3>1. jq < j BY <2>18, <2>13, <2>16, <2>11
    <3>2. y < x BY <3>1, <2>3, <1>22
    <3>3. y \in 1 .. R /\ r[y] = M(t[k], jq) BY <1>14
    <3>4. t[q] = M(ips[ip], jq) BY <2>1, <2>7, <2>18, <1>23
    <3>5. M(t[p], jq) = M(ips[ip], jq) BY <2>5, <1>23
    <3>6. M(t[p], jq) = M(t[k], jq)
      <4>1. t[k] \in Ips BY <1>4
      <4> QED BY <4>1, <2>12, <1>5, SMTT(60)
    <3>7. y \in 1 .. x - 1
      <4>1. x \in Nat /\ y \in Nat /\ 1 <= y BY <3>3, <2>3, <1>0
      <4> HIDE DEF y
      <4> QED BY <4>1, <3>2
    <3> QED BY <3>3, <3>4, <3>5, <3>6, <3>7
  <2>19. CASE iq < ip
    <3> DEFINE y == at2(q, jq)
    <3>1. q < k
      <4> SUFFICES ASSUME ~(q < k) PROVE FALSE OBVIOUS
      <4>1. e[k] <= e[q]
        <5>1. k = q \/ k < q BY <2>1, <2>11
        <5>2. e[k] \in Nat BY <1>0
        <5>3. k < q => e[k] < e[q] BY <2>1, <1>19
        <5>4. \A m, n \in Nat : m = n \/ m < n => m <= n OBVIOUS
        <5> QED BY <5>1, <5>2, <5>3, <5>4, <2>10
      <4>2. ~(iq < ik)
        <5> SUFFICES ASSUME iq < ik PROVE FALSE OBVIOUS
        <5>1. e[q] < e[k] BY <2>7, <2>9, <1>21
        <5>2. e[k] \in Nat BY <1>0
        <5> QED BY <4>1, <5>1, <5>2, <2>10, NotBoth
      <4> QED BY <4>2, <2>17, <2>19, <2>11
    <3>2. y < x BY <3>1, <2>1, <2>3, <1>22
    <3>3. y \in 1 .. R /\ r[y] = M(t[q], jq) BY <2>1, <1>14
    <3>4. t[q] = M(ips[iq], jq) /\ M(t[q], jq) = M(ips[iq], jq) BY <2>1, <2>7, <1>23, SMTT(60)
    <3>5. y \in 1 .. x - 1
      <4>1. x \in Nat /\ y \in Nat /\ 1 <= y BY <3>3, <2>3, <1>0
      <4> HIDE DEF y
      <4> QED BY <4>1, <3>2
    <3> QED BY <3>3, <3>4, <3>5
  <2> QED BY <2>13, <2>18, <2>19
<1>29. Dedup(r) = t
  <2>1. \A x \in 1 .. R, p \in 1 .. P : r[x] = t[p] =>
          \A q \in 1 .. p - 1 : \E y \in 1 .. x - 1 : r[y] = t[q] BY <1>28
  <2> QED BY <1>3, <1>10, <1>25, <1>26, <1>27, <2>1, DedupIs DEF P, R
<1> QED BY <1>6, <1>29 DEF t

-----------------------------------------------------------------------------
(***************************************************************************)
(* Tags                                                                    *)
(***************************************************************************)
\* A list is a prefix of another where it has the same items at its places.
LEMMA PrefixIs ==
  ASSUME NEW S, NEW s \in Seq(S), NEW t \in Seq(S)
  PROVE  IsPrefix(s, t) <=> Len(s) <= Len(t) /\ \A i \in 1 .. Len(s) : s[i] = t[i]
<1>1. Len(s) \in Nat /\ Len(t) \in Nat OBVIOUS
<1>2. SubSeq(s, 1, Len(s)) \in Seq(S) /\ Len(SubSeq(s, 1, Len(s))) = Len(s)
      /\ \A i \in 1 .. Len(s) : SubSeq(s, 1, Len(s))[i] = s[i] BY <1>1
<1>3. SUFFICES ASSUME Len(s) <= Len(t)
               PROVE  SubSeq(s, 1, Len(s)) = SubSeq(t, 1, Len(s)) <=> \A i \in 1 .. Len(s) : s[i] = t[i]
  BY DEF IsPrefix
<1>4. SubSeq(t, 1, Len(s)) \in Seq(S) /\ Len(SubSeq(t, 1, Len(s))) = Len(s)
      /\ \A i \in 1 .. Len(s) : SubSeq(t, 1, Len(s))[i] = t[i] BY <1>1, <1>3
<1>5. (\A i \in 1 .. Len(s) : s[i] = t[i]) => SubSeq(s, 1, Len(s)) = SubSeq(t, 1, Len(s))
  <2> SUFFICES ASSUME \A i \in 1 .. Len(s) : s[i] = t[i]
               PROVE  SubSeq(s, 1, Len(s)) = SubSeq(t, 1, Len(s)) OBVIOUS
  <2> DEFINE a == SubSeq(s, 1, Len(s))
             b == SubSeq(t, 1, Len(s))
  <2>1. a \in Seq(S) /\ b \in Seq(S) /\ Len(a) = Len(b) /\ \A i \in 1 .. Len(a) : a[i] = b[i] BY <1>2, <1>4
  <2> HIDE DEF a, b
  <2>2. a = b BY <2>1, SeqEqual
  <2> QED BY <2>2 DEF a, b
<1>6. SubSeq(s, 1, Len(s)) = SubSeq(t, 1, Len(s)) => \A i \in 1 .. Len(s) : s[i] = t[i] BY <1>2, <1>4
<1> QED BY <1>5, <1>6

\* Labels with a dot after each (ReverseDomain), and how the text grows.
Dotted(X) == FlattenSeq([i \in DOMAIN X |-> X[i] \o <<Dot>>])

DottedTrace(f, C, X) ==
  /\ f \in [0 .. Len(X) -> Seq(C)] /\ f[0] = <<>> /\ Dotted(X) = f[Len(X)]
  /\ \A n \in 1 .. Len(X) :
       /\ Len(f[n]) = Len(f[n - 1]) + Len(X[n]) + 1
       /\ \A i \in 1 .. Len(f[n - 1]) : f[n][i] = f[n - 1][i]
       /\ \A j \in 1 .. Len(X[n]) : f[n][Len(f[n - 1]) + j] = X[n][j]
       /\ f[n][Len(f[n])] = Dot

\* The text of the labels is built label by label.
LEMMA DottedLoop ==
  ASSUME NEW C, Dot \in C, NEW X \in Seq(Seq(C))
  PROVE  \E f : DottedTrace(f, C, X)
<1> DEFINE N == Len(X)
           one == <<Dot>>
           lists == [i \in DOMAIN X |-> X[i] \o one]
<1>1. N \in Nat /\ DOMAIN X = 1 .. N /\ \A i \in 1 .. N : X[i] \in Seq(C) OBVIOUS
<1>2. one \in Seq(C) /\ Len(one) = 1 /\ one[1] = Dot OBVIOUS
<1> HIDE DEF one, N
<1>3. \A i \in 1 .. N : lists[i] = X[i] \o one /\ lists[i] \in Seq(C) /\ Len(lists[i]) = Len(X[i]) + 1
        /\ (\A j \in 1 .. Len(X[i]) : lists[i][j] = X[i][j]) /\ lists[i][Len(X[i]) + 1] = Dot
  <2> SUFFICES ASSUME NEW i \in 1 .. N
               PROVE  lists[i] = X[i] \o one /\ lists[i] \in Seq(C) /\ Len(lists[i]) = Len(X[i]) + 1
                      /\ (\A j \in 1 .. Len(X[i]) : lists[i][j] = X[i][j]) /\ lists[i][Len(X[i]) + 1] = Dot
    OBVIOUS
  <2> DEFINE x == X[i]
             y == x \o one
  <2>1. x \in Seq(C) /\ Len(x) \in Nat BY <1>1
  <2> HIDE DEF x
  <2>2. y \in Seq(C) /\ Len(y) = Len(x) + Len(one)
        /\ \A j \in 1 .. Len(x) + Len(one) : y[j] = IF j <= Len(x) THEN x[j] ELSE one[j - Len(x)]
    BY <2>1, <1>2, ConcatProperties
  <2> HIDE DEF y
  <2>3. \A j \in 1 .. Len(x) : y[j] = x[j] BY <2>1, <2>2, <1>2
  <2>4. Len(x) + 1 \in 1 .. Len(x) + 1 /\ ~(Len(x) + 1 <= Len(x)) /\ (Len(x) + 1) - Len(x) = 1 BY <2>1
  <2>5. y[Len(x) + 1] = Dot BY <2>2, <2>4, <1>2
  <2>6. lists[i] = y BY <1>1 DEF y, x
  <2> HIDE DEF lists
  <2> QED BY <2>2, <2>3, <2>5, <2>6, <1>2 DEF x, y
<1>4. Dotted(X) = FlattenSeq(lists) BY DEF Dotted, one
<1>5. lists \in Seq(Seq(C)) /\ Len(lists) = N
  <2> DEFINE T == Seq(C)
  <2>1. lists \in [1 .. N -> T] BY <1>1, <1>3
  <2> HIDE DEF T, lists
  <2>2. lists \in Seq(T) /\ Len(lists) = N BY <2>1, <1>1
  <2> QED BY <2>2 DEF T
<1> HIDE DEF lists
<1> PICK f : FlattenTrace(f, C, lists) BY <1>5, FlattenLoop
<1>6. f \in [0 .. N -> Seq(C)] /\ f[0] = <<>> /\ Dotted(X) = f[N]
      /\ \A n \in 1 .. N : f[n] = f[n - 1] \o lists[n] BY <1>4, <1>5 DEF FlattenTrace
<1>7. ASSUME NEW n \in 1 .. N
      PROVE  /\ Len(f[n]) = Len(f[n - 1]) + Len(X[n]) + 1
             /\ \A i \in 1 .. Len(f[n - 1]) : f[n][i] = f[n - 1][i]
             /\ \A j \in 1 .. Len(X[n]) : f[n][Len(f[n - 1]) + j] = X[n][j]
             /\ f[n][Len(f[n])] = Dot
  <2> DEFINE p == f[n - 1]
             y == lists[n]
             L == Len(X[n])
  <2>0. n - 1 \in 0 .. N BY <1>1
  <2>1. p \in Seq(C) /\ y \in Seq(C) /\ f[n] = p \o y BY <2>0, <1>3, <1>6
  <2>2. L \in Nat /\ Len(y) = L + 1 /\ (\A j \in 1 .. L : y[j] = X[n][j]) /\ y[L + 1] = Dot
    BY <1>1, <1>3
  <2> HIDE DEF p, y, L
  <2>3. Len(p) \in Nat /\ Len(p \o y) = Len(p) + Len(y)
        /\ \A i \in 1 .. Len(p) + Len(y) : (p \o y)[i] = IF i <= Len(p) THEN p[i] ELSE y[i - Len(p)]
    BY <2>1, ConcatProperties
  <2>4. Len(f[n]) = Len(p) + L + 1 BY <2>1, <2>2, <2>3
  <2>5. \A i \in 1 .. Len(p) : f[n][i] = p[i]
    <3>1. \A i \in 1 .. Len(p) : i \in 1 .. Len(p) + Len(y) /\ i <= Len(p) BY <2>2, <2>3
    <3> QED BY <3>1, <2>1, <2>3
  <2>6. \A j \in 1 .. L + 1 : f[n][Len(p) + j] = y[j]
    <3>1. \A j \in 1 .. L + 1 : Len(p) + j \in 1 .. Len(p) + Len(y) /\ ~(Len(p) + j <= Len(p))
                                /\ (Len(p) + j) - Len(p) = j BY <2>2, <2>3
    <3> QED BY <3>1, <2>1, <2>3
  <2>7. \A j \in 1 .. L : f[n][Len(p) + j] = X[n][j]
    <3>1. \A j \in 1 .. L : j \in 1 .. L + 1 BY <2>2
    <3> QED BY <3>1, <2>2, <2>6
  <2>8. f[n][Len(f[n])] = Dot
    <3>1. L + 1 \in 1 .. L + 1 /\ Len(p) + (L + 1) = Len(f[n]) BY <2>2, <2>3, <2>4
    <3> QED BY <3>1, <2>2, <2>6
  <2> QED BY <2>4, <2>5, <2>7, <2>8 DEF p, L
<1>8. DottedTrace(f, C, X) BY <1>6, <1>7 DEF DottedTrace, N
<1> QED BY <1>8

\* What was written stays where it is.
LEMMA DottedGrows ==
  ASSUME NEW C, NEW X \in Seq(Seq(C)), NEW f, DottedTrace(f, C, X), NEW m \in 0 .. Len(X)
  PROVE  \A n \in m .. Len(X) : Len(f[m]) <= Len(f[n]) /\ \A i \in 1 .. Len(f[m]) : f[n][i] = f[m][i]
<1> DEFINE N == Len(X)
           Grown(n) == Len(f[m]) <= Len(f[n]) /\ \A i \in 1 .. Len(f[m]) : f[n][i] = f[m][i]
           G == {n \in 0 .. N : m <= n => Grown(n)}
<1>1. N \in Nat /\ m \in Nat /\ \A i \in 1 .. N : X[i] \in Seq(C) OBVIOUS
<1>2. f \in [0 .. N -> Seq(C)] BY DEF DottedTrace
<1>3. \A n \in 0 .. N : Len(f[n]) \in Nat
  <2> HIDE DEF N
  <2> QED BY <1>2
<1>4. Grown(m) BY <1>3
<1>5. 0 \in G
  <2>1. m <= 0 => m = 0 BY <1>1
  <2> QED BY <2>1, <1>1, <1>4
<1>6. ASSUME NEW n \in 1 .. N, n - 1 \in G PROVE n \in G
  <2> SUFFICES ASSUME m <= n PROVE Grown(n) BY <1>1
  <2>1. CASE m = n BY <2>1, <1>4
  <2>2. CASE m # n
    <3>1. m <= n - 1 /\ n - 1 \in 0 .. N /\ n \in 0 .. N BY <2>2, <1>1
    <3>2. Grown(n - 1) BY <3>1, <1>6
    <3>3. Len(X[n]) \in Nat BY <1>1
    <3>4. Len(f[n]) = Len(f[n - 1]) + Len(X[n]) + 1
          /\ \A i \in 1 .. Len(f[n - 1]) : f[n][i] = f[n - 1][i] BY DEF DottedTrace
    <3>5. Len(f[m]) \in Nat /\ Len(f[n - 1]) \in Nat BY <3>1, <1>3
    <3> HIDE DEF N, G
    <3>a. Len(f[m]) <= Len(f[n - 1]) /\ \A i \in 1 .. Len(f[m]) : f[n - 1][i] = f[m][i] BY <3>2
    <3>b. Len(f[n]) = Len(f[n - 1]) + Len(X[n]) + 1 BY <3>4
    <3>c. \A i, j, k \in Nat : i <= j => i <= j + k + 1 OBVIOUS
    <3>d. Len(f[m]) <= Len(f[n - 1]) BY <3>a
    <3>e. Len(f[m]) <= Len(f[n - 1]) + Len(X[n]) + 1 BY <3>c, <3>d, <3>3, <3>5
    <3>6. Len(f[m]) <= Len(f[n]) BY <3>b, <3>e
    <3>7. \A i \in 1 .. Len(f[m]) : i \in 1 .. Len(f[n - 1]) BY <3>a, <3>5
    <3> QED BY <3>a, <3>4, <3>6, <3>7
  <2> QED BY <2>1, <2>2
<1>7. \A n \in 0 .. N : n \in G
  <2> HIDE DEF G, N
  <2> QED BY <1>1, <1>5, <1>6, UpTo
<1>8. \A n \in m .. N : n \in 0 .. N /\ m <= n BY <1>1
<1> HIDE DEF Grown
<1>9. \A n \in m .. N : Grown(n) BY <1>7, <1>8
<1> QED BY <1>9 DEF Grown

\* Texts of dotted labels are prefixes of each other where the label lists are: no
\* label is matched halfway (DomainSet.lookup on reversed names).
LEMMA PrefixOfLabels ==
  ASSUME NEW C, Dot \in C, NEW X \in Seq(Seq(C)), NEW Y \in Seq(Seq(C)),
         \A i \in 1 .. Len(X) : \A j \in 1 .. Len(X[i]) : X[i][j] # Dot,
         \A i \in 1 .. Len(Y) : \A j \in 1 .. Len(Y[i]) : Y[i][j] # Dot
  PROVE  IsPrefix(Dotted(X), Dotted(Y)) <=> IsPrefix(X, Y)
<1> DEFINE M == Len(X)
           N == Len(Y)
           D == Dotted(X)
           E == Dotted(Y)
<1>0. M \in Nat /\ N \in Nat /\ M \in 0 .. M /\ N \in 0 .. N
      /\ (\A i \in 1 .. M : X[i] \in Seq(C)) /\ (\A i \in 1 .. N : Y[i] \in Seq(C)) OBVIOUS
<1> PICK f : DottedTrace(f, C, X) BY DottedLoop
<1> PICK g : DottedTrace(g, C, Y) BY DottedLoop
<1>1. /\ f \in [0 .. M -> Seq(C)] /\ f[0] = <<>> /\ D = f[M]
      /\ \A n \in 1 .. M :
           /\ Len(f[n]) = Len(f[n - 1]) + Len(X[n]) + 1
           /\ \A i \in 1 .. Len(f[n - 1]) : f[n][i] = f[n - 1][i]
           /\ \A j \in 1 .. Len(X[n]) : f[n][Len(f[n - 1]) + j] = X[n][j]
           /\ f[n][Len(f[n])] = Dot BY DEF DottedTrace
<1>2. /\ g \in [0 .. N -> Seq(C)] /\ g[0] = <<>> /\ E = g[N]
      /\ \A n \in 1 .. N :
           /\ Len(g[n]) = Len(g[n - 1]) + Len(Y[n]) + 1
           /\ \A i \in 1 .. Len(g[n - 1]) : g[n][i] = g[n - 1][i]
           /\ \A j \in 1 .. Len(Y[n]) : g[n][Len(g[n - 1]) + j] = Y[n][j]
           /\ g[n][Len(g[n])] = Dot BY DEF DottedTrace
<1>3. ASSUME NEW m \in 0 .. M
      PROVE  Len(f[m]) <= Len(D) /\ \A i \in 1 .. Len(f[m]) : D[i] = f[m][i]
  <2>1. \A n \in m .. Len(X) : Len(f[m]) <= Len(f[n]) /\ \A i \in 1 .. Len(f[m]) : f[n][i] = f[m][i]
    BY DottedGrows
  <2>2. M \in m .. Len(X) BY <1>0
  <2> HIDE DEF M, D
  <2> QED BY <2>1, <2>2, <1>1
<1>4. ASSUME NEW m \in 0 .. N
      PROVE  Len(g[m]) <= Len(E) /\ \A i \in 1 .. Len(g[m]) : E[i] = g[m][i]
  <2>1. \A n \in m .. Len(Y) : Len(g[m]) <= Len(g[n]) /\ \A i \in 1 .. Len(g[m]) : g[n][i] = g[m][i]
    BY DottedGrows
  <2>2. N \in m .. Len(Y) BY <1>0
  <2> HIDE DEF N, E
  <2> QED BY <2>1, <2>2, <1>2
<1>5. D \in Seq(C) /\ E \in Seq(C)
  <2> HIDE DEF M, N, D, E
  <2> QED BY <1>0, <1>1, <1>2
<1>6. IsPrefix(D, E) <=> Len(D) <= Len(E) /\ \A i \in 1 .. Len(D) : D[i] = E[i] BY <1>5, PrefixIs
<1>7. IsPrefix(X, Y) <=> M <= N /\ \A i \in 1 .. M : X[i] = Y[i] BY PrefixIs
<1>8. (\A i \in 1 .. M : \A j \in 1 .. Len(X[i]) : X[i][j] # Dot)
      /\ (\A i \in 1 .. N : \A j \in 1 .. Len(Y[i]) : Y[i][j] # Dot) OBVIOUS
<1> HIDE DEF M, N, D, E
<1>a. \A n \in 0 .. M : f[n] \in Seq(C) /\ Len(f[n]) \in Nat BY <1>1
<1>b. \A n \in 0 .. N : g[n] \in Seq(C) /\ Len(g[n]) \in Nat BY <1>2
\* one more label of the same place and length
<1>9. ASSUME NEW n \in 1 .. M, n \in 1 .. N, f[n - 1] = g[n - 1], X[n] = Y[n] PROVE f[n] = g[n]
  <2> DEFINE P == Len(f[n - 1])
             L == Len(X[n])
  <2>0. M \in Nat /\ N \in Nat /\ n \in 1 .. M /\ n \in 1 .. N BY <1>0, <1>9
  <2>1. n \in 0 .. M /\ n \in 0 .. N /\ n - 1 \in 0 .. M BY <2>0
  <2>2. P \in Nat BY <2>1, <1>a
  <2>3. L \in Nat BY <1>0
  <2>4. Len(f[n]) = P + L + 1 /\ (\A i \in 1 .. P : f[n][i] = f[n - 1][i])
        /\ (\A j \in 1 .. L : f[n][P + j] = X[n][j]) /\ f[n][Len(f[n])] = Dot BY <1>1
  <2>5. Len(g[n]) = P + L + 1 /\ (\A i \in 1 .. P : g[n][i] = f[n - 1][i])
        /\ (\A j \in 1 .. L : g[n][P + j] = X[n][j]) /\ g[n][Len(g[n])] = Dot BY <1>2, <1>9, ZenonT(60)
  <2> HIDE DEF P, L
  <2>6. ASSUME NEW i \in 1 .. P + L + 1 PROVE f[n][i] = g[n][i]
    <3>1. CASE i \in 1 .. P BY <3>1, <2>4, <2>5
    <3>2. CASE i = P + L + 1 BY <3>2, <2>4, <2>5
    <3>3. CASE i \notin 1 .. P /\ i # P + L + 1
      <4>1. i - P \in 1 .. L /\ P + (i - P) = i BY <3>3, <2>2, <2>3
      <4>2. f[n][P + (i - P)] = g[n][P + (i - P)] BY <4>1, <2>4, <2>5
      <4> QED BY <4>1, <4>2
    <3> QED BY <3>1, <3>2, <3>3
  <2>7. f[n] \in Seq(C) /\ g[n] \in Seq(C) BY <2>1, <1>a, <1>b
  <2>8. Len(f[n]) = Len(g[n]) /\ \A i \in 1 .. Len(f[n]) : f[n][i] = g[n][i]
    <3>1. Len(f[n]) = P + L + 1 /\ Len(g[n]) = P + L + 1 BY <2>4, <2>5
    <3> QED BY <3>1, <2>6
  <2> QED BY <2>7, <2>8, SeqEqual
<1>10. ASSUME IsPrefix(X, Y) PROVE IsPrefix(D, E)
  <2>1. M <= N /\ \A i \in 1 .. M : X[i] = Y[i] /\ i \in 1 .. N BY <1>0, <1>7, <1>10
  <2> DEFINE G == {n \in 0 .. M : f[n] = g[n]}
  <2>2. 0 \in G BY <1>0, <1>1, <1>2
  <2>3. ASSUME NEW n \in 1 .. M, n - 1 \in G PROVE n \in G
    <3>1. f[n - 1] = g[n - 1] /\ n \in 0 .. M BY <2>3, <1>0
    <3>2. f[n] = g[n] BY <3>1, <2>1, <1>9
    <3> QED BY <3>1, <3>2
  <2>4. M \in G
    <3> HIDE DEF G
    <3> QED BY <2>2, <2>3, <1>0, UpTo
  <2>5. D = g[M] /\ M \in 0 .. N BY <2>1, <2>4, <1>0, <1>1
  <2>6. Len(g[M]) <= Len(E) /\ \A i \in 1 .. Len(g[M]) : E[i] = g[M][i] BY <2>5, <1>4
  <2> QED BY <2>5, <2>6, <1>6
<1>11. ASSUME IsPrefix(D, E) PROVE IsPrefix(X, Y)
  <2>1. Len(D) <= Len(E) /\ \A i \in 1 .. Len(D) : D[i] = E[i] BY <1>6, <1>11
  <2> DEFINE G == {n \in 0 .. M : n <= N /\ f[n] = g[n] /\ \A i \in 1 .. n : X[i] = Y[i]}
  <2>2. 0 \in G BY <1>0, <1>1, <1>2
  <2>3. ASSUME NEW n \in 1 .. M, n - 1 \in G PROVE n \in G
    <3>1. n - 1 <= N /\ f[n - 1] = g[n - 1] /\ (\A i \in 1 .. n - 1 : X[i] = Y[i]) BY <2>3
    <3>2. n \in 0 .. M /\ n - 1 \in 0 .. M /\ n - 1 \in 0 .. N BY <3>1, <1>0
    <3> DEFINE P == Len(f[n - 1])
               a == Len(X[n])
               b == Len(Y[n])
    <3>3. P \in Nat /\ a \in Nat /\ Len(f[n]) \in Nat /\ Len(D) \in Nat /\ Len(E) \in Nat
      <4>1. P \in Nat /\ Len(f[n]) \in Nat BY <3>2, <1>a
      <4>2. a \in Nat BY <1>0
      <4> QED BY <4>1, <4>2, <1>5, SMTT(60)
    <3>4. Len(f[n]) = P + a + 1 /\ (\A j \in 1 .. a : f[n][P + j] = X[n][j]) /\ f[n][Len(f[n])] = Dot
      BY <1>1
    <3>5. Len(f[n]) <= Len(D) /\ \A i \in 1 .. Len(f[n]) : D[i] = f[n][i] BY <3>2, <1>3
    <3>6. n \in 1 .. N
      <4> SUFFICES ASSUME n \notin 1 .. N PROVE FALSE OBVIOUS
      <4>1. n - 1 = N BY <3>1, <3>2, <1>0
      <4>2. E = f[n - 1] BY <4>1, <3>1, <1>2
      <4>3. Len(E) = P BY <4>2
      <4> HIDE DEF P, a
      <4> QED BY <4>3, <2>1, <3>3, <3>4, <3>5
    <3>7. b \in Nat /\ n \in 0 .. N BY <3>6, <1>0
    <3>8. Len(g[n]) = P + b + 1 /\ (\A j \in 1 .. b : g[n][P + j] = Y[n][j]) /\ g[n][Len(g[n])] = Dot
      <4>1. /\ Len(g[n]) = Len(g[n - 1]) + Len(Y[n]) + 1
            /\ \A j \in 1 .. Len(Y[n]) : g[n][Len(g[n - 1]) + j] = Y[n][j]
            /\ g[n][Len(g[n])] = Dot
        BY <3>6, <1>2
      <4> QED BY <4>1, <3>1
    <3>9. Len(g[n]) <= Len(E) /\ \A i \in 1 .. Len(g[n]) : E[i] = g[n][i] BY <3>7, <1>4
    <3>10. (\A j \in 1 .. a : X[n][j] # Dot) /\ (\A j \in 1 .. b : Y[n][j] # Dot) BY <3>6, <1>8
    <3>11. X[n] \in Seq(C) /\ Y[n] \in Seq(C) BY <3>6, <1>0
    <3>d. Len(X[n]) = a /\ Len(Y[n]) = b OBVIOUS
    <3> HIDE DEF P, a, b
    <3>12. \A j \in 1 .. a : P + j \in 1 .. Len(f[n]) /\ D[P + j] = X[n][j]
      <4>1. \A j \in 1 .. a : P + j \in 1 .. Len(f[n]) BY <3>3, <3>4
      <4> QED BY <4>1, <3>4, <3>5
    <3>13. D[P + a + 1] = Dot /\ P + a + 1 \in 1 .. Len(D)
      <4>1. P + a + 1 \in 1 .. Len(f[n]) /\ P + a + 1 = Len(f[n]) BY <3>3, <3>4, SMTT(60)
      <4>2. P + a + 1 \in 1 .. Len(D) BY <4>1, <3>3, <3>5
      <4> QED BY <4>1, <4>2, <3>4, <3>5
    <3>14. \A j \in 1 .. b : P + j \in 1 .. Len(g[n]) /\ E[P + j] = Y[n][j]
      <4>1. \A j \in 1 .. b : P + j \in 1 .. Len(g[n]) BY <3>3, <3>7, <3>8, SMTT(60)
      <4> QED BY <4>1, <3>8, <3>9
    <3>15. E[P + b + 1] = Dot
      <4>1. P + b + 1 \in 1 .. Len(g[n]) /\ P + b + 1 = Len(g[n]) BY <3>3, <3>7, <3>8
      <4> QED BY <4>1, <3>8, <3>9
    <3>16. \A j \in 1 .. a + 1 : D[P + j] = E[P + j]
      <4>1. \A j \in 1 .. a + 1 : P + j \in 1 .. Len(D)
        <5>1. P + a + 1 <= Len(D) BY <3>13
        <5> QED BY <5>1, <3>3
      <4> QED BY <4>1, <2>1
    <3>17. a = b
      <4>1. ~(a < b)
        <5> SUFFICES ASSUME a < b PROVE FALSE OBVIOUS
        <5>1. a + 1 \in 1 .. b /\ a + 1 \in 1 .. a + 1 /\ P + (a + 1) = P + a + 1 BY <3>3, <3>7
        <5>2. D[P + (a + 1)] = E[P + (a + 1)] BY <5>1, <3>16
        <5>3. E[P + (a + 1)] # Dot BY <5>1, <3>10, <3>14
        <5> QED BY <5>1, <5>2, <5>3, <3>13
      <4>2. ~(b < a)
        <5> SUFFICES ASSUME b < a PROVE FALSE OBVIOUS
        <5>1. b + 1 \in 1 .. a /\ b + 1 \in 1 .. a + 1 /\ P + (b + 1) = P + b + 1 BY <3>3, <3>7, SMTT(60)
        <5>2. D[P + (b + 1)] = E[P + (b + 1)] BY <5>1, <3>16
        <5>3. D[P + (b + 1)] # Dot BY <5>1, <3>10, <3>12
        <5> QED BY <5>1, <5>2, <5>3, <3>15
      <4> QED BY <4>1, <4>2, <3>3, <3>7
    <3>18. X[n] = Y[n]
      <4>1. \A j \in 1 .. a : X[n][j] = Y[n][j]
        <5>1. \A j \in 1 .. a : j \in 1 .. a + 1 /\ j \in 1 .. b BY <3>3, <3>17
        <5> QED BY <5>1, <3>12, <3>14, <3>16
      <4> QED BY <4>1, <3>11, <3>17, <3>d, SeqEqual
    <3>19. f[n] = g[n] BY <3>1, <3>6, <3>18, <1>9
    <3>20. \A i \in 1 .. n : X[i] = Y[i]
      <4>1. \A i \in 1 .. n : i = n \/ i \in 1 .. n - 1 BY <1>0
      <4> QED BY <4>1, <3>1, <3>18
    <3>21. n <= N BY <3>6, <1>0
    <3> QED BY <3>2, <3>19, <3>20, <3>21
  <2>4. M \in G
    <3> HIDE DEF G
    <3> QED BY <2>2, <2>3, <1>0, UpTo
  <2> QED BY <2>4, <1>7
<1> QED BY <1>10, <1>11 DEF D, E

\* Names stay text when they are normalised.
LEMMA NormalizeKeeps ==
  ASSUME NEW C, NEW text \in Seq(C)
  PROVE  Normalize(text) \in Seq(C)
<1> DEFINE N == Len(text)
           I == {i \in 1 .. N : text[i] # Dot}
           last == IF I # {} THEN Max(I) ELSE 0
           bare == SubSeq(text, 1, last)
<1>1. Normalize(text) = IF IsPrefix(<<Plus, Dot>>, bare) THEN SubSeq(bare, 3, Len(bare)) ELSE bare
  BY DEF Normalize, SelectLastInSeq
<1>2. N \in Nat /\ I \subseteq 1 .. N OBVIOUS
<1> HIDE DEF I
<1>3. last \in 0 .. N
  <2>1. I # {} => Max(I) \in 1 .. N
    <3> HIDE DEF N
    <3> QED BY <1>2, MaxOf
  <2> QED BY <2>1, <1>2
<1> HIDE DEF last
<1>4. bare \in Seq(C)
  <2>1. 1 \in 1 .. N + 1 BY <1>2
  <2> QED BY <2>1, <1>3, SubSeqRange
<1> HIDE DEF bare, N
<1>5. IsPrefix(<<Plus, Dot>>, bare) => SubSeq(bare, 3, Len(bare)) \in Seq(C)
  <2> SUFFICES ASSUME IsPrefix(<<Plus, Dot>>, bare) PROVE SubSeq(bare, 3, Len(bare)) \in Seq(C) OBVIOUS
  <2>1. Len(<<Plus, Dot>>) <= Len(bare) /\ Len(<<Plus, Dot>>) = 2 BY DEF IsPrefix
  <2>2. Len(bare) \in Nat BY <1>4
  <2>3. 3 \in 1 .. Len(bare) + 1 /\ Len(bare) \in 0 .. Len(bare) BY <2>1, <2>2
  <2> QED BY <1>4, <2>3, SubSeqRange
<1> QED BY <1>1, <1>4, <1>5

\* split(".") leaves no dot in a label.
LEMMA LabelsHaveNoDot ==
  ASSUME NEW C, NEW text \in Seq(C)
  PROVE  Labels(text) \in Seq(Seq(C))
         /\ \A i \in 1 .. Len(Labels(text)) : \A j \in 1 .. Len(Labels(text)[i]) : Labels(text)[i][j] # Dot
<1> DEFINE N == Len(text)
           places == [i \in 1 .. Len(text) + 2 |-> i - 1]
           good == {i \in DOMAIN places : i - 1 \in DOMAIN text => text[i - 1] = Dot}
           cuts == Kept(places, good)
           label(i) == SubSeq(text, cuts[i] + 1, cuts[i + 1] - 1)
           L == Len(cuts)
<1>1. N \in Nat /\ DOMAIN text = 1 .. N OBVIOUS
<1>2. Labels(text) = [i \in 1 .. L - 1 |-> label(i)] BY DEF Labels
<1>3. places \in Seq(Int) /\ Len(places) = N + 2 /\ \A i \in 1 .. N + 2 : places[i] = i - 1 BY <1>1
<1>4. \A i \in 1 .. N + 2 : i \in good <=> (i - 1 \in 1 .. N => text[i - 1] = Dot) BY <1>1, <1>3
<1> HIDE DEF places, good
<1> PICK e : PlacesOf(e, cuts, places, good, Len(places)) BY <1>3, KeptPlaces
<1>5. cuts \in Seq(Int) BY <1>3, KeptPlaces
<1>6. L \in Nat BY <1>5
<1>7. /\ e \in [1 .. L -> 1 .. N + 2]
      /\ \A i, j \in 1 .. L : i < j => e[i] < e[j]
      /\ \A i \in 1 .. L : cuts[i] = places[e[i]]
      /\ \A m \in 1 .. N + 2 : m \in good => \E i \in 1 .. L : e[i] = m BY <1>3 DEF PlacesOf
<1> HIDE DEF cuts, N, L
<1>8. L # 0
  <2>1. 1 \in 1 .. N + 2 /\ 1 - 1 \notin 1 .. N BY <1>1
  <2>2. 1 \in good BY <2>1, <1>4
  <2>3. \E i \in 1 .. L : e[i] = 1 BY <2>1, <2>2, <1>7
  <2> QED BY <2>3
<1>9. ASSUME NEW i \in 1 .. L - 1
      PROVE  label(i) \in Seq(C) /\ \A j \in 1 .. Len(label(i)) : label(i)[j] # Dot
  <2>1. i \in 1 .. L /\ i + 1 \in 1 .. L BY <1>6
  <2>2. e[i] \in 1 .. N + 2 /\ e[i + 1] \in 1 .. N + 2 BY <2>1, <1>7
  <2> DEFINE a == e[i]
             b == e[i + 1]
  <2>3. cuts[i] = a - 1 /\ cuts[i + 1] = b - 1 BY <2>1, <2>2, <1>3, <1>7
  <2>4. ASSUME NEW k \in a .. b - 2 PROVE k \in 1 .. N /\ text[k] # Dot
    <3>1. k + 1 \in 1 .. N + 2 /\ a < k + 1 /\ k + 1 < b /\ (k + 1) - 1 = k BY <2>2, <1>1, SMTT(60)
    <3>2. k + 1 \notin good
      <4> SUFFICES ASSUME k + 1 \in good PROVE FALSE OBVIOUS
      <4>1. PICK l \in 1 .. L : e[l] = k + 1 BY <3>1, <1>7
      <4>2. i < l
        <5>1. ~(l = i) BY <4>1, <3>1, <2>2
        <5>2. ~(l < i)
          <6> SUFFICES ASSUME l < i PROVE FALSE OBVIOUS
          <6>1. e[l] < e[i] BY <1>7, <2>1
          <6> QED BY <6>1, <4>1, <3>1, <2>2, <1>1
        <5> QED BY <5>1, <5>2, <1>6
      <4>3. l < i + 1
        <5>1. ~(l = i + 1) BY <4>1, <3>1, <2>2
        <5>2. ~(i + 1 < l)
          <6> SUFFICES ASSUME i + 1 < l PROVE FALSE OBVIOUS
          <6>1. e[i + 1] < e[l] BY <1>7, <2>1
          <6> QED BY <6>1, <4>1, <3>1, <2>2, <1>1
        <5> QED BY <5>1, <5>2, <1>6
      <4> QED BY <4>2, <4>3, <1>6
    <3> QED BY <3>1, <3>2, <1>4
  <2>5. a \in Int /\ b - 2 \in Int /\ cuts[i] + 1 = a /\ cuts[i + 1] - 1 = b - 2 BY <2>2, <2>3, <1>1, SMTT(60)
  <2> HIDE DEF a, b
  <2>6. \A k \in a .. b - 2 : text[k] \in C BY <2>4 DEF N
  <2> DEFINE z == b - 2
             t == SubSeq(text, a, z)
  <2>7. label(i) = t BY <2>5
  <2>8. z \in Int /\ \A k \in a .. z : text[k] \in C BY <2>5, <2>6
  <2> HIDE DEF z, label
  <2>9. t \in Seq(C) /\ Len(t) = (IF a <= z THEN z - a + 1 ELSE 0)
        /\ \A j \in 1 .. z - a + 1 : t[j] = text[a + j - 1] BY <2>5, <2>8, SubSeqProperties
  <2> HIDE DEF t
  <2>10. \A j \in 1 .. Len(t) : j \in 1 .. z - a + 1 /\ a + j - 1 \in a .. z BY <2>5, <2>8, <2>9
  <2>11. \A j \in 1 .. Len(t) : t[j] # Dot BY <2>4, <2>9, <2>10 DEF z
  <2> QED BY <2>7, <2>9, <2>11
<1> HIDE DEF label
<1>10. L - 1 \in Nat BY <1>6, <1>8
<1>11. Labels(text) \in Seq(Seq(C)) /\ Len(Labels(text)) = L - 1
       /\ \A i \in 1 .. L - 1 : Labels(text)[i] = label(i)
  <2> DEFINE T == Seq(C)
             K == L - 1
  <2>1. Labels(text) = [i \in 1 .. K |-> label(i)] /\ \A i \in 1 .. K : label(i) \in T BY <1>2, <1>9
  <2>2. K \in Nat BY <1>10
  <2> HIDE DEF T, K
  <2>3. Labels(text) \in Seq(T) /\ Len(Labels(text)) = K /\ \A i \in 1 .. K : Labels(text)[i] = label(i)
    BY <2>1, <2>2
  <2> QED BY <2>3 DEF T, K
<1> QED BY <1>9, <1>11

\* A line covers a name where the trie finds it.
LEMMA KeyMatches ==
  ASSUME NEW C, Dot \in C, NEW s \in Seq(C), NEW t \in Seq(C)
  PROVE  IsPrefix(ReverseDomain(s), ReverseDomain(t))
         <=> IsSuffix(Labels(Normalize(s)), Labels(Normalize(t)))
<1>1. ASSUME NEW u \in Seq(C)
      PROVE  LET X == Reverse(Labels(Normalize(u)))
             IN  /\ X \in Seq(Seq(C)) /\ ReverseDomain(u) = Dotted(X)
                 /\ \A i \in 1 .. Len(X) : \A j \in 1 .. Len(X[i]) : X[i][j] # Dot
  <2> DEFINE Y == Labels(Normalize(u))
             N == Len(Y)
             X == Reverse(Y)
             T == Seq(C)
  <2>1. Normalize(u) \in Seq(C) BY NormalizeKeeps
  <2>2. Y \in Seq(T) /\ \A i \in 1 .. N : \A j \in 1 .. Len(Y[i]) : Y[i][j] # Dot
    <3> HIDE DEF Y
    <3>1. Labels(Normalize(u)) \in Seq(Seq(C))
          /\ \A i \in 1 .. Len(Labels(Normalize(u))) : \A j \in 1 .. Len(Labels(Normalize(u))[i]) :
               Labels(Normalize(u))[i][j] # Dot BY <2>1, LabelsHaveNoDot
    <3> QED BY <3>1 DEF Y
  <2>3. ReverseDomain(u) = Dotted(X) BY DEF ReverseDomain, Dotted
  <2> HIDE DEF T, Y
  <2>4. X = [i \in 1 .. N |-> Y[(N - i) + 1]] BY DEF Reverse
  <2>5. N \in Nat /\ \A i \in 1 .. N : (N - i) + 1 \in 1 .. N BY <2>2
  <2> HIDE DEF X
  <2>6. X \in Seq(T) /\ Len(X) = N
    <3>1. \A i \in 1 .. N : Y[i] \in T BY <2>2
    <3> HIDE DEF N
    <3>2. X \in [1 .. N -> T] BY <3>1, <2>4, <2>5
    <3> QED BY <3>2, <2>5
  <2>7. \A i \in 1 .. N : X[i] = Y[(N - i) + 1] BY <2>4
  <2>8. \A i \in 1 .. Len(X) : \A j \in 1 .. Len(X[i]) : X[i][j] # Dot
    <3> SUFFICES ASSUME NEW i \in 1 .. N, NEW j \in 1 .. Len(X[i]) PROVE X[i][j] # Dot BY <2>6
    <3> DEFINE k == (N - i) + 1
    <3>1. X[i] = Y[k] /\ k \in 1 .. N BY <2>5, <2>7
    <3> HIDE DEF k, N
    <3>2. j \in 1 .. Len(Y[k]) BY <3>1
    <3>3. Y[k][j] # Dot BY <2>2, <3>1, <3>2
    <3> QED BY <3>1, <3>3
  <2> QED BY <2>3, <2>6, <2>8 DEF X, Y, T
<1> DEFINE X == Reverse(Labels(Normalize(s)))
           Y == Reverse(Labels(Normalize(t)))
<1>2. /\ X \in Seq(Seq(C)) /\ ReverseDomain(s) = Dotted(X)
      /\ \A i \in 1 .. Len(X) : \A j \in 1 .. Len(X[i]) : X[i][j] # Dot BY <1>1
<1>3. /\ Y \in Seq(Seq(C)) /\ ReverseDomain(t) = Dotted(Y)
      /\ \A i \in 1 .. Len(Y) : \A j \in 1 .. Len(Y[i]) : Y[i][j] # Dot BY <1>1
<1> HIDE DEF X, Y
<1>4. IsPrefix(Dotted(X), Dotted(Y)) <=> IsPrefix(X, Y) BY <1>2, <1>3, PrefixOfLabels
<1> QED BY <1>2, <1>3, <1>4 DEF IsSuffix, X, Y

\* The domain set finds the tags of the lines that cover a name, and no others
\* (DomainSet.lookup, load_tag_files).
LEMMA TagsOfName ==
  ASSUME NEW files, NEW qname \in Seq(Char),
         \A tag \in DOMAIN files : \A line \in files[tag] : line \in Seq(Char)
  PROVE  DomainTags(files, qname) = CoveringTags(files, qname)
<1> DEFINE C == Char \cup {Dot}
           Covers(line) == IsSuffix(Labels(Normalize(Normalize(line))), Labels(Normalize(qname)))
           entry(line, tag) == [key |-> ReverseDomain(Normalize(line)), tag |-> tag]
<1>1. Dot \in C /\ qname \in Seq(C) /\ \A tag \in DOMAIN files : \A line \in files[tag] : line \in Seq(C)
  OBVIOUS
<1> HIDE DEF C
<1>2. ASSUME NEW tag \in DOMAIN files, NEW line \in files[tag]
      PROVE  IsPrefix(ReverseDomain(Normalize(line)), ReverseDomain(qname)) <=> Covers(line)
  <2>1. Normalize(line) \in Seq(C) BY <1>1, NormalizeKeeps
  <2> QED BY <2>1, <1>1, KeyMatches
<1> HIDE DEF Covers
<1>3. DomainEntries(files) = UNION {{entry(line, tag) : line \in files[tag]} : tag \in DOMAIN files}
  BY DEF DomainEntries
<1>4. CoveringTags(files, qname) = {tag \in DOMAIN files : \E line \in files[tag] : Covers(line)}
  BY DEF CoveringTags, Covers
<1>5. ASSUME NEW tag \in DomainTags(files, qname) PROVE tag \in CoveringTags(files, qname)
  <2>1. PICK x \in DomainEntries(files) : tag = x.tag /\ IsPrefix(x.key, ReverseDomain(qname))
    BY DEF DomainTags
  <2>2. PICK other \in DOMAIN files : \E line \in files[other] : x = entry(line, other) BY <1>3
  <2> PICK line \in files[other] : x = entry(line, other) BY <2>2
  <2>3. x.tag = other /\ x.key = ReverseDomain(Normalize(line)) BY <2>2
  <2>4. Covers(line) BY <2>1, <2>3, <1>2
  <2> QED BY <2>1, <2>3, <2>4, <1>4
<1>6. ASSUME NEW tag \in CoveringTags(files, qname) PROVE tag \in DomainTags(files, qname)
  <2>1. PICK line \in files[tag] : tag \in DOMAIN files /\ Covers(line) BY <1>4
  <2> DEFINE x == entry(line, tag)
  <2>2. x.tag = tag /\ x.key = ReverseDomain(Normalize(line)) OBVIOUS
  <2>3. x \in DomainEntries(files) BY <2>1, <1>3
  <2> HIDE DEF x
  <2>4. IsPrefix(x.key, ReverseDomain(qname)) BY <2>1, <2>2, <1>2
  <2> QED BY <2>2, <2>3, <2>4 DEF DomainTags
<1> QED BY <1>5, <1>6

-----------------------------------------------------------------------------
(***************************************************************************)
(* Configurations                                                          *)
(***************************************************************************)
\* Groups that refer to each other: there is a cycle among them.
Cyclic(adjacency, S) ==
  S # {} /\ S \subseteq DOMAIN adjacency /\ \A n \in S : \E m \in S : m \in Range(adjacency[n])

\* What the search has found is right: a cycle that is there, or groups with all
\* that they refer to and no cycle among them.
Sound(adjacency, found) ==
  IF found.cycle THEN \E S : Cyclic(adjacency, S)
  ELSE /\ \A n \in found.visited : Range(adjacency[n]) \subseteq found.visited
       /\ \A S \in SUBSET found.visited : ~Cyclic(adjacency, S)

\* The groups being visited lead to each other or to the group of the call.
OnPath(adjacency, call) ==
  \A n \in call.visiting : \E m \in call.visiting \cup {call.group} : m \in Range(adjacency[n])

\* A call's result is right and, without a cycle, has the group among those visited.
Searches(adjacency, call, result) ==
  /\ call.found.cycle => result.cycle
  /\ OnPath(adjacency, call) /\ Sound(adjacency, call.found) =>
       /\ Sound(adjacency, result)
       /\ ~result.cycle => call.found.visited \cup {call.group} \subseteq result.visited

AreReferences(adjacency) ==
  IsFiniteSet(DOMAIN adjacency) /\ \A n \in DOMAIN adjacency : adjacency[n] \in Seq(DOMAIN adjacency)

\* One call of the search returns findings, whatever the nested calls return.
LEMMA VisitFinds ==
  ASSUME NEW adjacency, AreReferences(adjacency),
         NEW nested \in [Calls(DOMAIN adjacency) -> Findings(DOMAIN adjacency)],
         NEW call \in Calls(DOMAIN adjacency)
  PROVE  Visit(adjacency, nested, call) \in Findings(DOMAIN adjacency)
<1> DEFINE names == DOMAIN adjacency
           step == [x \in Findings(names) \X names |->
                      nested[[group |-> x[2], visiting |-> call.visiting \cup {call.group}, found |-> x[1]]]]
           after == Folded(step, call.found, adjacency[call.group])
<1>1. call.group \in names /\ call.visiting \in SUBSET names /\ call.found \in Findings(names) BY DEF Calls
<1>2. adjacency[call.group] \in Seq(names) BY <1>1 DEF AreReferences
<1>3. Visit(adjacency, nested, call) =
        IF call.found.cycle THEN call.found
        ELSE IF call.group \in call.visiting THEN [call.found EXCEPT !.cycle = TRUE]
        ELSE IF call.group \in call.found.visited THEN call.found
        ELSE [after EXCEPT !.visited = @ \cup {call.group}] BY DEF Visit
<1> HIDE DEF names
<1>4. step \in [Findings(names) \X names -> Findings(names)]
  <2>1. \A x \in Findings(names) \X names :
          [group |-> x[2], visiting |-> call.visiting \cup {call.group}, found |-> x[1]] \in Calls(names)
    BY <1>1 DEF Calls
  <2> QED BY <2>1 DEF names
<1> HIDE DEF step
<1>5. PICK f : FoldedTrace(f, Findings(names), step, call.found, adjacency[call.group])
  BY <1>1, <1>2, <1>4, FoldedLoop
<1>6. after \in Findings(names)
  <2>1. Len(adjacency[call.group]) \in 0 .. Len(adjacency[call.group]) BY <1>2
  <2> QED BY <2>1, <1>5 DEF FoldedTrace
<1> HIDE DEF after
<1>7. [after EXCEPT !.visited = @ \cup {call.group}] \in Findings(names) BY <1>1, <1>6 DEF Findings
<1>8. [call.found EXCEPT !.cycle = TRUE] \in Findings(names) BY <1>1 DEF Findings
<1> QED BY <1>1, <1>3, <1>7, <1>8 DEF names

\* One call of the search is right where the nested calls are.
LEMMA VisitSearches ==
  ASSUME NEW adjacency, AreReferences(adjacency),
         NEW nested \in [Calls(DOMAIN adjacency) -> Findings(DOMAIN adjacency)],
         NEW call \in Calls(DOMAIN adjacency),
         call.group \notin call.visiting =>
           \A x \in Calls(DOMAIN adjacency) :
             x.visiting = call.visiting \cup {call.group} => Searches(adjacency, x, nested[x])
  PROVE  Searches(adjacency, call, Visit(adjacency, nested, call))
<1> DEFINE names == DOMAIN adjacency
           targets == adjacency[call.group]
           step == [x \in Findings(names) \X names |->
                      nested[[group |-> x[2], visiting |-> call.visiting \cup {call.group}, found |-> x[1]]]]
           after == Folded(step, call.found, targets)
           result == Visit(adjacency, nested, call)
<1>1. call.group \in names /\ call.visiting \in SUBSET names /\ call.found \in Findings(names) BY DEF Calls
<1>2. targets \in Seq(names) BY <1>1 DEF AreReferences
<1>3. result =
        IF call.found.cycle THEN call.found
        ELSE IF call.group \in call.visiting THEN [call.found EXCEPT !.cycle = TRUE]
        ELSE IF call.group \in call.found.visited THEN call.found
        ELSE [after EXCEPT !.visited = @ \cup {call.group}] BY DEF Visit
<1>b. call.found.cycle => result.cycle BY <1>3
<1> SUFFICES ASSUME OnPath(adjacency, call), Sound(adjacency, call.found)
             PROVE  /\ Sound(adjacency, result)
                    /\ ~result.cycle => call.found.visited \cup {call.group} \subseteq result.visited
  BY <1>b DEF Searches
<1>a. Range(targets) \subseteq names /\ DOMAIN targets = 1 .. Len(targets) /\ Len(targets) \in Nat
      /\ \A i \in 1 .. Len(targets) : targets[i] \in names BY <1>2 DEF Range
<1> HIDE DEF names, result
<1>4. CASE call.found.cycle BY <1>4, <1>3
<1>5. CASE ~call.found.cycle /\ call.group \in call.visiting
  <2>1. result = [call.found EXCEPT !.cycle = TRUE] BY <1>3, <1>5
  <2>2. result.cycle = TRUE BY <2>1, <1>1 DEF Findings
  <2>3. Cyclic(adjacency, call.visiting)
    <3>1. call.visiting \cup {call.group} = call.visiting BY <1>5
    <3> QED BY <3>1, <1>1, <1>5 DEF Cyclic, OnPath, names
  <2> QED BY <2>2, <2>3 DEF Sound
<1>6. CASE ~call.found.cycle /\ call.group \notin call.visiting /\ call.group \in call.found.visited
  <2>1. result = call.found BY <1>3, <1>6
  <2> QED BY <2>1, <1>6
<1>7. CASE ~call.found.cycle /\ call.group \notin call.visiting /\ call.group \notin call.found.visited
  <2>1. result = [after EXCEPT !.visited = @ \cup {call.group}] BY <1>3, <1>7
  <2> DEFINE deeper(x, found) == [group |-> x, visiting |-> call.visiting \cup {call.group}, found |-> found]
  <2>2. \A x \in names, found \in Findings(names) : deeper(x, found) \in Calls(names)
    BY <1>1 DEF Calls
  <2>3. step \in [Findings(names) \X names -> Findings(names)]
    <3>1. \A x \in Findings(names) \X names : deeper(x[2], x[1]) \in Calls(names) BY <2>2
    <3> QED BY <3>1 DEF names
  <2>4. \A x \in names, found \in Findings(names) : step[<<found, x>>] = nested[deeper(x, found)] OBVIOUS
  <2>5. \A x \in names, found \in Findings(names) : Searches(adjacency, deeper(x, found), nested[deeper(x, found)])
    <3> SUFFICES ASSUME NEW x \in names, NEW found \in Findings(names)
                 PROVE  Searches(adjacency, deeper(x, found), nested[deeper(x, found)])
      OBVIOUS
    <3>1. deeper(x, found) \in Calls(names) /\ deeper(x, found).visiting = call.visiting \cup {call.group}
      BY <2>2
    <3> HIDE DEF deeper
    <3> QED BY <3>1, <1>7 DEF names
  <2>6. \A x \in Range(targets), found \in Findings(names) : OnPath(adjacency, deeper(x, found))
    <3> SUFFICES ASSUME NEW x \in Range(targets), NEW found \in Findings(names),
                        NEW n \in call.visiting \cup {call.group}
                 PROVE  \E m \in call.visiting \cup {call.group} \cup {x} : m \in Range(adjacency[n])
      BY DEF OnPath
    <3>1. CASE n = call.group BY <3>1
    <3>2. CASE n \in call.visiting BY <3>2 DEF OnPath
    <3> QED BY <3>1, <3>2
  <2> HIDE DEF step
  <2>7. PICK f : FoldedTrace(f, Findings(names), step, call.found, targets)
    BY <1>1, <1>2, <2>3, FoldedLoop
  <2>8. /\ f \in [0 .. Len(targets) -> Findings(names)] /\ f[0] = call.found /\ after = f[Len(targets)]
        /\ \A i \in 1 .. Len(targets) : f[i] = step[<<f[i - 1], targets[i]>>] BY <2>7 DEF FoldedTrace
  <2> HIDE DEF after, targets
  <2> DEFINE N == Len(targets)
             Right(i) == /\ Sound(adjacency, f[i])
                         /\ ~f[i].cycle => /\ call.found.visited \subseteq f[i].visited
                                           /\ \A j \in 1 .. i : targets[j] \in f[i].visited
             G == {i \in 0 .. N : Right(i)}
  <2>9. 0 \in G
    <3>1. Right(0) BY <2>8
    <3> QED BY <3>1, <1>a
  <2>10. ASSUME NEW i \in 1 .. N, i - 1 \in G PROVE i \in G
    <3> DEFINE x == targets[i]
               found == f[i - 1]
               next == f[i]
    <3>1. i \in Nat /\ i - 1 \in 0 .. N /\ i \in 0 .. N BY <1>a
    <3>2. x \in names /\ x \in Range(targets) /\ found \in Findings(names) BY <3>1, <2>8, <1>a DEF Range
    <3>3. next = nested[deeper(x, found)] BY <3>2, <2>4, <2>8
    <3>4. Right(i - 1) BY <2>10
    <3>5. /\ deeper(x, found).found = found /\ deeper(x, found).group = x OBVIOUS
    <3>6. OnPath(adjacency, deeper(x, found)) BY <3>2, <2>6
    <3>7. Searches(adjacency, deeper(x, found), next) BY <3>2, <3>3, <2>5
    <3> HIDE DEF deeper
    <3>8. Sound(adjacency, next) /\ (~next.cycle => found.visited \cup {x} \subseteq next.visited)
      BY <3>4, <3>5, <3>6, <3>7 DEF Searches
    <3>9. ~next.cycle => ~found.cycle BY <3>5, <3>7 DEF Searches
    <3>10. Right(i)
      <4>1. \A j \in 1 .. i : j = i \/ j \in 1 .. i - 1 BY <3>1
      <4> HIDE DEF next, found
      <4> QED BY <4>1, <3>4, <3>8, <3>9 DEF next, found
    <3> QED BY <3>1, <3>10
  <2>11. Right(N)
    <3>1. N \in 0 .. N /\ N \in Nat /\ 0 \in 0 .. N BY <1>a
    <3> HIDE DEF G, N
    <3>2. \A i \in 0 .. N : i \in G BY <3>1, <2>9, <2>10, UpTo
    <3> QED BY <3>1, <3>2 DEF G
  <2>12. /\ Sound(adjacency, after) /\ after \in Findings(names)
         /\ ~after.cycle => call.found.visited \subseteq after.visited /\ Range(targets) \subseteq after.visited
    <3>1. N \in 0 .. N BY <1>a
    <3>2. after = f[N] /\ f[N] \in Findings(names) BY <3>1, <2>8
    <3>3. \A x \in Range(targets) : \E j \in 1 .. N : x = targets[j] BY <1>a DEF Range
    <3> QED BY <3>2, <3>3, <2>11
  <2>13. /\ result.cycle = after.cycle /\ result.visited = after.visited \cup {call.group}
         /\ after.visited \subseteq names BY <2>1, <2>12 DEF Findings
  <2>14. CASE after.cycle BY <2>12, <2>13, <2>14 DEF Sound
  <2>15. CASE ~after.cycle
    <3>1. /\ \A n \in after.visited : Range(adjacency[n]) \subseteq after.visited
          /\ \A S \in SUBSET after.visited : ~Cyclic(adjacency, S) BY <2>12, <2>15 DEF Sound
    <3>2. Range(adjacency[call.group]) \subseteq after.visited BY <2>12, <2>15 DEF targets
    <3>3. ASSUME NEW S \in SUBSET result.visited, Cyclic(adjacency, S) PROVE FALSE
      <4> DEFINE inner == S \cap after.visited
      <4>1. \A n \in S : \E m \in S : m \in Range(adjacency[n]) /\ m \in after.visited
        <5> SUFFICES ASSUME NEW n \in S PROVE \E m \in S : m \in Range(adjacency[n]) /\ m \in after.visited
          OBVIOUS
        <5>1. PICK m \in S : m \in Range(adjacency[n]) BY <3>3 DEF Cyclic
        <5>2. n \in after.visited \/ n = call.group BY <2>13
        <5> QED BY <5>1, <5>2, <3>1, <3>2
      <4>2. S # {} BY <3>3 DEF Cyclic
      <4>3. inner # {} /\ \A n \in inner : \E m \in inner : m \in Range(adjacency[n]) BY <4>1, <4>2
      <4>4. inner \subseteq DOMAIN adjacency BY <2>13 DEF names
      <4>5. Cyclic(adjacency, inner) BY <4>3, <4>4 DEF Cyclic
      <4> QED BY <4>5, <3>1
    <3>4. \A n \in result.visited : Range(adjacency[n]) \subseteq result.visited BY <2>13, <3>1, <3>2
    <3>5. Sound(adjacency, result) BY <2>13, <2>15, <3>3, <3>4 DEF Sound
    <3> QED BY <3>5, <2>12, <2>13, <2>15
  <2> QED BY <2>14, <2>15
<1> QED BY <1>4, <1>5, <1>6, <1>7

\* The search from a group while none is being visited is right.
LEMMA DfsSearches ==
  ASSUME NEW adjacency, AreReferences(adjacency)
  PROVE  /\ Dfs(adjacency) \in [Calls(DOMAIN adjacency) -> Findings(DOMAIN adjacency)]
         /\ \A call \in Calls(DOMAIN adjacency) :
              call.visiting = {} => Searches(adjacency, call, Dfs(adjacency)[call])
<1> DEFINE names == DOMAIN adjacency
           N == Cardinality(names)
           C == Calls(names)
           T == [C -> Findings(names)]
           base == [call \in C |-> [call.found EXCEPT !.cycle = TRUE]]
           next(nested) == [call \in C |-> Visit(adjacency, nested, call)]
           step == [x \in (1 .. N) \X T |-> next(x[2])]
           W(g) == g = [depth \in 0 .. N |->
                          [call \in C |-> IF depth = 0 THEN [call.found EXCEPT !.cycle = TRUE]
                                          ELSE Visit(adjacency, g[depth - 1], call)]]
           dfs == CHOOSE g : W(g)
<1>1. IsFiniteSet(names) /\ N \in Nat BY FS_CardinalityType DEF AreReferences
<1>2. Dfs(adjacency) = dfs[N] BY DEF Dfs
<1>3. \A call \in C : call.group \in names /\ call.visiting \in SUBSET names /\ call.found \in Findings(names)
  BY DEF Calls
<1>4. \A nested \in T, call \in C : Visit(adjacency, nested, call) \in Findings(names) BY VisitFinds
<1>5. \A nested \in T, call \in C :
        (call.group \notin call.visiting =>
           \A x \in C : x.visiting = call.visiting \cup {call.group} => Searches(adjacency, x, nested[x]))
        => Searches(adjacency, call, Visit(adjacency, nested, call)) BY VisitSearches
<1> HIDE DEF C, names, N
<1>6. base \in T
  <2>1. \A call \in C : [call.found EXCEPT !.cycle = TRUE] \in Findings(names) BY <1>3 DEF Findings
  <2> QED BY <2>1
<1>7. \A nested \in T : next(nested) \in T BY <1>4
<1> HIDE DEF T, next, base
<1>8. StepsIn(step, N, T) BY <1>7 DEF StepsIn
<1>9. PICK f : TraceOf(f, step, N, T, base)
  <2> HIDE DEF step
  <2> QED BY <1>1, <1>6, <1>8, Loop
<1>10. f \in [0 .. N -> T] /\ f[0] = base /\ \A d \in 1 .. N : f[d] = step[<<d, f[d - 1]>>]
  BY <1>9 DEF TraceOf
<1>11. \A d \in 0 .. N : d # 0 => d \in 1 .. N /\ d - 1 \in 0 .. N BY <1>1
<1>12. \A d \in 0 .. N : d # 0 => f[d] = next(f[d - 1])
  <2> SUFFICES ASSUME NEW d \in 0 .. N, d # 0 PROVE f[d] = next(f[d - 1]) OBVIOUS
  <2>1. d \in 1 .. N /\ f[d - 1] \in T BY <1>10, <1>11
  <2> QED BY <2>1, <1>10
<1>13. W(f)
  <2>1. \A d \in 0 .. N :
          f[d] = [call \in C |-> IF d = 0 THEN [call.found EXCEPT !.cycle = TRUE]
                                 ELSE Visit(adjacency, f[d - 1], call)]
    BY <1>10, <1>12 DEF base, next
  <2>2. f = [d \in 0 .. N |-> f[d]] BY <1>10
  <2> QED BY <2>1, <2>2
<1>14. W(dfs)
  <2> HIDE DEF W
  <2> QED BY <1>13
<1> HIDE DEF dfs
<1>15. \A d \in 0 .. N :
         dfs[d] = [call \in C |-> IF d = 0 THEN [call.found EXCEPT !.cycle = TRUE]
                                  ELSE Visit(adjacency, dfs[d - 1], call)] BY <1>14
<1>16. \A d \in 0 .. N : dfs[d] = IF d = 0 THEN base ELSE next(dfs[d - 1]) BY <1>15 DEF base, next
<1> DEFINE Right(d) == \A call \in C : Cardinality(names \ call.visiting) <= d =>
                         Searches(adjacency, call, dfs[d][call])
           G == {d \in 0 .. N : dfs[d] \in T /\ Right(d)}
<1>17. 0 \in G
  <2>1. 0 \in 0 .. N BY <1>1
  <2>2. dfs[0] = base BY <2>1, <1>16
  <2>3. ASSUME NEW call \in C, Cardinality(names \ call.visiting) <= 0
        PROVE  Searches(adjacency, call, dfs[0][call])
    <3>1. names \ call.visiting = {}
      <4>1. IsFiniteSet(names \ call.visiting) BY <1>1, FS_Difference
      <4>2. Cardinality(names \ call.visiting) \in Nat BY <4>1, FS_CardinalityType
      <4> QED BY <4>1, <4>2, <2>3, FS_EmptySet
    <3>2. call.group \in call.visiting BY <3>1, <1>3
    <3>3. dfs[0][call] = [call.found EXCEPT !.cycle = TRUE] BY <2>2 DEF base
    <3>4. dfs[0][call].cycle BY <3>3, <1>3 DEF Findings
    <3>5. ASSUME OnPath(adjacency, call) PROVE Cyclic(adjacency, call.visiting)
      <4>1. call.visiting \cup {call.group} = call.visiting BY <3>2
      <4> QED BY <4>1, <3>2, <3>5, <1>3 DEF Cyclic, OnPath, names
    <3> QED BY <3>4, <3>5 DEF Searches, Sound
  <2>4. Right(0) BY <2>3
  <2> QED BY <2>1, <2>2, <2>4, <1>6
<1>18. ASSUME NEW d \in 1 .. N, d - 1 \in G PROVE d \in G
  <2>1. d \in 0 .. N /\ d # 0 /\ d \in Nat BY <1>1
  <2>2. dfs[d] = next(dfs[d - 1]) /\ dfs[d - 1] \in T BY <2>1, <1>16, <1>18
  <2>3. dfs[d] \in T BY <2>2, <1>7
  <2>4. ASSUME NEW call \in C, Cardinality(names \ call.visiting) <= d
        PROVE  Searches(adjacency, call, dfs[d][call])
    <3>1. dfs[d][call] = Visit(adjacency, dfs[d - 1], call) BY <2>2 DEF next
    <3>2. ASSUME call.group \notin call.visiting, NEW x \in C, x.visiting = call.visiting \cup {call.group}
          PROVE  Searches(adjacency, x, dfs[d - 1][x])
      <4> DEFINE out == names \ call.visiting
      <4>1. IsFiniteSet(out) /\ Cardinality(out) \in Nat BY <1>1, FS_Difference, FS_CardinalityType
      <4>2. call.group \in out /\ names \ x.visiting = out \ {call.group} BY <3>2, <1>3
      <4> HIDE DEF out
      <4>3. Cardinality(names \ x.visiting) = Cardinality(out) - 1 BY <4>1, <4>2, FS_RemoveElement
      <4>4. Cardinality(names \ x.visiting) <= d - 1 BY <4>1, <4>3, <2>1, <2>4 DEF out
      <4> QED BY <4>4, <1>18
    <3> QED BY <3>1, <3>2, <2>2, <1>5 DEF T
  <2>5. Right(d) BY <2>4
  <2> QED BY <2>1, <2>3, <2>5
<1>19. N \in G
  <2>1. N \in 0 .. N BY <1>1
  <2> HIDE DEF G
  <2> QED BY <2>1, <1>1, <1>17, <1>18, UpTo
<1>20. dfs[N] \in T /\ Right(N) BY <1>19
<1>21. ASSUME NEW call \in C, call.visiting = {} PROVE Searches(adjacency, call, dfs[N][call])
  <2>1. names \ call.visiting = names /\ N <= N BY <1>21, <1>1
  <2> QED BY <2>1, <1>20 DEF N
<1> QED BY <1>2, <1>20, <1>21 DEF T, C, names

\* A group refers to those of its targets that are groups.
LEMMA AdjacencyIs ==
  ASSUME NEW groups, groups \in Seq(Range(groups)),
         \A g \in Range(groups) : g.targets \in Seq(Range(g.targets))
  PROVE  /\ AreReferences(Adjacency(groups)) /\ DOMAIN Adjacency(groups) = NamesOf(groups)
         /\ UniqueNames(groups) => \A g \in Range(groups) :
              Range(Adjacency(groups)[g.name]) = Range(g.targets) \cap NamesOf(groups)
<1> DEFINE names == NamesOf(groups)
           N == Len(groups)
           I(name) == {i \in 1 .. N : groups[i].name = name}
           last(name) == IF I(name) # {} THEN Max(I(name)) ELSE 0
           targets(name) == groups[last(name)].targets
           good(name) == {i \in DOMAIN targets(name) : targets(name)[i] \in names}
<1>1. N \in Nat /\ DOMAIN groups = 1 .. N /\ \A i \in 1 .. N : groups[i] \in Range(groups) BY DEF Range
<1>2. Adjacency(groups) = [name \in names |-> Kept(targets(name), good(name))]
  BY DEF Adjacency, SelectLastInSeq
<1>3. \A name \in names : last(name) \in 1 .. N /\ groups[last(name)].name = name
  <2> SUFFICES ASSUME NEW name \in names
               PROVE  last(name) \in 1 .. N /\ groups[last(name)].name = name
    OBVIOUS
  <2> DEFINE J == I(name)
  <2>1. J # {} /\ J \subseteq 1 .. N BY <1>1 DEF NamesOf
  <2>2. Max(J) \in J
    <3> HIDE DEF J, N
    <3> QED BY <2>1, <1>1, MaxOf
  <2>3. last(name) = Max(J) BY <2>1
  <2> HIDE DEF last
  <2> QED BY <2>2, <2>3
<1> HIDE DEF last, I
<1>4. \A name \in names : targets(name) \in Seq(Range(targets(name))) BY <1>1, <1>3
<1>5. names = {groups[i].name : i \in 1 .. N} BY <1>1 DEF NamesOf
<1> HIDE DEF targets, names
<1>6. \A name \in names : /\ Kept(targets(name), good(name)) \in Seq(Range(targets(name)))
                          /\ Range(Kept(targets(name), good(name))) = Range(targets(name)) \cap names
  <2> SUFFICES ASSUME NEW name \in names
               PROVE  /\ Kept(targets(name), good(name)) \in Seq(Range(targets(name)))
                      /\ Range(Kept(targets(name), good(name))) = Range(targets(name)) \cap names
    OBVIOUS
  <2> DEFINE t == targets(name)
             J == good(name)
  <2>1. t \in Seq(Range(t)) BY <1>4
  <2>2. J \cap DOMAIN t = J /\ {t[i] : i \in J} = Range(t) \cap names BY DEF Range
  <2> HIDE DEF t, J
  <2>3. Kept(t, J) \in Seq(Range(t)) /\ Range(Kept(t, J)) = {t[i] : i \in J \cap DOMAIN t} BY <2>1, KeptRange
  <2> QED BY <2>2, <2>3 DEF t, J
<1> DEFINE adjacency == Adjacency(groups)
<1>7. DOMAIN adjacency = names /\ \A name \in names : adjacency[name] = Kept(targets(name), good(name)) BY <1>2
<1> HIDE DEF adjacency, good
<1>8. \A name \in names : adjacency[name] \in Seq(names)
  <2> SUFFICES ASSUME NEW name \in names PROVE adjacency[name] \in Seq(names) OBVIOUS
  <2> DEFINE k == adjacency[name]
  <2>1. k \in Seq(Range(targets(name))) /\ Range(k) \subseteq names BY <1>6, <1>7
  <2> HIDE DEF k
  <2>2. Len(k) \in Nat /\ DOMAIN k = 1 .. Len(k) BY <2>1
  <2>3. k = [i \in 1 .. Len(k) |-> k[i]] BY <2>1
  <2>4. \A i \in 1 .. Len(k) : k[i] \in names BY <2>1, <2>2 DEF Range
  <2> QED BY <2>2, <2>3, <2>4 DEF k
<1>9. IsFiniteSet(names)
  <2> DEFINE f == [i \in 1 .. N |-> groups[i].name]
  <2>1. IsFiniteSet(1 .. N) BY <1>1, FS_Interval
  <2>2. f \in Surjection(1 .. N, names)
    <3>1. f \in [1 .. N -> names] BY <1>5
    <3>2. \A x \in names : \E i \in 1 .. N : f[i] = x BY <1>5
    <3> QED BY <3>1, <3>2 DEF Surjection
  <2> HIDE DEF N, f
  <2> QED BY <2>1, <2>2, FS_Surjection
<1>10. UniqueNames(groups) => \A g \in Range(groups) : Range(adjacency[g.name]) = Range(g.targets) \cap names
  <2> SUFFICES ASSUME UniqueNames(groups), NEW i \in 1 .. N
               PROVE  Range(adjacency[groups[i].name]) = Range(groups[i].targets) \cap names
    <3>1. \A g \in Range(groups) : \E i \in 1 .. N : g = groups[i] BY <1>1 DEF Range
    <3> HIDE DEF adjacency, N
    <3> QED BY <3>1
  <2> DEFINE name == groups[i].name
  <2>1. name \in names BY <1>5
  <2>2. last(name) = i BY <2>1, <1>1, <1>3 DEF UniqueNames
  <2>3. targets(name) = groups[i].targets BY <2>2 DEF targets
  <2> HIDE DEF name
  <2> QED BY <2>1, <2>3, <1>6, <1>7 DEF name
<1> QED BY <1>7, <1>8, <1>9, <1>10 DEF adjacency, names, AreReferences

\* The depth-first search over all groups finds a cycle exactly when there is one
\* (_validate_group_cycles).
LEMMA CycleFound ==
  ASSUME NEW groups, groups \in Seq(Range(groups)),
         \A g \in Range(groups) : g.targets \in Seq(Range(g.targets))
  PROVE  HasCycle(groups) <=> \E S : Cyclic(Adjacency(groups), S)
<1> DEFINE names == NamesOf(groups)
           adjacency == Adjacency(groups)
           N == Len(groups)
           dfs == Dfs(adjacency)
           start == [visited |-> {}, cycle |-> FALSE]
           call(x) == [group |-> x[2].name, visiting |-> {}, found |-> x[1]]
           step == [x \in Findings(names) \X Range(groups) |-> dfs[call(x)]]
<1>1. N \in Nat /\ DOMAIN groups = 1 .. N /\ \A i \in 1 .. N : groups[i] \in Range(groups) BY DEF Range
<1>2. names = {groups[i].name : i \in 1 .. N} BY <1>1 DEF NamesOf
<1>3. AreReferences(adjacency) /\ DOMAIN adjacency = names BY AdjacencyIs
<1>4. HasCycle(groups) <=> Folded(step, start, groups).cycle BY DEF HasCycle, Searched
<1> HIDE DEF adjacency, names, dfs
<1>5. /\ dfs \in [Calls(names) -> Findings(names)]
      /\ \A x \in Calls(names) : x.visiting = {} => Searches(adjacency, x, dfs[x]) BY <1>3, DfsSearches DEF dfs
<1>6. \A x \in Findings(names) \X Range(groups) : call(x) \in Calls(names) /\ call(x).visiting = {}
  <2> SUFFICES ASSUME NEW x \in Findings(names) \X Range(groups)
               PROVE  call(x) \in Calls(names) /\ call(x).visiting = {} OBVIOUS
  <2>1. x[1] \in Findings(names) /\ x[2] \in Range(groups) OBVIOUS
  <2>2. x[2].name \in names BY <2>1, <1>1, <1>2 DEF Range
  <2> QED BY <2>1, <2>2 DEF Calls
<1>7. step \in [Findings(names) \X Range(groups) -> Findings(names)] BY <1>5, <1>6
<1>8. start \in Findings(names) BY DEF Findings
<1>9. Sound(adjacency, start) BY DEF Sound, Cyclic
<1>10. \A found \in Findings(names), g \in Range(groups) :
         /\ step[<<found, g>>] = dfs[call(<<found, g>>)]
         /\ Searches(adjacency, call(<<found, g>>), step[<<found, g>>])
  <2> SUFFICES ASSUME NEW found \in Findings(names), NEW g \in Range(groups)
               PROVE  /\ step[<<found, g>>] = dfs[call(<<found, g>>)]
                      /\ Searches(adjacency, call(<<found, g>>), step[<<found, g>>])
    OBVIOUS
  <2> DEFINE x == <<found, g>>
  <2>1. x \in Findings(names) \X Range(groups) OBVIOUS
  <2> HIDE DEF x
  <2>2. step[x] = dfs[call(x)] BY <2>1
  <2>3. call(x) \in Calls(names) /\ call(x).visiting = {} BY <2>1, <1>6
  <2> HIDE DEF call, step
  <2> QED BY <2>2, <2>3, <1>5 DEF x
<1> HIDE DEF step, start
<1>11. PICK f : FoldedTrace(f, Findings(names), step, start, groups) BY <1>7, <1>8, FoldedLoop
<1>12. /\ f \in [0 .. N -> Findings(names)] /\ f[0] = start /\ Folded(step, start, groups) = f[N]
       /\ \A i \in 1 .. N : f[i] = step[<<f[i - 1], groups[i]>>] BY <1>11 DEF FoldedTrace
<1> DEFINE Right(i) == /\ Sound(adjacency, f[i])
                       /\ ~f[i].cycle => \A j \in 1 .. i : groups[j].name \in f[i].visited
           G == {i \in 0 .. N : Right(i)}
<1>13. 0 \in G
  <2>1. Right(0) BY <1>9, <1>12
  <2> QED BY <2>1, <1>1
<1>14. ASSUME NEW i \in 1 .. N, i - 1 \in G PROVE i \in G
  <2> DEFINE g == groups[i]
             found == f[i - 1]
             next == f[i]
             x == call(<<found, g>>)
  <2>1. i \in Nat /\ i - 1 \in 0 .. N /\ i \in 0 .. N BY <1>1
  <2>2. g \in Range(groups) /\ found \in Findings(names) BY <2>1, <1>1, <1>12
  <2>3. next = step[<<found, g>>] BY <1>12
  <2>4. Searches(adjacency, x, next) BY <2>2, <2>3, <1>10
  <2>5. x.group = g.name /\ x.visiting = {} /\ x.found = found OBVIOUS
  <2>6. Right(i - 1) BY <1>14
  <2> HIDE DEF x
  <2>7. OnPath(adjacency, x) BY <2>5 DEF OnPath
  <2>8. /\ Sound(adjacency, next) /\ (found.cycle => next.cycle)
        /\ ~next.cycle => found.visited \cup {g.name} \subseteq next.visited
    BY <2>4, <2>5, <2>6, <2>7 DEF Searches
  <2>9. \A j \in 1 .. i : j = i \/ j \in 1 .. i - 1 BY <2>1
  <2>10. Right(i) BY <2>6, <2>8, <2>9
  <2> QED BY <2>1, <2>10
<1>15. Right(N) /\ f[N] \in Findings(names)
  <2>1. N \in 0 .. N /\ 0 \in 0 .. N BY <1>1
  <2> HIDE DEF G, N
  <2>2. \A i \in 0 .. N : i \in G BY <2>1, <1>1, <1>13, <1>14, UpTo
  <2> QED BY <2>1, <2>2, <1>12 DEF G
<1>16. CASE f[N].cycle BY <1>4, <1>12, <1>15, <1>16 DEF Sound, adjacency
<1>17. CASE ~f[N].cycle
  <2>1. names \subseteq f[N].visited BY <1>2, <1>15, <1>17
  <2>2. \A S \in SUBSET f[N].visited : ~Cyclic(adjacency, S) BY <1>15, <1>17 DEF Sound
  <2>3. \A S : ~Cyclic(adjacency, S) BY <2>1, <2>2, <1>3 DEF Cyclic
  <2> QED BY <2>3, <1>4, <1>12, <1>17 DEF adjacency
<1> QED BY <1>16, <1>17

\* Where names differ, no cycle means that following references ends.
LEMMA WellFoundedIs ==
  ASSUME NEW groups, groups \in Seq(Range(groups)), UniqueNames(groups),
         \A g \in Range(groups) : g.targets \in Seq(Range(g.targets))
  PROVE  WellFounded(groups) <=> ~HasCycle(groups)
<1> DEFINE names == NamesOf(groups)
           adjacency == Adjacency(groups)
<1>1. HasCycle(groups) <=> \E S : Cyclic(adjacency, S) BY CycleFound
<1>2. DOMAIN adjacency = names
      /\ \A g \in Range(groups) : Range(adjacency[g.name]) = Range(g.targets) \cap names BY AdjacencyIs
<1>3. DOMAIN groups = 1 .. Len(groups) /\ names = {g.name : g \in Range(groups)} BY DEF NamesOf, Range
<1>4. WellFounded(groups) <=>
        \A S \in (SUBSET names) \ {{}} :
          \E n \in S : \A g \in Range(groups) : g.name = n => Range(g.targets) \cap S = {} BY DEF WellFounded
<1> HIDE DEF adjacency, names
<1>5. \A S \in (SUBSET names) \ {{}} :
        Cyclic(adjacency, S) <=> \A n \in S : \E g \in Range(groups) : g.name = n /\ Range(g.targets) \cap S # {}
  <2> SUFFICES ASSUME NEW S \in (SUBSET names) \ {{}}
               PROVE  Cyclic(adjacency, S) <=>
                        \A n \in S : \E g \in Range(groups) : g.name = n /\ Range(g.targets) \cap S # {}
    OBVIOUS
  <2>0. S # {} /\ S \subseteq DOMAIN adjacency BY <1>2
  <2>1. Cyclic(adjacency, S) <=> \A n \in S : \E m \in S : m \in Range(adjacency[n]) BY <2>0 DEF Cyclic
  <2>2. \A g \in Range(groups) :
          Range(g.targets) \cap S # {} <=> \E m \in S : m \in Range(adjacency[g.name]) BY <1>2
  <2>3. \A n \in S : \E g \in Range(groups) : g.name = n BY <1>3
  <2> QED BY <2>1, <2>2, <2>3
<1>6. \A S : Cyclic(adjacency, S) => S \in (SUBSET names) \ {{}}
  <2> SUFFICES ASSUME NEW S, Cyclic(adjacency, S) PROVE S \in (SUBSET names) \ {{}} OBVIOUS
  <2>1. S # {} /\ S \subseteq names BY <1>2 DEF Cyclic
  <2> QED BY <2>1
<1>7. ASSUME WellFounded(groups), NEW S, Cyclic(adjacency, S) PROVE FALSE
  <2>1. S \in (SUBSET names) \ {{}} BY <1>6, <1>7
  <2>2. \A n \in S : \E g \in Range(groups) : g.name = n /\ Range(g.targets) \cap S # {} BY <1>5, <1>7, <2>1
  <2>3. \E n \in S : \A g \in Range(groups) : g.name = n => Range(g.targets) \cap S = {} BY <1>4, <1>7, <2>1
  <2> QED BY <2>2, <2>3
<1>8. ASSUME ~WellFounded(groups) PROVE \E S : Cyclic(adjacency, S)
  <2>1. PICK S \in (SUBSET names) \ {{}} :
          ~\E n \in S : \A g \in Range(groups) : g.name = n => Range(g.targets) \cap S = {} BY <1>4, <1>8
  <2>2. \A n \in S : \E g \in Range(groups) : g.name = n /\ Range(g.targets) \cap S # {} BY <2>1
  <2> QED BY <2>2, <1>5
<1> QED BY <1>1, <1>7, <1>8

\* Whatever the tags, the rules of an accepted configuration lead to one of its
\* groups (RuleEngine.select, validate_references).
LEMMA SelectedIsGroup ==
  ASSUME NEW cfg, Accepted(cfg), cfg.rules \in Seq(Range(cfg.rules)), NEW tags, NEW type
  PROVE  SelectGroup(cfg.rules, cfg.default, tags, type) \in NamesOf(cfg.groups)
<1> DEFINE N == Len(cfg.rules)
           I == {i \in 1 .. N : cfg.rules[i].enabled /\ Matches(cfg.rules[i], tags, type)}
           i == IF I # {} THEN Min(I) ELSE 0
<1>1. N \in Nat /\ DOMAIN cfg.rules = 1 .. N /\ \A j \in 1 .. N : cfg.rules[j] \in Range(cfg.rules) BY DEF Range
<1>2. SelectGroup(cfg.rules, cfg.default, tags, type) =
        IF i = 0 \/ cfg.rules[i].group = "" THEN cfg.default ELSE cfg.rules[i].group
  BY DEF SelectGroup, SelectInSeq
<1>3. I \subseteq 1 .. N /\ I \subseteq Nat OBVIOUS
<1> HIDE DEF I
<1>4. i = 0 \/ i \in 1 .. N
  <2>1. I # {} => Min(I) \in I BY <1>3, MinIs
  <2> QED BY <2>1, <1>3
<1> HIDE DEF i
<1>5. cfg.default \in NamesOf(cfg.groups)
      /\ \A r \in Range(cfg.rules) : r.group # "" => r.group \in NamesOf(cfg.groups) BY DEF Accepted
<1> QED BY <1>1, <1>2, <1>4, <1>5

\* The name made up for a shipped plugin is one that nobody uses: one more number
\* is tried than there are names (_build_unique_name).
LEMMA FreeNameIsFree ==
  ASSUME NEW module, NEW used, IsFiniteSet(used)
  PROVE  \E n \in Nat \ {0} : FreeName(module, used) = <<module, n>> /\ <<module, n>> \notin used
<1> DEFINE c == Cardinality(used)
           Free(n) == <<module, n>> \notin used
           First(n) == Free(n) /\ \A k \in 1 .. n - 1 : ~Free(k)
           G == {n \in 1 .. c + 1 : Free(n)}
<1>1. c \in Nat BY FS_CardinalityType
<1>2. G # {}
  <2> SUFFICES ASSUME \A n \in 1 .. c + 1 : <<module, n>> \in used PROVE FALSE OBVIOUS
  <2> DEFINE f == [n \in 1 .. c + 1 |-> <<module, n>>]
  <2>1. f \in [1 .. c + 1 -> used] OBVIOUS
  <2>2. \A x, y \in 1 .. c + 1 : f[x] = f[y] => x = y OBVIOUS
  <2> HIDE DEF f
  <2>3. 1 \in Int /\ c + 1 \in Int /\ c + 1 - 1 + 1 = c + 1 /\ ~(1 > c + 1) /\ c < c + 1 BY <1>1
  <2>4. IsFiniteSet(1 .. c + 1) /\ Cardinality(1 .. c + 1) = c + 1 BY <2>3, FS_Interval
  <2> QED BY <2>1, <2>2, <2>3, <2>4, FS_PigeonHole
<1>3. PICK n \in G : \A m \in G : n <= m
  <2>1. G \subseteq Nat BY <1>1
  <2> HIDE DEF G
  <2> QED BY <1>2, <2>1, LeastNat
<1>4. n \in 1 .. c + 1 /\ First(n) BY <1>1, <1>3
<1> DEFINE chosen == CHOOSE i \in 1 .. c + 1 : First(i)
<1>5. FreeName(module, used) = <<module, chosen>> BY DEF FreeName
<1>6. chosen \in 1 .. c + 1 /\ First(chosen)
  <2> HIDE DEF First
  <2> QED BY <1>4
<1> HIDE DEF chosen, c
<1>7. chosen \in Nat \ {0} BY <1>1, <1>6
<1> QED BY <1>5, <1>6, <1>7

\* Finitely many names are used.
LEMMA UsedIsFinite ==
  ASSUME NEW S, NEW s \in Seq(S)
  PROVE  IsFiniteSet({p.name : p \in Range(s)})
<1> DEFINE N == Len(s)
           names == {p.name : p \in Range(s)}
           f == [i \in 1 .. N |-> s[i].name]
<1>1. N \in Nat /\ Range(s) = {s[i] : i \in 1 .. N} BY DEF Range
<1>2. names = {s[i].name : i \in 1 .. N} BY <1>1
<1> HIDE DEF N, names
<1>3. f \in [1 .. N -> names] BY <1>2
<1>4. \A x \in names : \E i \in 1 .. N : f[i] = x BY <1>2
<1>5. f \in Surjection(1 .. N, names) BY <1>3, <1>4 DEF Surjection
<1>6. IsFiniteSet(1 .. N) BY <1>1, FS_Interval
<1> HIDE DEF f
<1>7. IsFiniteSet(names) BY <1>5, <1>6, FS_Surjection
<1> QED BY <1>7 DEF names

\* One step of Materialize.
SwitchedOff(list, module) ==
  [name |-> FreeName(module, {p.name : p \in Range(list)}), module |-> module, enabled |-> FALSE]
Completed(list, module) ==
  IF \E p \in Range(list) : p.module = module THEN list ELSE Append(list, SwitchedOff(list, module))

\* What it adds is a plugin with a name of its own.
LEMMA SwitchedOffIs ==
  ASSUME NEW list \in Seq(PluginItems), NEW module \in Modules
  PROVE  /\ SwitchedOff(list, module) \in PluginItems
         /\ SwitchedOff(list, module).module = module /\ SwitchedOff(list, module).enabled = FALSE
         /\ \A p \in Range(list) : p.name # SwitchedOff(list, module).name
<1> DEFINE used == {p.name : p \in Range(list)}
           item == SwitchedOff(list, module)
<1>1. item = [name |-> FreeName(module, used), module |-> module, enabled |-> FALSE] BY DEF SwitchedOff
<1>2. IsFiniteSet(used) BY UsedIsFinite
<1>3. \A p \in Range(list) : p.name \in used OBVIOUS
<1> HIDE DEF used, item
<1>4. PICK n \in Nat \ {0} : FreeName(module, used) = <<module, n>> /\ <<module, n>> \notin used
  BY <1>2, FreeNameIsFree
<1>5. <<module, n>> \in Modules \X (Nat \ {0}) OBVIOUS
<1>6. item \in PluginItems BY <1>1, <1>4, <1>5 DEF PluginItems
<1>7. item.name = <<module, n>> /\ item.module = module /\ item.enabled = FALSE BY <1>1, <1>4
<1>8. \A p \in Range(list) : p.name # item.name BY <1>3, <1>4, <1>7
<1> QED BY <1>6, <1>7, <1>8 DEF item

\* The loop of Materialize.
MaterializeTrace(f, plugins, modules) ==
  /\ f \in [0 .. Len(modules) -> Seq(PluginItems)]
  /\ f[0] = plugins /\ Materialize(plugins, modules) = f[Len(modules)]
  /\ \A n \in 1 .. Len(modules) : f[n] = Completed(f[n - 1], modules[n])

\* Materialize runs that loop.
LEMMA MaterializeLoop ==
  ASSUME NEW plugins \in Seq(PluginItems), NEW modules \in Seq(Modules)
  PROVE  \E f : MaterializeTrace(f, plugins, modules)
<1> DEFINE N == Len(modules)
           T == Seq(PluginItems)
           one == [x \in (1 .. N) \X T |-> Completed(x[2], modules[x[1]])]
           W(f) == f = [n \in 0 .. N |-> IF n = 0 THEN plugins ELSE Completed(f[n - 1], modules[n])]
<1>1. N \in Nat /\ \A n \in 1 .. N : modules[n] \in Modules OBVIOUS
<1>2. Materialize(plugins, modules) = (CHOOSE g : W(g))[N] BY DEF Materialize, Completed, SwitchedOff
<1>3. \A list \in T, module \in Modules : Completed(list, module) \in T
  <2> SUFFICES ASSUME NEW list \in T, NEW module \in Modules PROVE Completed(list, module) \in T OBVIOUS
  <2>1. SwitchedOff(list, module) \in PluginItems BY SwitchedOffIs
  <2>2. Append(list, SwitchedOff(list, module)) \in T BY <2>1
  <2> QED BY <2>2 DEF Completed
<1> HIDE DEF N, T
<1>4. StepsIn(one, N, T)
  <2>1. \A x \in (1 .. N) \X T : Completed(x[2], modules[x[1]]) \in T
    <3> SUFFICES ASSUME NEW x \in (1 .. N) \X T PROVE Completed(x[2], modules[x[1]]) \in T OBVIOUS
    <3>1. x[2] \in T /\ modules[x[1]] \in Modules BY <1>1
    <3> QED BY <3>1, <1>3
  <2>2. one \in [(1 .. N) \X T -> T] BY <2>1
  <2> QED BY <2>2 DEF StepsIn
<1>5. PICK f : TraceOf(f, one, N, T, plugins)
  <2>1. plugins \in T BY DEF T
  <2> HIDE DEF one
  <2> QED BY <2>1, <1>1, <1>4, Loop
<1>6. f \in [0 .. N -> T] /\ f[0] = plugins /\ \A n \in 1 .. N : f[n] = one[<<n, f[n - 1]>>]
  BY <1>5 DEF TraceOf
<1>7. \A n \in 0 .. N : n # 0 => n \in 1 .. N /\ n - 1 \in 0 .. N BY <1>1
<1>8. \A n \in 0 .. N : n # 0 => f[n] = Completed(f[n - 1], modules[n]) BY <1>6, <1>7
<1>9. W(f)
  <2>1. f = [n \in 0 .. N |-> f[n]] BY <1>6
  <2> QED BY <2>1, <1>6, <1>8
<1> DEFINE g == CHOOSE g : W(g)
<1>10. W(g)
  <2> HIDE DEF W
  <2> QED BY <1>9
<1>11. Materialize(plugins, modules) = g[N] BY <1>2
<1> HIDE DEF g
<1>12. \A n \in 0 .. N : g[n] = IF n = 0 THEN plugins ELSE Completed(g[n - 1], modules[n]) BY <1>10
<1> DEFINE G == {n \in 0 .. N : g[n] = f[n]}
<1>13. 0 \in G
  <2>1. 0 \in 0 .. N BY <1>1
  <2>2. g[0] = plugins BY <2>1, <1>12
  <2> QED BY <2>1, <2>2, <1>6
<1>14. ASSUME NEW n \in 1 .. N, n - 1 \in G PROVE n \in G
  <2>1. n \in 0 .. N /\ n # 0 /\ g[n - 1] = f[n - 1] BY <1>14, <1>1
  <2> QED BY <2>1, <1>8, <1>12
<1>15. \A n \in 0 .. N : n \in G
  <2> HIDE DEF G
  <2> QED BY <1>1, <1>13, <1>14, UpTo
<1>16. Materialize(plugins, modules) = f[N] BY <1>1, <1>11, <1>15
<1>17. \A n \in 1 .. N : n \in 0 .. N /\ n # 0 BY <1>1
<1>18. MaterializeTrace(f, plugins, modules) BY <1>6, <1>8, <1>16, <1>17 DEF MaterializeTrace, N, T
<1> QED BY <1>18

ModulesOf(list) == {p.module : p \in Range(list)}

\* What a list of plugins completed with some modules is.
IsCompletion(list, plugins, added) ==
  /\ list \in Seq(PluginItems) /\ UniqueNames(list)
  /\ Len(plugins) <= Len(list)
  /\ \A i \in 1 .. Len(plugins) : list[i] = plugins[i]
  /\ \A i \in 1 .. Len(list) : i \notin 1 .. Len(plugins) => list[i].enabled = FALSE
  /\ ModulesOf(list) = ModulesOf(plugins) \cup added

\* One step of Materialize completes the list with one module.
LEMMA OneCompletion ==
  ASSUME NEW plugins \in Seq(PluginItems), NEW list, NEW added, NEW module \in Modules,
         IsCompletion(list, plugins, added)
  PROVE  IsCompletion(Completed(list, module), plugins, added \cup {module})
<1> DEFINE L == Len(list)
           P == Len(plugins)
           item == SwitchedOff(list, module)
           longer == Append(list, item)
<1>1. /\ list \in Seq(PluginItems) /\ UniqueNames(list) /\ P <= L
      /\ \A i \in 1 .. P : list[i] = plugins[i]
      /\ \A i \in 1 .. L : i \notin 1 .. P => list[i].enabled = FALSE
      /\ ModulesOf(list) = ModulesOf(plugins) \cup added
  BY DEF IsCompletion
<1>2. CASE \E p \in Range(list) : p.module = module
  <2>1. Completed(list, module) = list BY <1>2 DEF Completed
  <2>2. module \in ModulesOf(list) BY <1>2 DEF ModulesOf
  <2>3. ModulesOf(list) = ModulesOf(plugins) \cup (added \cup {module}) BY <1>1, <2>2
  <2> QED BY <1>1, <2>1, <2>3 DEF IsCompletion
<1>3. CASE ~\E p \in Range(list) : p.module = module
  <2>1. Completed(list, module) = longer BY <1>3 DEF Completed
  <2>2. /\ item \in PluginItems /\ item.module = module /\ item.enabled = FALSE
        /\ \A p \in Range(list) : p.name # item.name
    BY <1>1, SwitchedOffIs, ZenonT(60)
  <2>3. L \in Nat /\ P \in Nat /\ DOMAIN list = 1 .. L /\ \A i \in 1 .. L : list[i] \in Range(list) BY <1>1 DEF Range
  <2> HIDE DEF item
  <2>4. /\ longer \in Seq(PluginItems) /\ Len(longer) = L + 1 /\ longer[L + 1] = item
        /\ \A i \in 1 .. L : longer[i] = list[i]
    BY <1>1, <2>2, AppendProperties
  <2>5. DOMAIN longer = 1 .. L + 1 BY <2>4
  <2> HIDE DEF longer, L, P
  <2>6. \A i \in 1 .. L + 1 : i \in 1 .. L \/ i = L + 1 BY <2>3
  <2>7. \A i \in 1 .. L : i \in 1 .. L + 1 BY <2>3
  <2>8. UniqueNames(longer)
    <3> SUFFICES ASSUME NEW i \in 1 .. L + 1, NEW j \in 1 .. L + 1, longer[i].name = longer[j].name
                 PROVE  i = j
      BY <2>5 DEF UniqueNames
    <3>1. \A k \in 1 .. L : longer[k].name # item.name BY <2>2, <2>3, <2>4
    <3>2. \A k, m \in 1 .. L : list[k].name = list[m].name => k = m BY <1>1, <2>3 DEF UniqueNames
    <3>3. CASE i \in 1 .. L /\ j \in 1 .. L BY <3>3, <3>2, <2>4
    <3>4. CASE i = L + 1 \/ j = L + 1 BY <3>1, <3>4, <2>4, <2>6
    <3> QED BY <3>3, <3>4, <2>6
  <2>9. P <= L + 1 /\ \A i \in 1 .. P : i \in 1 .. L BY <1>1, <2>3
  <2>10. \A i \in 1 .. P : longer[i] = plugins[i] BY <1>1, <2>4, <2>9
  <2>11. \A i \in 1 .. L + 1 : i \notin 1 .. P => longer[i].enabled = FALSE BY <1>1, <2>2, <2>4, <2>6
  <2>12. Range(longer) = Range(list) \cup {item}
    <3>1. Range(longer) = {longer[i] : i \in 1 .. L + 1} /\ Range(list) = {list[i] : i \in 1 .. L}
      BY <2>3, <2>5 DEF Range
    <3>2. L + 1 \in 1 .. L + 1 BY <2>3
    <3> QED BY <3>1, <3>2, <2>4, <2>6, <2>7
  <2>13. ModulesOf(longer) = ModulesOf(list) \cup {module} BY <2>2, <2>12 DEF ModulesOf
  <2>14. ModulesOf(longer) = ModulesOf(plugins) \cup (added \cup {module}) BY <1>1, <2>13
  <2> QED BY <2>1, <2>4, <2>8, <2>9, <2>10, <2>11, <2>14 DEF IsCompletion, L, P
<1> QED BY <1>2, <1>3

\* Materialize completes the list with all of them, and adds nothing where none is
\* missing.
LEMMA MaterializeCompletes ==
  ASSUME NEW plugins \in Seq(PluginItems), UniqueNames(plugins), NEW modules \in Seq(Modules)
  PROVE  /\ IsCompletion(Materialize(plugins, modules), plugins, Range(modules))
         /\ Range(modules) \subseteq ModulesOf(plugins) => Materialize(plugins, modules) = plugins
<1> DEFINE N == Len(modules)
           before(n) == {modules[i] : i \in 1 .. n}
<1>1. N \in Nat /\ Range(modules) = {modules[i] : i \in 1 .. N}
      /\ \A n \in 1 .. N : modules[n] \in Modules /\ modules[n] \in Range(modules) BY DEF Range
<1>2. PICK f : MaterializeTrace(f, plugins, modules) BY MaterializeLoop
<1>3. f[0] = plugins /\ Materialize(plugins, modules) = f[N]
      /\ \A n \in 1 .. N : f[n] = Completed(f[n - 1], modules[n]) BY <1>2 DEF MaterializeTrace
<1> HIDE DEF N
<1> DEFINE G == {n \in 0 .. N : IsCompletion(f[n], plugins, before(n))}
<1>4. 0 \in 0 .. N /\ N \in 0 .. N BY <1>1
<1>5. 0 \in G
  <2>1. before(0) = {} OBVIOUS
  <2>2. IsCompletion(plugins, plugins, {}) BY DEF IsCompletion
  <2> QED BY <2>1, <2>2, <1>3, <1>4
<1>6. ASSUME NEW n \in 1 .. N, n - 1 \in G PROVE n \in G
  <2>1. n \in 0 .. N BY <1>1
  <2>2. IsCompletion(f[n - 1], plugins, before(n - 1)) BY <1>6
  <2>3. before(n - 1) \cup {modules[n]} = before(n)
    <3>1. \A i : i \in 1 .. n <=> i \in 1 .. n - 1 \/ i = n BY <1>1
    <3> QED BY <3>1
  <2> HIDE DEF before
  <2>4. modules[n] \in Modules /\ f[n] = Completed(f[n - 1], modules[n]) BY <1>1, <1>3
  <2>5. IsCompletion(Completed(f[n - 1], modules[n]), plugins, before(n - 1) \cup {modules[n]})
    BY <2>2, <2>4, OneCompletion
  <2>6. IsCompletion(f[n], plugins, before(n)) BY <2>3, <2>4, <2>5
  <2> QED BY <2>1, <2>6
<1>7. IsCompletion(f[N], plugins, Range(modules))
  <2>1. before(N) = Range(modules) BY <1>1
  <2>2. \A n \in 0 .. N : n \in G
    <3> HIDE DEF G
    <3> QED BY <1>1, <1>5, <1>6, UpTo
  <2> QED BY <2>1, <2>2, <1>4
<1>8. ASSUME Range(modules) \subseteq ModulesOf(plugins) PROVE f[N] = plugins
  <2> DEFINE H == {n \in 0 .. N : f[n] = plugins}
  <2>1. 0 \in H BY <1>3, <1>4
  <2>2. ASSUME NEW n \in 1 .. N, n - 1 \in H PROVE n \in H
    <3>1. n \in 0 .. N /\ f[n - 1] = plugins BY <1>1, <2>2
    <3>2. \E p \in Range(plugins) : p.module = modules[n] BY <1>1, <1>8 DEF ModulesOf
    <3>3. f[n] = plugins BY <1>3, <3>1, <3>2 DEF Completed
    <3> QED BY <3>1, <3>3
  <2>3. \A n \in 0 .. N : n \in H
    <3> HIDE DEF H
    <3> QED BY <1>1, <2>1, <2>2, UpTo
  <2> QED BY <2>3, <1>4
<1> QED BY <1>3, <1>7, <1>8

\* Plugins that are switched off do not matter to whether the others can be built.
LEMMA SameToBuild ==
  ASSUME NEW plugins \in Seq(PluginItems), NEW list, NEW added, IsCompletion(list, plugins, added)
  PROVE  CanBuild(list, Registers) <=> CanBuild(plugins, Registers)
<1> DEFINE L == Len(list)
           P == Len(plugins)
<1>1. /\ list \in Seq(PluginItems) /\ P <= L
      /\ \A i \in 1 .. P : list[i] = plugins[i]
      /\ \A i \in 1 .. L : i \notin 1 .. P => list[i].enabled = FALSE
  BY DEF IsCompletion
<1>2. L \in Nat /\ P \in Nat /\ DOMAIN list = 1 .. L /\ DOMAIN plugins = 1 .. P BY <1>1
<1> HIDE DEF L, P
<1>3. \A i \in 1 .. P : i \in 1 .. L BY <1>1, <1>2
<1>4. ASSUME CanBuild(list, Registers) PROVE CanBuild(plugins, Registers)
  BY <1>1, <1>2, <1>3, <1>4 DEF CanBuild
<1>5. ASSUME CanBuild(plugins, Registers) PROVE CanBuild(list, Registers)
  <2> SUFFICES ASSUME NEW i \in 1 .. L, NEW j \in 1 .. L, i # j, list[i].enabled, list[j].enabled
               PROVE  Registers[list[i].module] \cap Registers[list[j].module] = {}
    BY <1>2 DEF CanBuild
  <2>1. i \in 1 .. P /\ j \in 1 .. P BY <1>1
  <2>2. list[i] = plugins[i] /\ list[j] = plugins[j] BY <1>1, <2>1
  <2> QED BY <1>2, <1>5, <2>1, <2>2 DEF CanBuild
<1> QED BY <1>4, <1>5

\* Completing a configuration with the shipped plugins does no harm.
LEMMA CompletedIsHarmless ==
  ASSUME NEW plugins \in Seq(PluginItems), UniqueNames(plugins), Shipped \in Seq(Modules)
  PROVE  LET full == Materialize(plugins, Shipped) IN
         /\ UniqueNames(full) /\ IsPrefix(plugins, full)
         /\ {p.module : p \in Range(full)} = {p.module : p \in Range(plugins)} \cup Range(Shipped)
         /\ Materialize(full, Shipped) = full
         /\ CanBuild(full, Registers) <=> CanBuild(plugins, Registers)
<1> DEFINE full == Materialize(plugins, Shipped)
<1>1. IsCompletion(full, plugins, Range(Shipped)) BY MaterializeCompletes
<1> HIDE DEF full
<1>2. /\ full \in Seq(PluginItems) /\ UniqueNames(full)
      /\ Len(plugins) <= Len(full) /\ \A i \in 1 .. Len(plugins) : full[i] = plugins[i]
      /\ ModulesOf(full) = ModulesOf(plugins) \cup Range(Shipped)
  BY <1>1 DEF IsCompletion
<1>3. IsPrefix(plugins, full) BY <1>2, PrefixIs
<1>4. Range(Shipped) \subseteq ModulesOf(full) BY <1>2
<1>5. Materialize(full, Shipped) = full BY <1>2, <1>4, MaterializeCompletes
<1>6. CanBuild(full, Registers) <=> CanBuild(plugins, Registers) BY <1>1, SameToBuild
<1> QED BY <1>2, <1>3, <1>5, <1>6 DEF full, ModulesOf

\* In an accepted configuration any set of groups has one that refers only to
\* upstreams that exist and to groups outside the set.
LEMMA GroupsEnd ==
  ASSUME NEW cfg, Accepted(cfg), cfg.groups \in Seq(Range(cfg.groups)),
         \A g \in Range(cfg.groups) : g.targets \in Seq(Range(g.targets)),
         NEW S \in (SUBSET NamesOf(cfg.groups)) \ {{}}
  PROVE  \E g \in Range(cfg.groups) :
           g.name \in S /\ Range(g.targets) \subseteq NamesOf(cfg.upstreams) \cup (NamesOf(cfg.groups) \ S)
<1> DEFINE groups == cfg.groups
           names == NamesOf(groups)
           ups == NamesOf(cfg.upstreams)
<1>1. /\ UniqueNames(groups) /\ ~HasCycle(groups)
      /\ \A g \in Range(groups) : Range(g.targets) \subseteq ups \cup names
  BY DEF Accepted
<1> HIDE DEF groups
<1>2. groups \in Seq(Range(groups)) /\ \A g \in Range(groups) : g.targets \in Seq(Range(g.targets)) BY DEF groups
<1>3. WellFounded(groups) BY <1>1, <1>2, WellFoundedIs
<1>4. S \in (SUBSET NamesOf(groups)) \ {{}} BY DEF groups
<1>5. PICK n \in S : \A g \in Range(groups) : g.name = n => Range(g.targets) \cap S = {}
  BY <1>3, <1>4 DEF WellFounded
<1>6. n \in names BY <1>4, <1>5
<1>7. PICK g \in Range(groups) : g.name = n BY <1>6 DEF NamesOf, Range
<1> HIDE DEF names, ups
<1>8. g.name \in S /\ Range(g.targets) \subseteq ups \cup (names \ S) BY <1>1, <1>5, <1>7
<1> QED BY <1>7, <1>8 DEF groups, names, ups
-----------------------------------------------------------------------------
(***************************************************************************)
(* Every state holds an input of the algorithm it is for.                  *)
(***************************************************************************)
CaseInv ==
  /\ Is("name") => case.of \in TagCases
  /\ Is("config") => case.of \in ConfigCases
  /\ Is("plugins") => case.of \in PluginCases
  /\ Is("speed") => case.of \in SpeedCases
  /\ Is("replace") => case.of \in ReplaceCases
  /\ Is("section") => case.of \in SectionCases
  /\ Is("redirect") => case.of \in RedirectCases
  /\ Is("static") => case.of \in StaticCases
  /\ Is("https") => case.of \in HttpsCases
  /\ Is("message") => case.of \in Messages
  /\ Is("certs") => case.of \in CertCases
  /\ Is("stream") => case.of \in Writes

\* It is one, for whatever sets of inputs.
LEMMA CaseInvHolds == AlgorithmsSpec => []CaseInv
<1>1. AlgorithmsInit => CaseInv BY DEF AlgorithmsInit, Start, CaseInv, Is
<1>2. CaseInv /\ [AlgorithmsNext]_case => CaseInv'
  <2> SUFFICES ASSUME CaseInv, [AlgorithmsNext]_case PROVE CaseInv' OBVIOUS
  <2> USE DEF CaseInv, Is, Pick
  <2>1. CASE PickName BY <2>1 DEF PickName
  <2>2. CASE PickSpeed BY <2>2 DEF PickSpeed
  <2>3. CASE PickReplace BY <2>3 DEF PickReplace
  <2>4. CASE PickSection BY <2>4 DEF PickSection
  <2>5. CASE PickRedirect BY <2>5 DEF PickRedirect
  <2>6. CASE PickStatic BY <2>6 DEF PickStatic
  <2>7. CASE PickHttps BY <2>7 DEF PickHttps
  <2>8. CASE PickMessage BY <2>8 DEF PickMessage
  <2>9. CASE PickCerts BY <2>9 DEF PickCerts
  <2>10. CASE PickStream BY <2>10 DEF PickStream
  <2>11. CASE Return BY <2>11 DEF Return, Start
  <2>12. CASE PickConfig BY <2>12 DEF PickConfig
  <2>13. CASE PickPlugins BY <2>13 DEF PickPlugins
  <2>14. CASE UNCHANGED case BY <2>14
  <2> QED BY <2>1, <2>2, <2>3, <2>4, <2>5, <2>6, <2>7, <2>8, <2>9, <2>10, <2>11, <2>12,
            <2>13, <2>14
         DEF AlgorithmsNext
<1> QED BY <1>1, <1>2, PTL DEF AlgorithmsSpec

\* Whatever the messages, the certificates and the socket's tricks, the transports
\* deliver the query as it is to the newest key they accept: DNSCrypt's padding
\* (_pad_query), the choice of its certificate (_fetch_server_key), which passes
\* over valid ones without extensions, and the bytes sent out of band
\* (TrickyStreamSocket.sendall).
THEOREM ServerGetsTheQueryHolds == AlgorithmsSpec => []ServerGetsTheQuery
<1>1. CaseInv => ServerGetsTheQuery
  <2> SUFFICES ASSUME CaseInv PROVE ServerGetsTheQuery OBVIOUS
  <2> USE DEF CaseInv
  <2>1. PaddingCanBeUndone
    <3> SUFFICES ASSUME Is("message") PROVE PaddingCanBeUndone BY DEF PaddingCanBeUndone
    <3>1. case.of \in Seq(Byte) BY MessagesAssumption
    <3>2. LET padded == PadQuery(case.of)
          IN  /\ Unpad(padded) = case.of
              /\ Len(padded) >= MinimumSize /\ Len(padded) % ModuloSize = 0
      BY <3>1, PaddingUndone
    <3> QED BY <3>2 DEF PaddingCanBeUndone
  <2>2. NewestValidCertificate
    <3> SUFFICES ASSUME Is("certs") PROVE NewestValidCertificate BY DEF NewestValidCertificate
    <3> DEFINE certs == case.of.certs
               now == case.of.now
               usable == {x \in Range(certs) : Usable(x, now)}
               extended == {x \in ValidCertificates(case.of) : x.length > WholeCertificate}
    <3>1. /\ certs \in Seq(Range(certs))
          /\ \A x \in Range(certs) : x # NoCert /\ x.serial \in Nat /\ x.length \in Nat
      BY CertCasesAssumption
    <3>2. extended = usable
      <4>1. \A x \in Range(certs) :
              x \in extended <=> /\ x.length > 124 /\ x.understood /\ x.signed
                                /\ x.start <= now /\ now <= x.expire
        BY <3>1 DEF ValidCertificates, WholeCertificate, HeaderSize, SignatureSize, FieldsSize
      <4>2. \A x \in Range(certs) :
              x \in usable <=> /\ x.length > 124 /\ x.understood /\ x.signed
                              /\ x.start <= now /\ now <= x.expire
        BY <3>1 DEF Usable, SignedSize, HeaderSize, SignatureSize, FieldsSize
      <4>3. extended \subseteq Range(certs) /\ usable \subseteq Range(certs)
        BY DEF ValidCertificates
      <4> HIDE DEF certs, now, usable, extended
      <4> QED BY <4>1, <4>2, <4>3
    <3> HIDE DEF certs, now
    <3>3. LET chosen == SelectCertificate(certs, now)
          IN  IF usable = {} THEN chosen = NoCert
              ELSE chosen \in usable /\ \A x \in usable : x.serial <= chosen.serial
      BY <3>1, NewestCertificate
    <3> HIDE DEF usable, extended
    <3> QED BY <3>2, <3>3 DEF NewestValidCertificate, certs, now, extended
  <2>3. StreamIsTheMessage
    <3> SUFFICES ASSUME Is("stream") PROVE StreamIsTheMessage BY DEF StreamIsTheMessage
    <3>1. case.of.what \in Seq(Byte) BY MessagesAssumption
    <3>2. InBand(StreamWrites(case.of.what, case.of.tricks)) = case.of.what
      BY <3>1, StreamUnchanged
    <3> QED BY <3>2 DEF StreamIsTheMessage
  <2> QED BY <2>1, <2>2, <2>3 DEF ServerGetsTheQuery
<1> QED BY <1>1, CaseInvHolds, PTL

\* Whatever was measured and however the plugin is configured, it returns the
\* fastest addresses, and something of the family where nothing was measured
\* (SpeedTestPlugin.on_response).
THEOREM FastestAreChosenHolds == AlgorithmsSpec => []FastestAreChosen
<1>1. CaseInv => FastestAreChosen
  <2> SUFFICES ASSUME CaseInv, Is("speed") PROVE FastestAreChosen BY DEF FastestAreChosen
  <2> DEFINE c == case.of
             reply == Respond(c.list, c.candidates, c.candidates, c.cfg, c.tags, "v4")
             fallback == SelectFallback(c.cfg.fallback, c.tags, "v4")
             known == \E ip \in Range(c.candidates) : HasDuration(c.list, ip)
  <2>1. c \in SpeedCases BY DEF CaseInv
  <2> HIDE DEF c
  <2>2. /\ c.candidates \in Seq(V4) /\ c.candidates # <<>> /\ IsInjective(c.candidates)
        /\ c.list \in Seq([ip: V4, best: (0 .. Inf) \cup {NoRtt}])
        /\ c.cfg.tolerance \in Nat /\ c.cfg.gap \in Nat /\ c.cfg.limit \in Nat \ {0}
        /\ c.cfg.fallback \in Seq(Range(c.cfg.fallback))
        /\ \A rule \in Range(c.cfg.fallback) : rule["v4"] \in Seq(V4)
    BY <2>1, SpeedCasesAssumption
  <2>3. known => AreFastest(reply, c.list, c.candidates, c.cfg)
    <3> SUFFICES ASSUME known PROVE AreFastest(reply, c.list, c.candidates, c.cfg) OBVIOUS
    <3>1. reply = Choose(c.list, c.candidates, c.cfg) BY DEF Respond
    <3> HIDE DEF reply
    <3> QED BY <2>2, <3>1, ChoiceIsFastest
  <2>4. ~known => reply # <<>> /\ Range(reply) \subseteq V4
    <3> SUFFICES ASSUME ~known PROVE reply # <<>> /\ Range(reply) \subseteq V4 OBVIOUS
    <3>1. fallback \in Seq(V4) BY <2>2, FallbackOfFamily
    <3>2. reply = IF fallback # <<>> THEN fallback ELSE c.candidates BY DEF Respond
    <3> HIDE DEF reply, fallback
    <3>3. reply # <<>> /\ reply \in Seq(V4) BY <2>2, <3>1, <3>2
    <3> QED BY <3>3, RangeOfSeq
  <2> QED BY <2>3, <2>4 DEF FastestAreChosen, c
<1> QED BY <1>1, CaseInvHolds, PTL

\* Whatever a plugin made of an answer, the end of the pipeline can write it into
\* its message and what is sent is the answer (sync_answer_response): after the IP
\* filter, for a redirect and for a static reply.
THEOREM RewritesCanBeSentHolds == AlgorithmsSpec => []RewritesCanBeSent
<1>1. CaseInv => RewritesCanBeSent
  <2> SUFFICES ASSUME CaseInv PROVE RewritesCanBeSent OBVIOUS
  <2> DEFINE c == case.of
  <2>1. SentIsWhatPluginsLeft
    <3> SUFFICES ASSUME Is("section") PROVE SentIsWhatPluginsLeft BY DEF SentIsWhatPluginsLeft
    <3>1. c \in SectionCases BY DEF CaseInv
    <3> HIDE DEF c
    <3>2. /\ c.section \in Seq(Range(c.section)) /\ c.type \in AddressTypes
          /\ \A r \in Range(c.section) : IsRRset(r)
          /\ \A i, j \in DOMAIN c.section : c.section[i].type = c.type /\ c.section[j].type = c.type => i = j
      BY <3>1, SectionCasesAssumption
    <3>3. DOMAIN c.section = 1 .. Len(c.section) BY <3>2
    <3>4. \A i \in 1 .. Len(c.section) : IsRRset(c.section[i]) BY <3>2, <3>3 DEF Range
    <3>5. \A i, j \in 1 .. Len(c.section) :
            c.section[i].type = c.type /\ c.section[j].type = c.type => i = j BY <3>2, <3>3
    <3>6. LET left == Filter(MakeAnswer(c.qname, c.type, "NOERROR", c.section), c.tags, c.cfg, c.tagsOf)
          IN  /\ CanSync(left) /\ SyncAnswer(left).rrset = left.rrset
              /\ \A i \in 1 .. Len(c.section) : c.section[i].type # c.type =>
                   c.section[i] \in Range(SyncAnswer(left).section)
      BY <3>2, <3>4, <3>5, FilteredAnswer
    <3> QED BY <3>3, <3>6 DEF SentIsWhatPluginsLeft, c
  <2>2. RedirectCanBeSent
    <3> SUFFICES ASSUME Is("redirect") PROVE RedirectCanBeSent BY DEF RedirectCanBeSent
    <3>1. c \in RedirectCases BY DEF CaseInv
    <3> HIDE DEF c
    <3>2. /\ c.section \in Seq(Range(c.section)) /\ c.type # "CNAME"
          /\ \A r \in Range(c.section) : r.name # c.source BY <3>1, RedirectCasesAssumption
    <3>3. \A i \in 1 .. Len(c.section) : c.section[i].name # c.source BY <3>2 DEF Range
    <3> DEFINE sub == MakeAnswer(c.target, c.type, "NOERROR", c.section)
               answer == Redirect(c.source, c.type, c.target, sub)
    <3>4. sub.rrset # NoRRset => answer.rrset = sub.rrset /\ CanSync(answer)
      BY <3>2, <3>3, RedirectReply
    <3> QED BY <3>4 DEF RedirectCanBeSent, c
  <2>3. StaticRepliesCarryAddresses
    <3> SUFFICES ASSUME Is("static") PROVE StaticRepliesCarryAddresses BY DEF StaticRepliesCarryAddresses
    <3>1. c \in StaticCases BY DEF CaseInv
    <3> HIDE DEF c
    <3>2. c.rules \in Seq(Range(c.rules)) BY <3>1, StaticCasesAssumption
    <3> DEFINE rule == ResolveRule(c.rules, c.tags, c.type)
               section == StaticSection(rule, c.qname, c.type)
               answer == BuildAnswer(c.qname, c.type, "NOERROR", section)
    <3>3. rule # NoRule => /\ CanSync(answer)
                           /\ c.type \in AddressTypes <=> answer.rrset # NoRRset
      BY <3>2, StaticReply
    <3> QED BY <3>3 DEF StaticRepliesCarryAddresses, c
  <2> QED BY <2>1, <2>2, <2>3 DEF RewritesCanBeSent
<1> QED BY <1>1, CaseInvHolds, PTL

\* Whatever HTTPS records the upstream sent, the ECH and the HTTPS plugin leave
\* records clients can use and that agree on ECH (CloudflareEchPlugin.on_response,
\* HttpsPlugin.on_response).
THEOREM HttpsRecordsStayUsableHolds == AlgorithmsSpec => []HttpsRecordsStayUsable
<1>1. CaseInv => HttpsRecordsStayUsable
  <2> SUFFICES ASSUME CaseInv PROVE HttpsRecordsStayUsable OBVIOUS
  <2>1. CASE Is("https")
    <3>1. case.of \in HttpsCases BY <2>1 DEF CaseInv
    <3>2. case.of.rrset \in Seq(Range(case.of.rrset))
          /\ \A r \in Range(case.of.rrset) : IsRecord(r) BY <3>1, HttpsCasesAssumption
    <3> QED BY <2>1, <3>2, HttpsReplyIsUsable
  <2>2. CASE ~Is("https")
    BY <2>2 DEF HttpsRecordsStayUsable, SanitisedRecordsStayUsable, EchIsAllOrNothing
  <2> QED BY <2>1, <2>2
<1> QED BY <1>1, CaseInvHolds, PTL

\* However often the IP replace plugin runs, addresses are in the target networks,
\* nothing replaced first is lost, and with networks of one prefix length the
\* second run changes nothing (IpReplaceService.replace_answer).
THEOREM ReplacedTwiceStaysInsideHolds == AlgorithmsSpec => []ReplacedTwiceStaysInside
<1>1. CaseInv => ReplacedTwiceStaysInside
  <2> SUFFICES ASSUME CaseInv, Is("replace") PROVE ReplacedTwiceStaysInside
    BY DEF ReplacedTwiceStaysInside
  <2> DEFINE ips == case.of.ips
             targets == case.of.targets
             RRset(data) == [name |-> "q", type |-> "A", data |-> data]
             Answer(data) == [qname |-> "q", type |-> "A", rcode |-> "NOERROR",
                              section |-> <<RRset(data)>>, rrset |-> RRset(data)]
             once == Replace(Addresses(ips), {"t"}, ReplaceBy(targets))
             twice == Replace(once, {"t"}, ReplaceBy(targets))
             d1 == Expand(ips, targets)
             d2 == Expand(d1, targets)
  <2>1. ips \in Seq(Ips) /\ targets \in Seq(Networks) /\ targets # <<>>
    <3>1. case.of \in ReplaceCases BY DEF CaseInv
    <3> QED BY <3>1, ReplaceCasesAssumption
  <2>2. ReplacedTwiceStaysInside <=>
          /\ \A ip \in Range(twice.rrset.data) : \E i \in DOMAIN targets : Inside(ip, targets[i])
          /\ Range(once.rrset.data) \subseteq Range(twice.rrset.data)
          /\ (\A i, j \in DOMAIN targets : targets[i].len = targets[j].len) => twice = once
          /\ once.section = <<once.rrset>>
    BY DEF ReplacedTwiceStaysInside
  <2> HIDE DEF ips, targets
  <2>3. Addresses(ips) = Answer(ips)
    <3> DEFINE section == <<RRset(ips)>>
               answer == MakeAnswer("q", "A", "NOERROR", section)
    <3>1. Len(section) = 1 /\ section[1] = RRset(ips) OBVIOUS
    <3>2. section[1].name = "q" /\ section[1].type = "A" OBVIOUS
    <3> HIDE DEF section
    <3> DEFINE last(at) == at[Len(section)]
    <3>3. PICK at : ChainTrace(at, "q", "A", "NOERROR", section) BY <3>1, ChainLoop
    <3>4. Place(section, "q", "A") = 1
      <4>1. Place(section, "q", "A") \in 0 .. 1 BY <3>1, PlaceIs
      <4>2. 1 \in 1 .. 1 /\ 1 \in 1 .. Len(section) BY <3>1
      <4>3. Place(section, "q", "A") # 0 BY <3>1, <3>2, <4>2, PlaceIs, SMTT(60)
      <4> QED BY <4>1, <4>3
    <3>5. at[0] = "q" /\ at[1] = Follow(section, "A", "q")
      <4>1. 1 \in 1 .. 1 /\ 1 - 1 = 0 OBVIOUS
      <4> QED BY <3>1, <3>3, <4>1 DEF ChainTrace
    <3>6. at[1] = "q" BY <3>4, <3>5 DEF Follow
    <3>7. Found(section, at[Len(section)], "A") = RRset(ips) BY <3>1, <3>4, <3>6 DEF Found
    <3>8. answer = [qname |-> "q", type |-> "A", rcode |-> "NOERROR", section |-> section,
                    rrset |-> RRset(ips)] BY <3>3, <3>7 DEF ChainTrace
    <3> QED BY <3>8 DEF Addresses, section
  <2>4. once = Answer(d1)
    <3> DEFINE a == Answer(ips)
    <3>1. a.rrset = RRset(ips) /\ a.section = <<a.rrset>>
          /\ a = [qname |-> "q", type |-> "A", rcode |-> "NOERROR", section |-> a.section, rrset |-> a.rrset]
      OBVIOUS
    <3> HIDE DEF a
    <3>2. Replace(a, {"t"}, ReplaceBy(targets)) = Answer(d1) BY <2>1, <3>1, ReplacedIs
    <3> QED BY <2>3, <3>2 DEF a
  <2>5. twice = Answer(d2)
    <3> DEFINE a == Answer(d1)
    <3> HIDE DEF d1
    <3>1. a.rrset = RRset(d1) /\ a.section = <<a.rrset>>
          /\ a = [qname |-> "q", type |-> "A", rcode |-> "NOERROR", section |-> a.section, rrset |-> a.rrset]
      OBVIOUS
    <3> HIDE DEF a
    <3>2. Replace(a, {"t"}, ReplaceBy(targets)) = Answer(d2) BY <2>1, <3>1, ReplacedIs
    <3> QED BY <2>4, <3>2 DEF a
  <2>6. once.rrset.data = d1 /\ twice.rrset.data = d2 /\ once.section = <<once.rrset>>
        /\ (d2 = d1 => twice = once)
    <3> HIDE DEF once, twice, d1, d2
    <3> QED BY <2>4, <2>5
  <2> HIDE DEF once, twice
  <2>7. DOMAIN targets = 1 .. Len(targets) /\ \A i \in DOMAIN targets : targets[i] \in Networks BY <2>1
  <2>8. /\ d1 \in Seq(Ips)
        /\ Range(d1) = {MapIp(ips[x[1]], targets[x[2]]) : x \in (1 .. Len(ips)) \X (1 .. Len(targets))}
    BY <2>1, ExpandRange
  <2>9. /\ d2 \in Seq(Ips)
        /\ Range(d2) = {MapIp(d1[x[1]], targets[x[2]]) : x \in (1 .. Len(d1)) \X (1 .. Len(targets))}
    <3> HIDE DEF d1
    <3> QED BY <2>1, <2>8, ExpandRange
  <2>10. (\A i, j \in DOMAIN targets : targets[i].len = targets[j].len) => d2 = d1
    BY <2>1, <2>7, ExpandTwice
  <2> HIDE DEF d1, d2
  <2>11. \A y \in Range(d2) : \E i \in DOMAIN targets : Inside(y, targets[i])
    <3> SUFFICES ASSUME NEW x \in (1 .. Len(d1)) \X (1 .. Len(targets))
                 PROVE  \E i \in DOMAIN targets : Inside(MapIp(d1[x[1]], targets[x[2]]), targets[i])
      BY <2>9
    <3>1. d1[x[1]] \in Ips /\ x[2] \in DOMAIN targets /\ targets[x[2]] \in Networks BY <2>7, <2>8
    <3>2. Inside(MapIp(d1[x[1]], targets[x[2]]), targets[x[2]]) BY <3>1, MapIpFacts
    <3> QED BY <3>1, <3>2
  <2>12. Range(d1) \subseteq Range(d2)
    <3> SUFFICES ASSUME NEW i \in DOMAIN d1 PROVE d1[i] \in Range(d2) BY DEF Range
    <3>1. i \in 1 .. Len(d1) /\ d1[i] \in Range(d1) BY <2>8 DEF Range
    <3>2. PICK x \in (1 .. Len(ips)) \X (1 .. Len(targets)) : d1[i] = MapIp(ips[x[1]], targets[x[2]])
      BY <3>1, <2>8
    <3> DEFINE ip == ips[x[1]]
               n == targets[x[2]]
    <3>3. ip \in Ips /\ n \in Networks /\ x[2] \in 1 .. Len(targets) BY <2>1, <2>7
    <3>4. MapIp(MapIp(ip, n), n) = MapIp(ip, n) BY <3>3, MapIpFacts
    <3>5. MapIp(d1[i], targets[x[2]]) = d1[i] BY <3>2, <3>4
    <3>6. <<i, x[2]>> \in (1 .. Len(d1)) \X (1 .. Len(targets)) BY <3>1, <3>3
    <3>7. MapIp(d1[i], targets[x[2]]) \in Range(d2) BY <3>6, <2>9
    <3> QED BY <3>5, <3>7
  <2> QED BY <2>2, <2>6, <2>10, <2>11, <2>12, SMTT(60)
<1> QED BY <1>1, CaseInvHolds, PTL

\* A tag file's line tags the name it stands for and all below it and nothing else,
\* for every tag file and every name (DomainSet.lookup, TagPlugin).
THEOREM TagsFollowLabelsHolds == AlgorithmsSpec => []TagsFollowLabels
<1>1. CaseInv => TagsFollowLabels
  <2> SUFFICES ASSUME CaseInv, Is("name") PROVE TagsFollowLabels BY DEF TagsFollowLabels
  <2> DEFINE c == case.of
             answer == ReplyTo(c)
  <2>1. c \in TagCases BY DEF CaseInv
  <2> HIDE DEF c
  <2>2. /\ c.name \in Seq(Char) /\ c.alias \in Seq(Char)
        /\ \A tag \in DOMAIN c.files : \A line \in c.files[tag] : line \in Seq(Char)
        /\ answer # NoAnswer BY <2>1, TagCasesAssumption
  <2>3. DomainTags(c.files, c.name) = CoveringTags(c.files, c.name)
        /\ DomainTags(c.files, c.alias) = CoveringTags(c.files, c.alias) BY <2>2, TagsOfName
  <2>4. answer.type = "A" /\ answer.chain = {c.name, c.alias} /\ answer.ips = {} BY DEF ReplyTo
  <2> HIDE DEF answer
  <2>5. UNION {DomainTags(c.files, name) : name \in answer.chain}
          = DomainTags(c.files, c.name) \cup DomainTags(c.files, c.alias) BY <2>4
  <2>6. UNION {IpTags({}, ip) : ip \in answer.ips} = {} BY <2>4
  <2>7. ResultTags(c.files, {}, c.request, {}, answer) =
          {} \cup c.request \cup UNION {DomainTags(c.files, name) : name \in answer.chain}
          \cup {} \cup UNION {IpTags({}, ip) : ip \in answer.ips} BY <2>2, <2>4 DEF ResultTags
  <2>8. ResultTags(c.files, {}, c.request, {}, answer)
          = c.request \cup CoveringTags(c.files, c.name) \cup CoveringTags(c.files, c.alias)
    BY <2>3, <2>5, <2>6, <2>7
  <2> QED BY <2>3, <2>8 DEF TagsFollowLabels, c, answer
<1> QED BY <1>1, CaseInvHolds, PTL

\* In every configuration the search finds a cycle of groups exactly when there is
\* one; in every one that is accepted groups end at upstreams and rules lead to
\* groups, whatever the tags; and completing any list of plugins with the shipped
\* ones does no harm (_validate_group_cycles, validate_references,
\* RuleEngine.select, materialize_plugin_configs).
THEOREM ConfigsWorkHolds == AlgorithmsSpec => []ConfigsWork
<1>1. CaseInv => ConfigsWork
  <2> SUFFICES ASSUME CaseInv PROVE ConfigsWork OBVIOUS
  <2> DEFINE cfg == case.of.cfg
             names == NamesOf(cfg.groups)
  <2>1. Is("config") => /\ cfg.groups \in Seq(Range(cfg.groups)) /\ cfg.rules \in Seq(Range(cfg.rules))
                        /\ \A g \in Range(cfg.groups) : g.targets \in Seq(Range(g.targets))
    BY ConfigCasesAssumption DEF CaseInv
  <2>2. AcceptedGroupsEnd
    <3> SUFFICES ASSUME Is("config") PROVE AcceptedGroupsEnd BY DEF AcceptedGroupsEnd
    <3> HIDE DEF cfg
    <3>1. UniqueNames(cfg.groups) => (HasCycle(cfg.groups) <=> ~WellFounded(cfg.groups))
      BY <2>1, WellFoundedIs
    <3>2. Accepted(cfg) =>
            \A S \in (SUBSET names) \ {{}} :
              \E g \in Range(cfg.groups) :
                g.name \in S /\ Range(g.targets) \subseteq NamesOf(cfg.upstreams) \cup (names \ S)
      BY <2>1, GroupsEnd
    <3> QED BY <3>1, <3>2 DEF AcceptedGroupsEnd, cfg
  <2>3. SelectedGroupExists
    <3> SUFFICES ASSUME Is("config"), Accepted(cfg) PROVE SelectedGroupExists
      BY DEF SelectedGroupExists
    <3> DEFINE tags == case.of.tags
               type == case.of.type
    <3> HIDE DEF cfg, tags, type
    <3>1. SelectGroup(cfg.rules, cfg.default, tags, type) \in names BY <2>1, SelectedIsGroup
    <3> QED BY <3>1 DEF SelectedGroupExists, cfg, tags, type
  <2>4. CompletionIsHarmless
    <3> SUFFICES ASSUME Is("plugins") PROVE CompletionIsHarmless BY DEF CompletionIsHarmless
    <3> DEFINE plugins == case.of
    <3>1. plugins \in Seq(PluginItems) /\ UniqueNames(plugins) /\ Shipped \in Seq(Modules)
      BY PluginCasesAssumption DEF CaseInv
    <3> HIDE DEF plugins
    <3>2. LET full == Materialize(plugins, Shipped) IN
          /\ UniqueNames(full) /\ IsPrefix(plugins, full)
          /\ {p.module : p \in Range(full)} = {p.module : p \in Range(plugins)} \cup Range(Shipped)
          /\ Materialize(full, Shipped) = full
          /\ CanBuild(full, Registers) <=> CanBuild(plugins, Registers)
      BY <3>1, CompletedIsHarmless
    <3> QED BY <3>2 DEF CompletionIsHarmless, plugins
  <2> QED BY <2>2, <2>3, <2>4 DEF ConfigsWork
<1> QED BY <1>1, CaseInvHolds, PTL
=============================================================================
