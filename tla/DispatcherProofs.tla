-------------------------- MODULE DispatcherProofs --------------------------
(***************************************************************************)
(* Proofs about Dispatcher, for every tree of groups: any number of        *)
(* upstreams, nested to any depth.                                         *)
(***************************************************************************)
EXTENDS Dispatcher, SequenceTheorems, WellFoundedInduction, TLAPS

(***************************************************************************)
(* The inductive invariant                                                 *)
(***************************************************************************)
Inner == Nodes \ {Root}
IsNx(u) == u \in Upstreams /\ kind[u] = "nxdomain"
Done(n) == task[n] = "done"

\* Only what upstreams replied is ever sent; default_result never is.
Types ==
  /\ strategy \in {"race", "wait_all"} /\ aborted \in {"no", "yes"}
  /\ task \in [Nodes -> {"running", "ready"} \cup EndedTask]
  /\ \A g \in Groups : task[g] # "ready"
  /\ kind \in [Upstreams -> Kinds] /\ duration \in [Upstreams -> Durations]
  /\ stream \in [Groups -> Seq(Upstreams)] /\ received \in [Groups -> Seq(Upstreams)]
  /\ winner \in [Groups -> Names] /\ result \in [Groups -> Names]
  /\ collected \in [Names -> SUBSET Names]
  /\ reported \subseteq Upstreams

\* The groups contain their tasks, and a task was cancelled by a cancelled scope.
ScopeInv ==
  /\ \A n \in Inner : task[Parent[n]] \in EndedTask => task[n] \in EndedTask
  /\ \A n \in Nodes : task[n] = "cancelled" => Cancelled(n)

\* What a group has heard comes from its members, and it hears all of them
\* unless it has a winner.  A race keeps failures only.
HeardInv ==
  /\ \A g \in Groups : \A u \in Range(stream[g]) \cup Range(received[g]) \cup ({winner[g]} \ {Unknown}) :
       \E n \in Members(g) : Done(n) /\ ResultOf(n) = u
  /\ \A n \in Inner : Done(n) =>
       \/ winner[Parent[n]] # Unknown
       \/ ResultOf(n) \in Range(stream[Parent[n]]) \cup Range(received[Parent[n]])
  /\ \A g \in Groups : winner[g] # Unknown => IsSuccess(winner[g]) /\ strategy = "race"
  /\ strategy = "race" => \A g \in Groups : \A u \in Range(received[g]) : ~IsSuccess(u)
  /\ \A u \in Upstreams : Done(u) => u \in reported

\* What a group returns is one of its members' results and does justice to all of
\* them.
Verdict(g) ==
  /\ result[g] \in Upstreams /\ Done(result[g])
  /\ \E n \in Members(g) : Done(n) /\ ResultOf(n) = result[g]
  /\ winner[g] # Unknown => IsSuccess(result[g])
  /\ winner[g] = Unknown =>
       \A n \in Members(g) : Done(n) /\ ResultOf(n) \in Range(received[g])
  /\ ~IsSuccess(result[g]) =>
       \A n \in Members(g) : /\ ~IsSuccess(ResultOf(n))
                             /\ IsNx(ResultOf(n)) => IsNx(result[g])
  /\ strategy = "wait_all" =>
       \A n \in Members(g) : IsSuccess(ResultOf(n)) =>
         IsSuccess(result[g]) /\ duration[result[g]] <= duration[ResultOf(n)]
VerdictInv == \A g \in Groups : Done(g) => Verdict(g)

\* The tasks that have returned the same upstream's result lie on one path, and
\* collected_results is that of the last of them.
Carries(n, u) == Done(n) /\ ResultOf(n) = u
OnTop(n, u) == Carries(n, u) /\ (n # Root => ~Carries(Parent[n], u))
PathInv ==
  /\ \A u \in Upstreams : \A m, n \in Nodes : OnTop(m, u) /\ OnTop(n, u) => m = n
  /\ strategy = "wait_all" => \A g \in Groups : Done(g) =>
       \/ collected[result[g]] = Range(received[g])
       \/ g # Root /\ Carries(Parent[g], result[g])

IInv == Types /\ ScopeInv /\ HeardInv /\ VerdictInv /\ PathInv
-----------------------------------------------------------------------------
(***************************************************************************)
(* Sequences and the tree                                                  *)
(***************************************************************************)
\* A set of naturals that is not empty has a least element.
LEMMA LeastNat ==
  ASSUME NEW S, S \subseteq Nat, S # {}
  PROVE  \E n \in S : \A m \in S : n <= m
<1> DEFINE Less == {ss \in Nat \X Nat : ss[1] < ss[2]}
<1>1. IsWellFoundedOn(Less, Nat) BY NatLessThanWellFounded DEF OpToRel
<1>2. \A x, y \in Nat : <<x, y>> \in Less <=> x < y OBVIOUS
<1> HIDE DEF Less
<1>3. \E n \in S : \A m \in S : ~(<<m, n>> \in Less) BY <1>1, WFMin
<1>4. \A x, y \in S : <<x, y>> \in Less \/ y <= x
  <2>1. \A x, y \in Nat : x < y \/ y <= x OBVIOUS
  <2> QED BY <1>2, <2>1
<1> QED BY <1>3, <1>4

LEMMA MinOf == ASSUME NEW S, S \subseteq Nat, S # {} PROVE Min(S) \in S
BY LeastNat DEF Min

LEMMA RangeIndexed ==
  ASSUME NEW S, NEW s \in Seq(S)
  PROVE  /\ \A x : x \in Range(s) <=> \E i \in 1 .. Len(s) : s[i] = x
         /\ DOMAIN s = 1 .. Len(s) /\ Len(s) \in Nat /\ Range(s) \subseteq S
<1>1. DOMAIN s = 1 .. Len(s) /\ Len(s) \in Nat /\ s \in [1 .. Len(s) -> S] BY LenProperties
<1> QED BY <1>1 DEF Range

LEMMA RangeEmpty == Range(<<>>) = {}
BY EmptySeq DEF Range

LEMMA RangeAppend ==
  ASSUME NEW S, NEW s \in Seq(S), NEW x \in S
  PROVE  Append(s, x) \in Seq(S) /\ Range(Append(s, x)) = Range(s) \cup {x}
<1> DEFINE t == Append(s, x)
<1>1. /\ t \in Seq(S) /\ Len(t) = Len(s) + 1 /\ t[Len(s) + 1] = x
      /\ \A i \in 1 .. Len(s) : t[i] = s[i]
  BY AppendProperties
<1> HIDE DEF t
<1>2. Len(s) \in Nat BY LenProperties
<1>3. \A i \in 1 .. Len(t) : i \in 1 .. Len(s) \/ i = Len(s) + 1 BY <1>1, <1>2
<1>4. /\ \A i \in 1 .. Len(s) : i \in 1 .. Len(t)
      /\ Len(s) + 1 \in 1 .. Len(t)
  BY <1>1, <1>2
<1>5. \A y : y \in Range(t) <=> \E i \in 1 .. Len(t) : t[i] = y BY <1>1, RangeIndexed
<1>6. \A y : y \in Range(s) <=> \E i \in 1 .. Len(s) : s[i] = y BY RangeIndexed
<1>7. \A y \in Range(t) : y \in Range(s) \cup {x} BY <1>1, <1>3, <1>5, <1>6
<1>8. \A y \in Range(s) : y \in Range(t) BY <1>1, <1>4, <1>5, <1>6
<1>9. x \in Range(t) BY <1>1, <1>4, <1>5
<1>10. Range(t) = Range(s) \cup {x} BY <1>7, <1>8, <1>9
<1> QED BY <1>1, <1>10 DEF t

LEMMA RangeTail ==
  ASSUME NEW S, NEW s \in Seq(S), s # <<>>
  PROVE  /\ Head(s) \in S /\ Head(s) \in Range(s) /\ Tail(s) \in Seq(S)
         /\ Range(s) = Range(Tail(s)) \cup {Head(s)}
<1> DEFINE t == Tail(s)
<1>1. /\ Head(s) \in S /\ t \in Seq(S) /\ Len(t) = Len(s) - 1 /\ Head(s) = s[1]
      /\ \A i \in 1 .. Len(t) : t[i] = s[i + 1]
  BY HeadTailProperties
<1> HIDE DEF t
<1>2. Len(s) \in Nat \ {0} BY EmptySeq
<1>3. /\ \A i \in 1 .. Len(t) : i + 1 \in 1 .. Len(s)
      /\ \A i \in 1 .. Len(s) : i = 1 \/ (i - 1 \in 1 .. Len(t) /\ (i - 1) + 1 = i)
      /\ 1 \in 1 .. Len(s)
  BY <1>1, <1>2
<1>4. \A y : y \in Range(t) <=> \E i \in 1 .. Len(t) : t[i] = y BY <1>1, RangeIndexed
<1>5. \A y : y \in Range(s) <=> \E i \in 1 .. Len(s) : s[i] = y BY RangeIndexed
<1>6. \A y \in Range(t) : y \in Range(s) BY <1>1, <1>3, <1>4, <1>5
<1>7. \A y \in Range(s) : y \in Range(t) \cup {s[1]}
  <2> SUFFICES ASSUME NEW i \in 1 .. Len(s) PROVE s[i] \in Range(t) \cup {s[1]} BY <1>5
  <2>1. CASE i = 1 BY <2>1
  <2>2. CASE i # 1
    <3>1. i - 1 \in 1 .. Len(t) /\ (i - 1) + 1 = i BY <1>3, <2>2
    <3>2. t[i - 1] = s[i] BY <1>1, <3>1
    <3> QED BY <1>4, <3>1, <3>2
  <2> QED BY <2>1, <2>2
<1>8. s[1] \in Range(s) BY <1>3, <1>5
<1>9. Range(s) = Range(t) \cup {Head(s)} BY <1>1, <1>6, <1>7, <1>8
<1> QED BY <1>1, <1>8, <1>9 DEF t

LEMMA TreeFacts ==
  /\ Upstreams \subseteq Inner /\ Inner \subseteq Nodes /\ Groups \subseteq Nodes
  /\ \A n \in Inner : Parent[n] \in Groups
  /\ \A n \in Nodes : n \in Upstreams \/ n \in Groups
  /\ \A n : ~(n \in Upstreams /\ n \in Groups)
  /\ Root \in Groups /\ Root \notin Inner /\ Unknown \notin Nodes
  /\ \A g, n : n \in Members(g) <=> n \in Inner /\ Parent[n] = g
BY DispatcherAssumption DEF Inner, Nodes, Members

\* The scopes around a task are its group's and those around the group.
LEMMA AncestorsUp ==
  ASSUME NEW n \in Inner
  PROVE  Ancestors(n) = {Parent[n]} \cup Ancestors(Parent[n])
<1> DEFINE p == Parent[n]
           Closed(S) == \A h \in S \ {Root} : Parent[h] \in S
           Start(m, S) == m # Root => Parent[m] \in S
           A == {p} \cup Ancestors(p)
<1>1. p \in Groups /\ n # Root BY TreeFacts DEF Inner
<1>2. \A m, g : g \in Ancestors(m) <=>
        g \in Groups /\ \A S \in SUBSET Groups : Start(m, S) /\ Closed(S) => g \in S
  BY DEF Ancestors
<1>3. Ancestors(n) \subseteq A
  <2>1. A \subseteq Groups BY <1>1, <1>2
  <2>2. \A g \in Ancestors(p) \ {Root} : Parent[g] \in Ancestors(p)
    <3> SUFFICES ASSUME NEW g \in Ancestors(p), g # Root PROVE Parent[g] \in Ancestors(p)
      OBVIOUS
    <3>1. g \in Groups BY <1>2
    <3>2. Parent[g] \in Groups BY <3>1, TreeFacts DEF Inner
    <3>3. ASSUME NEW S \in SUBSET Groups, Start(p, S), Closed(S) PROVE Parent[g] \in S
      BY <1>2, <3>3
    <3> QED BY <1>2, <3>2, <3>3
  <2>3. p # Root => Parent[p] \in Ancestors(p)
    <3> SUFFICES ASSUME p # Root PROVE Parent[p] \in Ancestors(p) OBVIOUS
    <3>1. Parent[p] \in Groups BY <1>1, TreeFacts DEF Inner
    <3> QED BY <1>2, <3>1
  <2>4. Closed(A) /\ Start(n, A) BY <2>2, <2>3
  <2> HIDE DEF A, Closed, Start
  <2> QED BY <1>2, <2>1, <2>4
<1>4. A \subseteq Ancestors(n)
  <2>1. ASSUME NEW S \in SUBSET Groups, Start(n, S), Closed(S) PROVE A \subseteq S
    <3>1. p \in S BY <1>1, <2>1
    <3>2. Start(p, S) BY <2>1, <3>1
    <3> HIDE DEF Start, Closed
    <3>3. Ancestors(p) \subseteq S BY <1>2, <2>1, <3>2
    <3> QED BY <3>1, <3>3
  <2>2. A \subseteq Groups BY <1>1, <1>2
  <2> HIDE DEF A, Closed, Start
  <2> QED BY <1>2, <2>1, <2>2
<1> QED BY <1>3, <1>4

LEMMA NotItsParent == \A n \in Inner : Parent[n] # n
<1> SUFFICES ASSUME NEW n \in Inner, Parent[n] = n PROVE FALSE OBVIOUS
<1>1. {n} \in SUBSET (Nodes \ {Root}) /\ {n} # {} BY DEF Inner
<1> QED BY <1>1, DispatcherAssumption

LEMMA CancelledUp ==
  ASSUME NEW n \in Inner
  PROVE  Cancelled(n) <=> winner[Parent[n]] # Unknown \/ Cancelled(Parent[n])
BY AncestorsUp DEF Cancelled

\* A cancelled scope stays cancelled.
LEMMA CancelledStays ==
  ASSUME NEW n \in Nodes, Cancelled(n), aborted = "yes" => aborted' = "yes",
         \A g \in Groups : winner[g] # Unknown => winner'[g] # Unknown
  PROVE  Cancelled(n)'
<1>1. Ancestors(n) \subseteq Groups BY DEF Ancestors
<1> QED BY <1>1 DEF Cancelled

\* What holds for the root and is handed down from groups to members holds for
\* all tasks.
LEMMA FromTheRoot ==
  ASSUME NEW S \in SUBSET Nodes, Root \in S, \A n \in Inner : Parent[n] \in S => n \in S
  PROVE  S = Nodes
<1> DEFINE T == Nodes \ S
<1>1. T \subseteq Nodes \ {Root} OBVIOUS
<1>2. T = {}
  <2> SUFFICES ASSUME T # {} PROVE FALSE OBVIOUS
  <2>1. PICK n \in T : Parent[n] \notin T BY <1>1, DispatcherAssumption
  <2>2. n \in Inner /\ Parent[n] \in Nodes BY <1>1, TreeFacts DEF Inner
  <2> QED BY <2>1, <2>2
<1> QED BY <1>2
-----------------------------------------------------------------------------
(***************************************************************************)
(* The choices                                                             *)
(***************************************************************************)
LEMMA PickFailureIs ==
  ASSUME Types, NEW s \in Seq(Upstreams), s # <<>>, \A u \in Range(s) : ~IsSuccess(u)
  PROVE  /\ PickFailure(s) \in Range(s)
         /\ \A u \in Range(s) : IsNx(u) => IsNx(PickFailure(s))
<1> DEFINE N == {i \in 1 .. Len(s) : s[i] \in Upstreams /\ kind[s[i]] = "nxdomain"}
           E == {i \in 1 .. Len(s) : s[i] = Unknown \/ kind[s[i]] = "error"}
           nx == IF (IF N # {} THEN Min(N) ELSE 0) = 0 THEN Unknown ELSE s[IF N # {} THEN Min(N) ELSE 0]
           er == IF (IF E # {} THEN Min(E) ELSE 0) = 0 THEN Unknown ELSE s[IF E # {} THEN Min(E) ELSE 0]
<1>1. PickFailure(s) = IF nx # Unknown THEN nx ELSE er
  BY DEF PickFailure, FirstOf, SelectInSeq
<1>2. /\ \A x : x \in Range(s) <=> \E i \in 1 .. Len(s) : s[i] = x
      /\ Len(s) \in Nat /\ Range(s) \subseteq Upstreams
  BY RangeIndexed
<1>3. Unknown \notin Upstreams BY TreeFacts
<1>4. N \subseteq Nat /\ E \subseteq Nat /\ 0 \notin N /\ 0 \notin E BY <1>2
<1>5. N # {} => nx \in Range(s) /\ IsNx(nx)
  <2> SUFFICES ASSUME N # {} PROVE nx \in Range(s) /\ IsNx(nx) OBVIOUS
  <2>1. Min(N) \in N BY <1>4, MinOf
  <2>2. nx = s[Min(N)] BY <1>4, <2>1
  <2> QED BY <1>2, <2>1, <2>2 DEF IsNx
<1>6. N = {} => nx = Unknown OBVIOUS
<1>7. E # {} => er \in Range(s)
  <2> SUFFICES ASSUME E # {} PROVE er \in Range(s) OBVIOUS
  <2>1. Min(E) \in E BY <1>4, MinOf
  <2>2. er = s[Min(E)] BY <1>4, <2>1
  <2> QED BY <1>2, <2>1, <2>2
<1>8. N # {} \/ E # {}
  <2>1. 1 \in 1 .. Len(s) BY <1>2, EmptySeq
  <2>2. s[1] \in Range(s) BY <1>2, <2>1
  <2>3. s[1] \in Upstreams /\ kind[s[1]] \in Kinds /\ kind[s[1]] # "answer"
    BY <1>2, <2>2 DEF Types, IsSuccess
  <2> QED BY <2>1, <2>3 DEF Kinds
<1>9. \A u \in Range(s) : IsNx(u) => N # {} BY <1>2 DEF IsNx
<1> HIDE DEF N, E, nx, er
<1>10. CASE N # {}
  <2>1. nx # Unknown BY <1>3, <1>5, <1>10 DEF IsNx
  <2> QED BY <1>1, <1>5, <1>10, <2>1
<1>11. CASE N = {} BY <1>1, <1>6, <1>7, <1>8, <1>9, <1>11
<1> QED BY <1>10, <1>11

LEMMA FastestIs ==
  ASSUME Types, NEW s \in Seq(Upstreams)
  PROVE  /\ Fastest(s) # Unknown =>
              /\ Fastest(s) \in Range(s) /\ IsSuccess(Fastest(s))
              /\ \A u \in Range(s) : IsSuccess(u) => duration[Fastest(s)] <= duration[u]
         /\ Fastest(s) = Unknown => \A u \in Range(s) : ~IsSuccess(u)
<1> DEFINE F == {i \in 1 .. Len(s) : IsSuccess(s[i]) /\ \A j \in DOMAIN s :
                                       IsSuccess(s[j]) => duration[s[i]] <= duration[s[j]]}
<1>1. Fastest(s) = IF (IF F # {} THEN Min(F) ELSE 0) = 0 THEN Unknown
                   ELSE s[IF F # {} THEN Min(F) ELSE 0]
  BY DEF Fastest, FirstOf, SelectInSeq
<1>2. /\ \A x : x \in Range(s) <=> \E i \in 1 .. Len(s) : s[i] = x
      /\ DOMAIN s = 1 .. Len(s) /\ Len(s) \in Nat /\ Range(s) \subseteq Upstreams
  BY RangeIndexed
<1>3. F \subseteq Nat /\ 0 \notin F BY <1>2
<1>4. F # {} => Min(F) \in F BY <1>3, MinOf
<1>5. CASE F # {}
  <2>1. Fastest(s) = s[Min(F)] BY <1>1, <1>3, <1>4, <1>5
  <2>2. /\ Min(F) \in 1 .. Len(s) /\ IsSuccess(s[Min(F)])
        /\ \A j \in DOMAIN s : IsSuccess(s[j]) => duration[s[Min(F)]] <= duration[s[j]]
    BY <1>4, <1>5
  <2>3. Fastest(s) # Unknown BY <2>1, <2>2, TreeFacts DEF IsSuccess, Inner
  <2> QED BY <1>2, <2>1, <2>2, <2>3
<1>6. CASE F = {}
  <2>1. Fastest(s) = Unknown BY <1>1, <1>6
  <2>2. ASSUME NEW i \in 1 .. Len(s), IsSuccess(s[i]) PROVE FALSE
    <3> DEFINE D == {duration[s[j]] : j \in {k \in 1 .. Len(s) : IsSuccess(s[k])}}
    <3>1. D \subseteq Nat BY DispatcherAssumption DEF Types, IsSuccess
    <3>2. D # {} BY <2>2
    <3>3. PICK d \in D : \A e \in D : d <= e
      <4> HIDE DEF D
      <4> QED BY <3>1, <3>2, LeastNat
    <3>4. PICK j \in 1 .. Len(s) : IsSuccess(s[j]) /\ d = duration[s[j]] OBVIOUS
    <3>5. \A k \in 1 .. Len(s) : IsSuccess(s[k]) => duration[s[j]] <= duration[s[k]]
      BY <3>3, <3>4
    <3>6. j \in F BY <1>2, <3>4, <3>5
    <3> QED BY <1>6, <3>6
  <2> QED BY <1>2, <2>1, <2>2
<1> QED BY <1>5, <1>6
-----------------------------------------------------------------------------
(***************************************************************************)
(* Steps                                                                   *)
(***************************************************************************)
USE DEF vars, Done, EndedTask

\* What a task returned is an upstream's result, and that upstream's task is done.
LEMMA DoneResult ==
  ASSUME IInv, NEW n \in Nodes, Done(n)
  PROVE  ResultOf(n) \in Upstreams /\ Done(ResultOf(n))
<1>1. CASE n \in Upstreams BY <1>1 DEF ResultOf
<1>2. CASE n \notin Upstreams BY <1>2, TreeFacts DEF ResultOf, IInv, VerdictInv, Verdict
<1> QED BY <1>1, <1>2

\* The verdict of a group that has returned stays.
LEMMA VerdictStays ==
  ASSUME IInv, NEW g \in Groups, Done(g),
         UNCHANGED <<strategy, kind, duration, received[g], winner[g], result[g]>>,
         Done(result[g])',
         \A n \in Members(g) : (Done(n)' <=> Done(n)) /\ ResultOf(n)' = ResultOf(n)
  PROVE  Verdict(g)'
<1>1. Verdict(g) BY DEF IInv, VerdictInv
<1>2. \A u : (IsSuccess(u)' <=> IsSuccess(u)) /\ (IsNx(u)' <=> IsNx(u)) BY DEF IsSuccess, IsNx
<1>3. \A n \in Members(g) : Done(n)' <=> Done(n) OBVIOUS
<1>4. \A n \in Members(g) : ResultOf(n)' = ResultOf(n) OBVIOUS
<1>5. Members(g)' = Members(g) BY DEF Members
<1> HIDE DEF Done
<1> QED BY <1>1, <1>2, <1>3, <1>4 DEF Verdict

\* A step in which no task returns and nothing is sent or received.
LEMMA QuietStep ==
  ASSUME IInv, UNCHANGED <<strategy, kind, duration, stream, received, winner, result, collected>>,
         task' \in [Nodes -> {"running", "ready"} \cup EndedTask],
         \A g \in Groups : task'[g] # "ready",
         \A n \in Nodes : task'[n] = "done" <=> task[n] = "done",
         aborted' \in {"no", "yes"}, reported \subseteq reported', reported' \subseteq Upstreams,
         ScopeInv'
  PROVE  IInv'
<1>1. Types' BY DEF IInv, Types
<1>2. \A n : ResultOf(n)' = ResultOf(n) BY DEF ResultOf
<1>3. \A u : IsSuccess(u)' <=> IsSuccess(u) BY DEF IsSuccess
<1>4. \A g : Members(g) \subseteq Nodes BY TreeFacts
<1>5. \A n \in Inner : Parent[n] \in Nodes BY TreeFacts
<1>6. HeardInv'
  <2>1. \A n \in Inner : Done(n)' => Done(n) BY DEF Inner
  <2>2. \A n \in Upstreams : Done(n)' => Done(n) BY TreeFacts
  <2> QED BY <1>2, <1>3, <1>4, <2>1, <2>2 DEF IInv, HeardInv
<1>7. VerdictInv'
  <2> SUFFICES ASSUME NEW g \in Groups, Done(g) PROVE Verdict(g)'
    BY TreeFacts DEF VerdictInv
  <2>1. result[g] \in Upstreams /\ Done(result[g]) BY DEF IInv, VerdictInv, Verdict
  <2>2. Done(result[g])' BY <2>1, TreeFacts
  <2> QED BY <1>2, <1>4, <2>2, VerdictStays
<1>8. PathInv'
  <2>1. \A n \in Nodes : \A u : Carries(n, u)' <=> Carries(n, u) BY <1>2 DEF Carries
  <2>2. \A n \in Nodes : \A u : OnTop(n, u)' <=> OnTop(n, u)
    <3>1. \A n \in Nodes : n # Root => Parent[n] \in Nodes BY <1>5 DEF Inner
    <3> QED BY <2>1, <3>1 DEF OnTop
  <2>3. \A g \in Groups : Done(g)' => Done(g) BY TreeFacts
  <2>4. \A g \in Groups : g # Root => Parent[g] \in Nodes BY <1>5, TreeFacts DEF Inner
  <2> QED BY <2>1, <2>2, <2>3, <2>4 DEF IInv, PathInv
<1> QED BY <1>1, <1>6, <1>7, <1>8 DEF IInv

LEMMA AbortStep == ASSUME IInv, Abort PROVE IInv'
<1> USE DEF Abort
<1>1. ScopeInv' BY CancelledStays DEF IInv, ScopeInv
<1> QED BY <1>1, QuietStep DEF IInv, Types

LEMMA ReplyStep == ASSUME IInv, NEW u \in Upstreams, Reply(u) PROVE IInv'
<1> USE DEF Reply
<1>1. \A n \in Nodes : n # u => task'[n] = task[n] BY DEF IInv, Types
<1>2. task[u] = "running" /\ task'[u] = "ready" BY TreeFacts DEF IInv, Types
<1>3. ScopeInv'
  <2>1. \A n \in Nodes : Cancelled(n)' <=> Cancelled(n) BY DEF Cancelled
  <2>2. \A n \in Inner : n \in Nodes /\ Parent[n] \in Nodes /\ Parent[n] # u BY TreeFacts
  <2>3. \A n \in Inner : task'[Parent[n]] = task[Parent[n]] BY <1>1, <2>2
  <2>4. \A n \in Inner : n # u => task'[n] = task[n] BY <1>1, <2>2
  <2>5. u \in Inner => task[Parent[u]] \notin EndedTask BY <1>2 DEF IInv, ScopeInv
  <2> QED BY <1>1, <1>2, <2>1, <2>2, <2>3, <2>4, <2>5 DEF IInv, ScopeInv
<1>4. \A g \in Groups : task'[g] # "ready" BY <1>1, TreeFacts DEF IInv, Types
<1>5. task' \in [Nodes -> {"running", "ready"} \cup EndedTask] BY TreeFacts DEF IInv, Types
<1> QED BY <1>1, <1>2, <1>3, <1>4, <1>5, QuietStep DEF IInv, Types

\* A task is cancelled: an upstream's at any time, a group's after its members'.
LEMMA CancelStep ==
  ASSUME IInv, NEW n \in Nodes, task[n] \in {"running", "ready"}, Cancelled(n),
         \A m \in Members(n) : task[m] \in EndedTask,
         task' = [task EXCEPT ![n] = "cancelled"],
         UNCHANGED <<strategy, kind, duration, stream, received, winner, result, collected, aborted>>,
         reported \subseteq reported', reported' \subseteq Upstreams
  PROVE  IInv'
<1>1. \A m \in Nodes : m # n => task'[m] = task[m] BY DEF IInv, Types
<1>2. task'[n] = "cancelled" BY DEF IInv, Types
<1>3. ScopeInv'
  <2>1. \A m \in Nodes : Cancelled(m)' <=> Cancelled(m) BY DEF Cancelled
  <2>2. \A m \in Inner : m \in Nodes /\ Parent[m] \in Nodes BY TreeFacts
  <2>3. ASSUME NEW m \in Inner, task'[Parent[m]] \in EndedTask PROVE task'[m] \in EndedTask
    <3>1. CASE Parent[m] = n BY <1>1, <1>2, <2>2, <3>1, TreeFacts
    <3>2. CASE Parent[m] # n BY <1>1, <1>2, <2>2, <2>3, <3>2 DEF IInv, ScopeInv
    <3> QED BY <3>1, <3>2
  <2>4. \A m \in Nodes : task'[m] = "cancelled" => Cancelled(m)'
    BY <1>1, <2>1 DEF IInv, ScopeInv
  <2> QED BY <2>3, <2>4 DEF ScopeInv
<1>4. \A g \in Groups : task'[g] # "ready" BY <1>1, <1>2, TreeFacts DEF IInv, Types
<1>5. task' \in [Nodes -> {"running", "ready"} \cup EndedTask] BY DEF IInv, Types
<1> QED BY <1>1, <1>2, <1>3, <1>4, <1>5, QuietStep DEF IInv, Types

LEMMA LeavesHaveNoMembers == \A u \in Upstreams : Members(u) = {}
BY TreeFacts

LEMMA AbandonStep == ASSUME IInv, NEW u \in Upstreams, Abandon(u) PROVE IInv'
BY CancelStep, LeavesHaveNoMembers, TreeFacts DEF Abandon, IInv, Types

LEMMA AbandonGroupStep == ASSUME IInv, NEW g \in Groups, AbandonGroup(g) PROVE IInv'
BY CancelStep, TreeFacts DEF AbandonGroup, IInv, Types
-----------------------------------------------------------------------------
\* A coordinator takes a result from its stream, and keeps it or declares it the
\* winner.
LEMMA ReceiveStep ==
  ASSUME IInv, NEW g \in Groups, ReceiveRace(g) \/ ReceiveAll(g)
  PROVE  IInv'
<1> DEFINE u == Head(stream[g])
<1>1. /\ task[g] = "running" /\ winner[g] = Unknown /\ stream[g] # <<>>
      /\ stream' = [stream EXCEPT ![g] = Tail(@)]
      /\ UNCHANGED <<strategy, task, kind, duration, result, collected, reported, aborted>>
      /\ \/ strategy = "race" /\ IsSuccess(u) /\ winner' = [winner EXCEPT ![g] = u] /\ received' = received
         \/ (strategy = "wait_all" \/ ~IsSuccess(u)) /\ winner' = winner
              /\ received' = [received EXCEPT ![g] = Append(@, u)]
  BY DEF ReceiveRace, ReceiveAll, Receiving
<1>2. stream \in [Groups -> Seq(Upstreams)] /\ received \in [Groups -> Seq(Upstreams)]
  BY DEF IInv, Types
<1>3. u \in Upstreams /\ u \in Range(stream[g]) BY <1>1, <1>2, RangeTail
<1>4. /\ Tail(stream[g]) \in Seq(Upstreams)
      /\ Range(stream[g]) = Range(Tail(stream[g])) \cup {u}
  BY <1>1, <1>2, RangeTail
<1> HIDE DEF u
<1>5. /\ Append(received[g], u) \in Seq(Upstreams)
      /\ Range(Append(received[g], u)) = Range(received[g]) \cup {u}
  BY <1>2, <1>3, RangeAppend
<1>6. \A h \in Groups : h # g =>
        stream'[h] = stream[h] /\ received'[h] = received[h] /\ winner'[h] = winner[h]
  BY <1>1, <1>2 DEF IInv, Types
<1>7. /\ Range(stream'[g]) \cup {u} = Range(stream[g])
      /\ \/ winner'[g] = u /\ IsSuccess(u) /\ strategy = "race" /\ received'[g] = received[g]
         \/ winner'[g] = Unknown /\ Range(received'[g]) = Range(received[g]) \cup {u}
              /\ (strategy = "wait_all" \/ ~IsSuccess(u))
  BY <1>1, <1>2, <1>4, <1>5 DEF IInv, Types
<1>8. Types'
  <2>1. stream' \in [Groups -> Seq(Upstreams)] /\ received' \in [Groups -> Seq(Upstreams)]
    BY <1>1, <1>2, <1>4, <1>5
  <2>2. winner' \in [Groups -> Names] BY <1>1, <1>3 DEF IInv, Types, Names
  <2> QED BY <1>1, <2>1, <2>2 DEF IInv, Types
<1>9. u # Unknown BY <1>3, TreeFacts
<1>10. ScopeInv'
  <2>1. \A h \in Groups : winner[h] # Unknown => winner'[h] # Unknown BY <1>1, <1>6
  <2>2. \A n \in Nodes : Cancelled(n) => Cancelled(n)' BY <1>1, <2>1, CancelledStays
  <2> QED BY <1>1, <2>2 DEF IInv, ScopeInv
<1>11. \A n : ResultOf(n)' = ResultOf(n) BY <1>1 DEF ResultOf
<1>12. \A x : (IsSuccess(x)' <=> IsSuccess(x)) BY <1>1 DEF IsSuccess
<1>13. HeardInv'
  <2>1. ASSUME NEW h \in Groups,
               NEW x \in Range(stream'[h]) \cup Range(received'[h]) \cup ({winner'[h]} \ {Unknown})
        PROVE  \E n \in Members(h) : Done(n) /\ ResultOf(n) = x
    <3>1. CASE h # g BY <1>6, <2>1, <3>1 DEF IInv, HeardInv
    <3>2. CASE h = g
      <4>1. x \in Range(stream[g]) \cup Range(received[g]) BY <1>3, <1>7, <2>1, <3>2
      <4> QED BY <3>2, <4>1 DEF IInv, HeardInv
    <3> QED BY <3>1, <3>2
  <2>2. ASSUME NEW n \in Inner, Done(n)
        PROVE  \/ winner'[Parent[n]] # Unknown
               \/ ResultOf(n) \in Range(stream'[Parent[n]]) \cup Range(received'[Parent[n]])
    <3>1. Parent[n] \in Groups BY TreeFacts
    <3>2. CASE Parent[n] # g BY <1>6, <2>2, <3>1, <3>2 DEF IInv, HeardInv
    <3>3. CASE Parent[n] = g
      <4>1. ResultOf(n) \in Range(stream[g]) \cup Range(received[g])
        BY <1>1, <2>2, <3>3 DEF IInv, HeardInv
      <4> QED BY <1>7, <1>9, <3>3, <4>1
    <3> QED BY <3>2, <3>3
  <2>3. \A h \in Groups : winner'[h] # Unknown => IsSuccess(winner'[h]) /\ strategy = "race"
    BY <1>6, <1>7 DEF IInv, HeardInv
  <2>4. ASSUME strategy = "race", NEW h \in Groups, NEW x \in Range(received'[h])
        PROVE  ~IsSuccess(x)
    <3>1. CASE h # g BY <1>6, <2>4, <3>1 DEF IInv, HeardInv
    <3>2. CASE h = g BY <1>7, <2>4, <3>2 DEF IInv, HeardInv
    <3> QED BY <3>1, <3>2
  <2>5. \A x \in Upstreams : Done(x) => x \in reported BY DEF IInv, HeardInv
  <2> HIDE DEF Done
  <2>6. \A n : Done(n)' <=> Done(n) BY <1>1 DEF Done
  <2> QED BY <1>1, <1>11, <1>12, <2>1, <2>2, <2>3, <2>4, <2>5, <2>6 DEF HeardInv
<1>14. VerdictInv'
  <2> SUFFICES ASSUME NEW h \in Groups, Done(h) PROVE Verdict(h)'
    BY <1>1 DEF VerdictInv
  <2>1. h # g BY <1>1
  <2>2. Done(result[h])' BY <1>1 DEF IInv, VerdictInv, Verdict
  <2> QED BY <1>1, <1>6, <1>11, <2>1, <2>2, VerdictStays
<1>15. PathInv'
  <2>1. \A n, x : Carries(n, x)' <=> Carries(n, x) BY <1>1, <1>11 DEF Carries
  <2>2. \A n, x : OnTop(n, x)' <=> OnTop(n, x) BY <2>1 DEF OnTop
  <2>3. \A h \in Groups : Done(h)' => h # g /\ Done(h) BY <1>1
  <2>4. \A x \in Upstreams : \A m, n \in Nodes : OnTop(m, x)' /\ OnTop(n, x)' => m = n
    BY <2>2 DEF IInv, PathInv
  <2>5. ASSUME strategy = "wait_all", NEW h \in Groups, Done(h)'
        PROVE  \/ collected'[result'[h]] = Range(received'[h])
               \/ h # Root /\ Carries(Parent[h], result[h])'
    BY <1>1, <1>6, <2>1, <2>3, <2>5 DEF IInv, PathInv
  <2> QED BY <1>1, <2>4, <2>5 DEF PathInv
<1> QED BY <1>8, <1>10, <1>13, <1>14, <1>15 DEF IInv
-----------------------------------------------------------------------------
\* A task returns the result u and sends it to its group: an upstream's task, or
\* that of a group whose verdict is right.
LEMMA DeliverStep ==
  ASSUME IInv, NEW n \in Nodes, task[n] \in {"running", "ready"},
         \A m \in Members(n) : task[m] \in EndedTask,
         task' = [task EXCEPT ![n] = "done"],
         NEW u \in Upstreams, ResultOf(n)' = u, n \in Groups => Verdict(n)',
         stream' = IF n = Root THEN stream ELSE [stream EXCEPT ![Parent[n]] = Append(@, u)],
         UNCHANGED <<strategy, kind, duration, received, winner, aborted>>,
         result' \in [Groups -> Names], \A g \in Groups : g # n => result'[g] = result[g],
         collected' \in [Names -> SUBSET Names], n \in Upstreams => collected' = collected,
         n \in Groups /\ strategy = "wait_all" =>
           collected' = [collected EXCEPT ![u] = Range(received[n])],
         reported \subseteq reported', reported' \subseteq Upstreams,
         n \in Upstreams => n \in reported'
  PROVE  IInv'
<1> HIDE DEF Done
<1>1. task'[n] = "done" /\ \A m \in Nodes : m # n => task'[m] = task[m] BY DEF IInv, Types
<1>2. Done(n)' /\ ~Done(n) BY <1>1 DEF Done
<1>3. \A m \in Nodes : m # n => (Done(m)' <=> Done(m)) /\ ResultOf(m)' = ResultOf(m)
  <2>1. \A m \in Nodes : m # n => (Done(m)' <=> Done(m)) BY <1>1 DEF Done
  <2>2. \A m \in Nodes : m # n => ResultOf(m)' = ResultOf(m) BY TreeFacts DEF ResultOf
  <2> QED BY <2>1, <2>2
<1>4. \A x : IsSuccess(x)' <=> IsSuccess(x) BY DEF IsSuccess
<1>5. /\ stream' \in [Groups -> Seq(Upstreams)]
      /\ \A g \in Groups : Range(stream[g]) \subseteq Range(stream'[g])
      /\ \A g \in Groups : \A x \in Range(stream'[g]) :
           x \in Range(stream[g]) \/ (n # Root /\ g = Parent[n] /\ x = u)
      /\ n # Root => u \in Range(stream'[Parent[n]])
  <2>1. stream \in [Groups -> Seq(Upstreams)] BY DEF IInv, Types
  <2>2. CASE n = Root BY <2>1, <2>2
  <2>3. CASE n # Root
    <3> DEFINE p == Parent[n]
    <3>1. p \in Groups BY <2>3, TreeFacts DEF Inner
    <3>2. stream' = [stream EXCEPT ![p] = Append(stream[p], u)] BY <2>3
    <3> HIDE DEF p
    <3>3. Append(stream[p], u) \in Seq(Upstreams)
          /\ Range(Append(stream[p], u)) = Range(stream[p]) \cup {u}
      BY <2>1, <3>1, RangeAppend
    <3>4. stream' \in [Groups -> Seq(Upstreams)] BY <2>1, <3>1, <3>2, <3>3
    <3>5. stream'[p] = Append(stream[p], u) /\ \A g \in Groups : g # p => stream'[g] = stream[g]
      BY <2>1, <3>1, <3>2
    <3> QED BY <2>3, <3>3, <3>4, <3>5 DEF p
  <2> QED BY <2>2, <2>3
<1>6. Types'
  <2>1. task' \in [Nodes -> {"running", "ready"} \cup EndedTask] BY DEF IInv, Types
  <2>2. \A g \in Groups : task'[g] # "ready" BY <1>1, TreeFacts DEF IInv, Types
  <2> QED BY <1>5, <2>1, <2>2 DEF IInv, Types
<1>7. ScopeInv'
  <2>1. \A m \in Nodes : Cancelled(m)' <=> Cancelled(m) BY DEF Cancelled
  <2>2. \A m \in Inner : m \in Nodes /\ Parent[m] \in Nodes BY TreeFacts
  <2>3. ASSUME NEW m \in Inner, task'[Parent[m]] \in EndedTask PROVE task'[m] \in EndedTask
    <3>1. CASE Parent[m] = n BY <1>1, <2>2, <3>1, TreeFacts
    <3>2. CASE Parent[m] # n BY <1>1, <2>2, <2>3, <3>2 DEF IInv, ScopeInv
    <3> QED BY <3>1, <3>2
  <2>4. \A m \in Nodes : task'[m] = "cancelled" => Cancelled(m)'
    BY <1>1, <2>1 DEF IInv, ScopeInv
  <2> QED BY <2>3, <2>4 DEF ScopeInv
<1>8. HeardInv'
  <2>1. ASSUME NEW g \in Groups,
               NEW x \in Range(stream'[g]) \cup Range(received[g]) \cup ({winner[g]} \ {Unknown})
        PROVE  \E m \in Members(g) : Done(m)' /\ ResultOf(m)' = x
    <3>1. CASE x \in Range(stream[g]) \cup Range(received[g]) \cup ({winner[g]} \ {Unknown})
      <4>1. PICK m \in Members(g) : Done(m) /\ ResultOf(m) = x BY <3>1 DEF IInv, HeardInv
      <4>2. m \in Nodes /\ m # n BY <1>2, <4>1, TreeFacts
      <4> QED BY <1>3, <4>1, <4>2
    <3>2. CASE n # Root /\ g = Parent[n] /\ x = u
      <4>1. n \in Members(g) BY <3>2, TreeFacts DEF Inner
      <4> QED BY <1>2, <3>2, <4>1
    <3> QED BY <1>5, <2>1, <3>1, <3>2
  <2>2. ASSUME NEW m \in Inner, Done(m)'
        PROVE  \/ winner[Parent[m]] # Unknown
               \/ ResultOf(m)' \in Range(stream'[Parent[m]]) \cup Range(received[Parent[m]])
    <3>1. Parent[m] \in Groups /\ m \in Nodes /\ m # Root BY TreeFacts
    <3>2. CASE m = n BY <1>5, <3>1, <3>2
    <3>3. CASE m # n
      <4>1. Done(m) /\ ResultOf(m)' = ResultOf(m) BY <1>3, <2>2, <3>1, <3>3
      <4>2. \/ winner[Parent[m]] # Unknown
            \/ ResultOf(m) \in Range(stream[Parent[m]]) \cup Range(received[Parent[m]])
        BY <4>1 DEF IInv, HeardInv
      <4>3. Range(stream[Parent[m]]) \subseteq Range(stream'[Parent[m]]) BY <1>5, <3>1
      <4> QED BY <4>1, <4>2, <4>3
    <3> QED BY <3>2, <3>3
  <2>3. \A x \in Upstreams : Done(x)' => x \in reported'
    <3>1. \A x \in Upstreams : Done(x) => x \in reported BY DEF IInv, HeardInv
    <3> QED BY <1>3, <3>1, TreeFacts
  <2>4. \A g \in Groups : winner[g] # Unknown => IsSuccess(winner[g]) /\ strategy = "race"
    BY DEF IInv, HeardInv
  <2>5. strategy = "race" => \A g \in Groups : \A x \in Range(received[g]) : ~IsSuccess(x)
    BY DEF IInv, HeardInv
  <2>6. \A g : Members(g)' = Members(g) BY DEF Members
  <2>7. Inner' = Inner BY DEF Inner
  <2> QED BY <1>4, <2>1, <2>2, <2>3, <2>4, <2>5, <2>6, <2>7 DEF HeardInv
<1>9. VerdictInv'
  <2> SUFFICES ASSUME NEW g \in Groups, Done(g)' PROVE Verdict(g)' BY DEF VerdictInv
  <2>1. CASE g = n BY <2>1
  <2>2. CASE g # n
    <3>1. g \in Nodes /\ Done(g) BY <1>3, <2>2, TreeFacts
    <3>2. \A m \in Members(g) : m \in Nodes /\ m # n
      <4>1. \A m \in Members(g) : m \in Inner /\ Parent[m] = g /\ m \in Nodes BY TreeFacts
      <4>2. task[g] \in EndedTask BY <3>1 DEF Done
      <4> QED BY <4>1, <4>2 DEF IInv, ScopeInv
    <3>3. result[g] \in Upstreams /\ Done(result[g]) BY <3>1 DEF IInv, VerdictInv, Verdict
    <3>4. result'[g] = result[g] BY <2>2
    <3>5. task[result[g]] = "done" => task'[result[g]] = "done" BY <1>1, <3>3, TreeFacts
    <3>6. Done(result[g])' BY <3>3, <3>4, <3>5 DEF Done
    <3> QED BY <1>3, <3>1, <3>2, <3>4, <3>6, VerdictStays
  <2> QED BY <2>1, <2>2
<1>10. PathInv'
  <2>1. \A m \in Nodes : \A x : m # n => (Carries(m, x)' <=> Carries(m, x)) BY <1>3 DEF Carries
  <2>2. \A x : Carries(n, x)' <=> x = u BY <1>2 DEF Carries
  <2>3. \A x : ~Carries(n, x) BY <1>2 DEF Carries
  <2>4. \A m \in Nodes : m # Root => Parent[m] \in Nodes BY TreeFacts DEF Inner
  <2>5. ASSUME NEW x \in Upstreams, NEW m \in Nodes, OnTop(m, x)', m # n PROVE OnTop(m, x)
    <3>1. Carries(m, x) BY <2>1, <2>5 DEF OnTop
    <3>2. m # Root => ~Carries(Parent[m], x) BY <2>1, <2>3, <2>4, <2>5 DEF OnTop
    <3> QED BY <3>1, <3>2 DEF OnTop
  \* Before, nothing but the member the result came from was on top.
  <2>6. ASSUME NEW m \in Nodes, OnTop(m, u), m # n PROVE n \in Groups /\ m \in Members(n)
    <3>1. Carries(m, u) BY <2>6 DEF OnTop
    <3>2. Done(u) BY <3>1, DoneResult DEF Carries
    <3>3. n \notin Upstreams BY <1>2, <3>2 DEF ResultOf
    <3>4. n \in Groups BY <3>3, TreeFacts
    <3>5. result'[n] = u BY <3>3 DEF ResultOf
    <3>6. PICK k \in Members(n) : Done(k)' /\ ResultOf(k)' = u BY <3>4, <3>5 DEF Verdict
    <3>7. k \in Inner /\ Parent[k] = n /\ k \in Nodes /\ k # Root
      BY TreeFacts DEF Inner
    <3>8. k # n BY <3>7, NotItsParent
    <3>9. Carries(k, u) BY <1>3, <3>6, <3>7, <3>8 DEF Carries
    <3>10. OnTop(k, u) BY <2>3, <3>7, <3>9 DEF OnTop
    <3>11. m = k BY <2>6, <3>7, <3>10 DEF IInv, PathInv
    <3> QED BY <3>4, <3>11
  <2>7. ASSUME NEW m \in Nodes, OnTop(m, u)' PROVE m = n
    <3> SUFFICES ASSUME m # n PROVE FALSE OBVIOUS
    <3>1. m \in Members(n) BY <2>5, <2>6, <2>7
    <3>2. m # Root /\ Parent[m] = n BY <3>1, TreeFacts
    <3> QED BY <2>2, <2>7, <3>2 DEF OnTop
  <2>8. ASSUME NEW x \in Upstreams, NEW m \in Nodes, NEW k \in Nodes, OnTop(m, x)', OnTop(k, x)'
        PROVE  m = k
    <3>1. CASE x = u BY <2>7, <2>8, <3>1
    <3>2. CASE x # u
      <4>1. m # n /\ k # n BY <2>2, <2>8, <3>2 DEF OnTop
      <4> QED BY <2>5, <2>8, <4>1 DEF IInv, PathInv
    <3> QED BY <3>1, <3>2
  <2>9. ASSUME strategy = "wait_all", NEW g \in Groups, Done(g)'
        PROVE  \/ collected'[result'[g]] = Range(received[g])
               \/ g # Root /\ Carries(Parent[g], result[g])'
    <3>1. collected \in [Names -> SUBSET Names] /\ u \in Names BY DEF IInv, Types, Names
    <3>2. CASE g = n
      <4>1. result'[g] = u BY <3>2, TreeFacts DEF ResultOf
      <4> QED BY <2>9, <3>1, <3>2, <4>1
    <3>3. CASE g # n
      <4>1. g \in Nodes /\ Done(g) /\ result'[g] = result[g] BY <1>3, <2>9, <3>3, TreeFacts
      <4>2. ResultOf(g) = result[g] BY TreeFacts DEF ResultOf
      <4>3. CASE g # Root /\ Carries(Parent[g], result[g])
        <5>1. Parent[g] \in Nodes /\ Parent[g] # n BY <2>3, <2>4, <4>1, <4>3
        <5>2. Carries(Parent[g], result[g])' BY <1>3, <4>1, <4>3, <5>1 DEF Carries
        <5> QED BY <4>3, <5>2
      <4>4. CASE ~(g # Root /\ Carries(Parent[g], result[g]))
        <5>1. collected[result[g]] = Range(received[g]) BY <2>9, <4>1, <4>4 DEF IInv, PathInv
        <5>2. CASE result[g] # u
          <6>1. result[g] \in Names BY DEF IInv, Types
          <6>2. collected'[result[g]] = collected[result[g]] BY <2>9, <3>1, <5>2, <6>1, TreeFacts
          <6> QED BY <4>1, <5>1, <6>2
        <5>3. CASE result[g] = u
          <6>1. Carries(g, u) BY <4>1, <4>2, <5>3 DEF Carries
          <6>2. OnTop(g, u) BY <4>4, <5>3, <6>1 DEF OnTop
          <6>3. n \in Groups /\ g \in Members(n) BY <2>6, <3>3, <4>1, <6>2
          <6>4. g # Root /\ Parent[g] = n BY <6>3, TreeFacts
          <6>5. Carries(Parent[g], result[g])' BY <1>2, <4>1, <5>3, <6>4 DEF Carries
          <6> QED BY <6>4, <6>5
        <5> QED BY <5>2, <5>3
      <4> QED BY <4>3, <4>4
    <3> QED BY <3>2, <3>3
  <2> QED BY <2>8, <2>9 DEF PathInv
<1> QED BY <1>6, <1>7, <1>8, <1>9, <1>10 DEF IInv

LEMMA ResumeStep ==
  ASSUME IInv, NEW u \in Upstreams, Resume(u)
  PROVE  IInv'
<1>1. /\ task[u] = "ready" /\ reported' = reported \cup {u}
      /\ UNCHANGED <<strategy, kind, duration, received, winner, result, collected, aborted>>
  BY DEF Resume
<1>2. u \in Nodes /\ u # Root /\ u \notin Groups /\ Members(u) = {}
  BY TreeFacts, LeavesHaveNoMembers
<1>3. reported' \subseteq Upstreams BY <1>1 DEF IInv, Types
<1>4. CASE Cancelled(u)
  <2>1. task' = [task EXCEPT ![u] = "cancelled"] /\ stream' = stream BY <1>4 DEF Resume
  <2> QED BY <1>1, <1>2, <1>3, <1>4, <2>1, CancelStep
<1>5. CASE ~Cancelled(u)
  <2>1. /\ task' = [task EXCEPT ![u] = "done"]
        /\ stream' = [stream EXCEPT ![Parent[u]] = Append(@, u)]
    BY <1>5 DEF Resume
  <2>2. ResultOf(u)' = u BY DEF ResultOf
  <2>3. result \in [Groups -> Names] /\ collected \in [Names -> SUBSET Names] BY DEF IInv, Types
  <2> QED BY <1>1, <1>2, <1>3, <2>1, <2>2, <2>3, DeliverStep
<1> QED BY <1>4, <1>5

\* When a group is left without a winner all its members have returned, and it
\* has received what they returned.
LEMMA AllHeard ==
  ASSUME IInv, NEW g \in Groups, AllIn(g), winner[g] = Unknown
  PROVE  /\ \A n \in Members(g) : Done(n) /\ ResultOf(n) \in Range(received[g])
         /\ received[g] \in Seq(Upstreams) /\ received[g] # <<>>
<1>1. received[g] \in Seq(Upstreams) BY DEF IInv, Types
<1>2. stream[g] = <<>> BY DEF AllIn
<1>3. ASSUME NEW n \in Members(g) PROVE Done(n) /\ ResultOf(n) \in Range(received[g])
  <2>1. n \in Inner /\ Parent[n] = g /\ n \in Nodes BY TreeFacts
  <2>2. ~Cancelled(n) BY <2>1, CancelledUp DEF AllIn
  <2>3. Done(n) BY <2>1, <2>2 DEF AllIn, IInv, ScopeInv
  <2>4. ResultOf(n) \in Range(stream[g]) \cup Range(received[g]) BY <2>1, <2>3 DEF IInv, HeardInv
  <2> QED BY <1>2, <2>3, <2>4, RangeEmpty
<1>4. received[g] # <<>>
  <2>1. PICK n \in Members(g) : TRUE BY DispatcherAssumption
  <2> QED BY <1>3, <2>1, RangeEmpty
<1> QED BY <1>1, <1>3, <1>4

\* What a group returns.
Chosen(g) ==
  IF strategy = "race"
  THEN IF winner[g] # Unknown THEN winner[g] ELSE PickFailure(received[g])
  ELSE IF Fastest(received[g]) # Unknown THEN Fastest(received[g]) ELSE PickFailure(received[g])

LEMMA ChosenIsRight ==
  ASSUME IInv, NEW g \in Groups, AllIn(g), NEW u, u = Chosen(g)
  PROVE  /\ \E n \in Members(g) : Done(n) /\ ResultOf(n) = u
         /\ winner[g] # Unknown => IsSuccess(u)
         /\ ~IsSuccess(u) => \A n \in Members(g) : ~IsSuccess(ResultOf(n)) /\ (IsNx(ResultOf(n)) => IsNx(u))
         /\ strategy = "wait_all" =>
              \A n \in Members(g) : IsSuccess(ResultOf(n)) =>
                IsSuccess(u) /\ duration[u] <= duration[ResultOf(n)]
<1>1. strategy \in {"race", "wait_all"} BY DEF IInv, Types
<1>2. CASE winner[g] # Unknown
  <2>1. strategy = "race" /\ u = winner[g] /\ IsSuccess(u) BY <1>2 DEF Chosen, IInv, HeardInv
  <2> QED BY <1>2, <2>1 DEF IInv, HeardInv
<1>3. CASE winner[g] = Unknown
  <2> DEFINE s == received[g]
  <2>1. /\ \A n \in Members(g) : Done(n) /\ ResultOf(n) \in Range(s)
        /\ s \in Seq(Upstreams) /\ s # <<>>
    BY <1>3, AllHeard
  <2>2. \A x \in Range(s) : \E n \in Members(g) : Done(n) /\ ResultOf(n) = x
    BY DEF IInv, HeardInv
  <2>3. strategy = "race" => \A x \in Range(s) : ~IsSuccess(x) BY DEF IInv, HeardInv
  <2>4. Types BY DEF IInv
  <2>5. CASE strategy = "wait_all" /\ Fastest(s) # Unknown
    <3>1. u = Fastest(s) BY <2>5 DEF Chosen
    <3>2. u \in Range(s) /\ IsSuccess(u)
          /\ \A x \in Range(s) : IsSuccess(x) => duration[u] <= duration[x]
      BY <2>1, <2>4, <2>5, <3>1, FastestIs
    <3> QED BY <1>3, <2>1, <2>2, <3>2
  <2>6. CASE strategy = "race" \/ Fastest(s) = Unknown
    <3>1. u = PickFailure(s) BY <1>1, <1>3, <2>6 DEF Chosen
    <3>2. \A x \in Range(s) : ~IsSuccess(x) BY <2>1, <2>3, <2>4, <2>6, FastestIs
    <3>3. u \in Range(s) /\ \A x \in Range(s) : IsNx(x) => IsNx(u)
      BY <2>1, <2>4, <3>1, <3>2, PickFailureIs
    <3> QED BY <1>3, <2>1, <2>2, <3>2, <3>3
  <2> QED BY <1>1, <2>5, <2>6
<1> QED BY <1>2, <1>3

LEMMA EndStep ==
  ASSUME IInv, NEW g \in Groups, EndRace(g) \/ EndAll(g)
  PROVE  IInv'
<1>1. PICK u : u = Chosen(g) OBVIOUS
<1>2. /\ AllIn(g) /\ task' = [task EXCEPT ![g] = "done"]
      /\ result' = [result EXCEPT ![g] = u]
      /\ stream' = IF g = Root THEN stream ELSE [stream EXCEPT ![Parent[g]] = Append(@, u)]
      /\ UNCHANGED <<strategy, kind, duration, received, winner, reported, aborted>>
      /\ \/ strategy = "race" /\ collected' = collected
         \/ strategy = "wait_all" /\ collected' = [collected EXCEPT ![u] = Range(received[g])]
  BY <1>1 DEF EndRace, EndAll, Return, Chosen
<1>3. /\ \E n \in Members(g) : Done(n) /\ ResultOf(n) = u
      /\ winner[g] # Unknown => IsSuccess(u)
      /\ ~IsSuccess(u) => \A n \in Members(g) : ~IsSuccess(ResultOf(n)) /\ (IsNx(ResultOf(n)) => IsNx(u))
      /\ strategy = "wait_all" =>
           \A n \in Members(g) : IsSuccess(ResultOf(n)) =>
             IsSuccess(u) /\ duration[u] <= duration[ResultOf(n)]
  BY <1>1, <1>2, ChosenIsRight
<1>4. /\ task[g] = "running" /\ \A m \in Members(g) : task[m] \in EndedTask BY <1>2 DEF AllIn
<1>5. PICK k \in Members(g) : Done(k) /\ ResultOf(k) = u BY <1>3
<1>6. u \in Upstreams /\ Done(u) BY <1>5, DoneResult, TreeFacts
<1>7. u \in Names /\ u \in Nodes /\ u # g BY <1>6, TreeFacts DEF Names
<1>8. result' \in [Groups -> Names] /\ result'[g] = u /\ \A h \in Groups : h # g => result'[h] = result[h]
  BY <1>2, <1>7 DEF IInv, Types
<1>9. \A m \in Nodes : m # g => task'[m] = task[m] BY <1>2 DEF IInv, Types
<1>10. \A m \in Members(g) : m \in Nodes /\ m # g BY <1>4, TreeFacts
<1>11. \A m \in Members(g) : (Done(m)' <=> Done(m)) /\ ResultOf(m)' = ResultOf(m)
  <2>1. \A m \in Members(g) : ResultOf(m)' = ResultOf(m) BY <1>8, <1>10, TreeFacts DEF ResultOf
  <2> QED BY <1>9, <1>10, <2>1
<1>12. \A x : (IsSuccess(x)' <=> IsSuccess(x)) /\ (IsNx(x)' <=> IsNx(x))
  BY <1>2 DEF IsSuccess, IsNx
<1>13. winner[g] = Unknown => \A n \in Members(g) : Done(n) /\ ResultOf(n) \in Range(received[g])
  BY <1>2, AllHeard
<1>14. Done(u)' BY <1>6, <1>7, <1>9
<1>15. Verdict(g)'
  <2> HIDE DEF Done
  <2>1. Members(g)' = Members(g) BY DEF Members
  <2> QED BY <1>2, <1>3, <1>5, <1>6, <1>8, <1>11, <1>12, <1>13, <1>14, <2>1 DEF Verdict
<1>16. collected' \in [Names -> SUBSET Names]
  <2>1. received[g] \in Seq(Upstreams) /\ collected \in [Names -> SUBSET Names] BY DEF IInv, Types
  <2>2. Range(received[g]) \in SUBSET Names BY <2>1, RangeIndexed DEF Names
  <2> QED BY <1>2, <1>7, <2>1, <2>2
<1>17. ResultOf(g)' = u /\ g \in Nodes /\ g \notin Upstreams BY <1>8, TreeFacts DEF ResultOf
<1>18. reported \subseteq Upstreams BY DEF IInv, Types
<1>19. task[g] \in {"running", "ready"} /\ task' = [task EXCEPT ![g] = "done"] BY <1>2, <1>4
<1>20. UNCHANGED <<strategy, kind, duration, received, winner, aborted>>
  /\ reported \subseteq reported' /\ reported' \subseteq Upstreams
  BY <1>2, <1>18
<1>21. g \in Groups /\ strategy = "wait_all" =>
         collected' = [collected EXCEPT ![u] = Range(received[g])]
  BY <1>2
<1>22. \A m \in Members(g) : task[m] \in EndedTask BY <1>4
<1>23. stream' = IF g = Root THEN stream ELSE [stream EXCEPT ![Parent[g]] = Append(@, u)] BY <1>2
<1>24. g \in Nodes /\ u \in Upstreams /\ ResultOf(g)' = u /\ g \notin Upstreams BY <1>6, <1>17
<1>25. result' \in [Groups -> Names] /\ \A h \in Groups : h # g => result'[h] = result[h] BY <1>8
<1> HIDE DEF Done
<1> QED BY <1>15, <1>16, <1>19, <1>20, <1>21, <1>22, <1>23, <1>24, <1>25, DeliverStep
-----------------------------------------------------------------------------
(***************************************************************************)
(* The theorems                                                            *)
(***************************************************************************)
LEMMA InitIInv == Init => IInv
<1> SUFFICES ASSUME Init PROVE IInv OBVIOUS
<1> USE DEF Init
<1>1. \A n \in Nodes : task[n] = "running" /\ ~Done(n) OBVIOUS
<1>2. Types
  <2>1. <<>> \in Seq(Upstreams) OBVIOUS
  <2> QED BY <1>1, <2>1, TreeFacts DEF Types, Names
<1>3. ScopeInv BY <1>1, TreeFacts DEF ScopeInv
<1>4. HeardInv
  <2>1. \A g \in Groups : Range(stream[g]) = {} /\ Range(received[g]) = {} /\ winner[g] = Unknown
    BY RangeEmpty
  <2> QED BY <1>1, <2>1, TreeFacts DEF HeardInv
<1>5. VerdictInv BY <1>1, TreeFacts DEF VerdictInv
<1>6. PathInv BY <1>1, TreeFacts DEF PathInv, OnTop, Carries
<1> QED BY <1>2, <1>3, <1>4, <1>5, <1>6 DEF IInv

LEMMA NextIInv == IInv /\ [Next]_vars => IInv'
<1> SUFFICES ASSUME IInv, [Next]_vars PROVE IInv' OBVIOUS
<1>1. ASSUME NEW u \in Upstreams, Reply(u) \/ TaskStep(u) PROVE IInv'
  BY <1>1, ReplyStep, ResumeStep, AbandonStep DEF TaskStep
<1>2. ASSUME NEW g \in Groups, GroupStep(g) PROVE IInv'
  BY <1>2, ReceiveStep, EndStep, AbandonGroupStep DEF GroupStep
<1>3. CASE Abort BY <1>3, AbortStep
<1>4. CASE UNCHANGED vars
  <2>1. ScopeInv' BY <1>4 DEF IInv, ScopeInv, Cancelled
  <2> QED BY <1>4, <2>1, QuietStep DEF IInv, Types
<1> QED BY <1>1, <1>2, <1>3, <1>4 DEF Next

\* Every reachable state satisfies the inductive invariant.
THEOREM DispatchInvariant == Spec => []IInv
BY InitIInv, NextIInv, PTL DEF Spec

\* Whatever the tree of groups, no task of a dispatch is left when it is over, be
\* it by a result or by cancellation.
THEOREM NoTaskIsLeft == Spec => []TaskInv
<1>1. IInv => TaskInv
  <2> SUFFICES ASSUME IInv PROVE TaskInv OBVIOUS
  <2>1. TypeOK
    <3>1. \A s : s \in Seq(Upstreams) => s \in Seq(Names) BY DEF Names
    <3> QED BY <3>1 DEF IInv, Types, TypeOK
  <2>2. ASSUME task[Root] \in EndedTask PROVE \A n \in Nodes : task[n] \in EndedTask
    <3> DEFINE S == {n \in Nodes : task[n] \in EndedTask}
    <3>1. Root \in S BY <2>2, TreeFacts
    <3>2. \A n \in Inner : Parent[n] \in S => n \in S BY TreeFacts DEF IInv, ScopeInv
    <3>3. S = Nodes
      <4>1. S \in SUBSET Nodes OBVIOUS
      <4> HIDE DEF S
      <4> QED BY <3>1, <3>2, <4>1, FromTheRoot
    <3> QED BY <3>3
  <2> QED BY <2>1, <2>2 DEF TaskInv, NoTaskOutlivesDispatch
<1> QED BY <1>1, DispatchInvariant, PTL

\* If the root returned a failure, or waited for all, every task below it has
\* returned.
LEMMA AllReturned ==
  ASSUME IInv, Returned, ~IsSuccess(result[Root]) \/ strategy = "wait_all"
  PROVE  /\ \A n \in Nodes : Done(n)
         /\ ~IsSuccess(result[Root]) => \A n \in Nodes : ~IsSuccess(ResultOf(n))
<1> USE DEF IInv
<1>1. Root \in Nodes /\ Root \in Groups /\ Done(Root) /\ ResultOf(Root) = result[Root]
  BY TreeFacts DEF Returned, ResultOf
<1>2. \A n \in Groups : ResultOf(n) = result[n] BY TreeFacts DEF ResultOf
<1>3. strategy = "wait_all" => \A g \in Groups : winner[g] = Unknown BY DEF HeardInv
<1>4. ASSUME strategy = "wait_all" PROVE \A n \in Nodes : Done(n)
  <2> DEFINE S == {n \in Nodes : Done(n)}
  <2>1. ASSUME NEW n \in Inner, Parent[n] \in S PROVE n \in S
    <3>1. Parent[n] \in Groups /\ n \in Members(Parent[n]) /\ n \in Nodes BY TreeFacts
    <3> QED BY <1>3, <1>4, <2>1, <3>1 DEF VerdictInv, Verdict
  <2>2. S \in SUBSET Nodes /\ Root \in S BY <1>1
  <2> HIDE DEF S
  <2>3. S = Nodes BY <2>1, <2>2, FromTheRoot
  <2> QED BY <2>3 DEF S
<1>5. ASSUME ~IsSuccess(result[Root]) PROVE \A n \in Nodes : Done(n) /\ ~IsSuccess(ResultOf(n))
  <2> DEFINE S == {n \in Nodes : Done(n) /\ ~IsSuccess(ResultOf(n))}
  <2>1. ASSUME NEW n \in Inner, Parent[n] \in S PROVE n \in S
    <3> DEFINE g == Parent[n]
    <3>1. g \in Groups /\ n \in Members(g) /\ n \in Nodes BY TreeFacts
    <3>2. Done(g) /\ ~IsSuccess(result[g]) BY <1>2, <2>1, <3>1
    <3>3. Verdict(g) BY <3>1, <3>2 DEF VerdictInv
    <3> HIDE DEF g
    <3>4. winner[g] = Unknown BY <3>2, <3>3 DEF Verdict
    <3> QED BY <3>1, <3>2, <3>3, <3>4 DEF Verdict
  <2>2. S \in SUBSET Nodes /\ Root \in S BY <1>1, <1>5
  <2> HIDE DEF S
  <2>3. S = Nodes BY <2>1, <2>2, FromTheRoot
  <2> QED BY <2>3 DEF S
<1> QED BY <1>4, <1>5

\* Whatever the tree of groups and the order of replies: a dispatch fails only if
\* every upstream below it failed, and with NXDOMAIN if one said so; wait_all
\* returns the fastest of all successes and keeps every result, but those of a
\* group whose own result is returned above it.
THEOREM VerdictIsRight == Spec => []RightVerdict
<1>1. IInv => FailureMeansAllFailed
  <2> SUFFICES ASSUME IInv, Returned, ~IsSuccess(result[Root])
               PROVE  /\ reported = Upstreams /\ \A u \in Upstreams : ~IsSuccess(u)
                      /\ \A u \in Upstreams : kind[u] = "nxdomain" => kind[result[Root]] = "nxdomain"
    BY DEF FailureMeansAllFailed
  <2>1. \A n \in Nodes : Done(n) /\ ~IsSuccess(ResultOf(n)) BY AllReturned
  <2>2. \A u \in Upstreams : u \in Nodes /\ ResultOf(u) = u BY TreeFacts DEF ResultOf
  <2>3. reported = Upstreams
    <3>1. reported \subseteq Upstreams BY DEF IInv, Types
    <3>2. \A u \in Upstreams : u \in reported BY <2>1, <2>2 DEF IInv, HeardInv
    <3> QED BY <3>1, <3>2
  <2>4. \A u \in Upstreams : IsNx(u) => IsNx(result[Root])
    <3> DEFINE S == {n \in Nodes : IsNx(ResultOf(n)) => IsNx(result[Root])}
    <3>1. ASSUME NEW n \in Inner, Parent[n] \in S PROVE n \in S
      <4> DEFINE g == Parent[n]
      <4>1. g \in Groups /\ g \in Nodes /\ n \in Members(g) /\ n \in Nodes BY TreeFacts
      <4>2. ResultOf(g) = result[g] BY <4>1, TreeFacts DEF ResultOf
      <4>3. Verdict(g) /\ ~IsSuccess(result[g]) BY <2>1, <4>1, <4>2 DEF IInv, VerdictInv
      <4>4. IsNx(ResultOf(g)) => IsNx(result[Root]) BY <3>1
      <4> HIDE DEF g
      <4> QED BY <4>1, <4>2, <4>3, <4>4 DEF Verdict
    <3>2. S \in SUBSET Nodes /\ Root \in S BY TreeFacts DEF ResultOf
    <3> HIDE DEF S
    <3>3. S = Nodes BY <3>1, <3>2, FromTheRoot
    <3> QED BY <2>2, <3>3 DEF S
  <2> QED BY <2>1, <2>2, <2>3, <2>4 DEF IsNx
<1>2. IInv => FastestOfAll
  <2> SUFFICES ASSUME IInv, Returned, strategy = "wait_all"
               PROVE  /\ reported = Upstreams
                      /\ \A u \in Upstreams : IsSuccess(u) =>
                           IsSuccess(result[Root]) /\ duration[result[Root]] <= duration[u]
    BY DEF FastestOfAll
  <2>1. \A n \in Nodes : Done(n) BY AllReturned
  <2>2. \A u \in Upstreams : u \in Nodes /\ ResultOf(u) = u BY TreeFacts DEF ResultOf
  <2>3. reported = Upstreams
    <3>1. reported \subseteq Upstreams BY DEF IInv, Types
    <3>2. \A u \in Upstreams : u \in reported BY <2>1, <2>2 DEF IInv, HeardInv
    <3> QED BY <3>1, <3>2
  <2>4. \A u \in Upstreams : IsSuccess(u) =>
          IsSuccess(result[Root]) /\ duration[result[Root]] <= duration[u]
    <3> DEFINE top == result[Root]
               S == {n \in Nodes : IsSuccess(ResultOf(n)) =>
                       IsSuccess(top) /\ duration[top] <= duration[ResultOf(n)]}
    <3>1. \A u : IsSuccess(u) => duration[u] \in Nat
      BY DispatcherAssumption DEF IsSuccess, IInv, Types
    <3>2. ASSUME NEW n \in Inner, Parent[n] \in S PROVE n \in S
      <4> DEFINE g == Parent[n]
                 x == ResultOf(n)
      <4>1. g \in Groups /\ g \in Nodes /\ n \in Members(g) /\ n \in Nodes BY TreeFacts
      <4>2. ResultOf(g) = result[g] BY <4>1, TreeFacts DEF ResultOf
      <4>3. Verdict(g) BY <2>1, <4>1 DEF IInv, VerdictInv
      <4>4. IsSuccess(x) => IsSuccess(result[g]) /\ duration[result[g]] <= duration[x]
        BY <4>1, <4>3 DEF Verdict
      <4>5. IsSuccess(result[g]) => IsSuccess(top) /\ duration[top] <= duration[result[g]]
        BY <3>2, <4>2
      <4>6. ASSUME IsSuccess(x) PROVE IsSuccess(top) /\ duration[top] <= duration[x]
        <5> HIDE DEF x, top, g
        <5> QED BY <3>1, <4>4, <4>5, <4>6
      <4> QED BY <4>1, <4>6
    <3>3. S \in SUBSET Nodes /\ Root \in S
      <4>1. ResultOf(Root) = top /\ Root \in Nodes BY TreeFacts DEF ResultOf
      <4>2. \A d \in Nat : d <= d OBVIOUS
      <4> QED BY <3>1, <4>1, <4>2
    <3> HIDE DEF S
    <3>4. S = Nodes BY <3>2, <3>3, FromTheRoot
    <3> QED BY <2>2, <3>4 DEF S
  <2> QED BY <2>3, <2>4
<1>3. IInv => CollectedUnlessOverwritten
  <2> SUFFICES ASSUME IInv, Returned, strategy = "wait_all", NEW n \in Inner, NEW g, g = Parent[n]
               PROVE  \/ ResultOf(n) \in collected[result[g]]
                      \/ g # Root /\ result[Parent[g]] = result[g]
    BY DEF CollectedUnlessOverwritten, Inner
  <2>1. g \in Groups /\ g \in Nodes /\ n \in Members(g) /\ n \in Nodes BY TreeFacts
  <2>2. Done(g) /\ Done(n) BY <2>1, AllReturned
  <2>3. winner[g] = Unknown BY <2>1 DEF IInv, HeardInv
  <2>4. ResultOf(n) \in Range(received[g]) BY <2>1, <2>2, <2>3 DEF IInv, VerdictInv, Verdict
  <2>5. \/ collected[result[g]] = Range(received[g])
        \/ g # Root /\ Carries(Parent[g], result[g])
    BY <2>1, <2>2 DEF IInv, PathInv
  <2>6. g # Root => Parent[g] \in Groups /\ ResultOf(Parent[g]) = result[Parent[g]]
    BY <2>1, TreeFacts DEF ResultOf, Inner
  <2> QED BY <2>4, <2>5, <2>6 DEF Carries
<1>4. IInv => RightVerdict BY <1>1, <1>2, <1>3 DEF RightVerdict
<1> QED BY <1>4, DispatchInvariant, PTL
==============================================================================
