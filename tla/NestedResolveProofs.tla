------------------------- MODULE NestedResolveProofs -------------------------
(***************************************************************************)
(* Proofs about NestedResolve, for every set of calls and names, whatever  *)
(* the names lead to, and for every depth limit and size of the queues.    *)
(***************************************************************************)
EXTENDS NestedResolve, SequenceTheorems, WellFoundedInduction, TLAPS

(***************************************************************************)
(* The inductive invariant                                                 *)
(***************************************************************************)
Message == [call : SUBSET Calls, gen : 1 .. MaxGen, log : 0 .. MaxLogs]
TaskState == [pc : {"none", "queued", "running", "done"}, chain : Seq(Sigs), epoch : 0 .. MaxGen]
Items == Responses \cup {<<Query>>}

WorkerTypes ==
  /\ gen \in 1 .. MaxGen /\ epoch \in 1 .. MaxGen /\ alive \in BOOLEAN /\ broken \in BOOLEAN
  /\ queries \in 0 .. MaxQueries
CallTypes ==
  /\ call \in [Calls -> InCall \cup {"idle", "returned", "timeout", "lost"}]
  /\ pending \subseteq Calls /\ dropped \subseteq Calls
  /\ holder \in [Calls -> Outcomes]
TaskTypes == task \in [Calls -> TaskState]
ResultTypes ==
  /\ results \in Seq(Message) /\ Len(results) <= QueueSize
  /\ logs \in 0 .. MaxLogs
QueueTypes == queue \in Seq(Items) /\ Len(queue) <= QueueSize

Types == WorkerTypes /\ CallTypes /\ TaskTypes /\ ResultTypes /\ QueueTypes

\* No call is under way in a worker that is gone; a broken pool runs none.
GoneIsSilent ==
  /\ ~alive => \A c \in Calls : call[c] \notin InCall
  /\ broken => ~alive

\* The chain of a running task is the walk from the name its call asks for.
ChainIsWalk(c) ==
  /\ task[c].chain # <<>>
  /\ \A i \in 1 .. Len(task[c].chain) : task[c].chain[i] = Walk[i][Asks[c]]

ChainInv ==
  \A c \in Calls :
    /\ IsInjective(task[c].chain) /\ Len(task[c].chain) <= MaxDepth
    /\ task[c].pc = "running" => ChainIsWalk(c)

\* Answers are right when they are put into the queue, stay so until the call
\* resumes and are rebuilt then.
SentOutcome(c) == [kind |-> Serialize(LocalKind(Asks[c])), sig |-> Asks[c]]
FinalOutcome(c) == [kind |-> KindFromMaster(LocalKind(Asks[c])), sig |-> Asks[c]]
AnswersRight ==
  /\ \A i \in 1 .. Len(queue) : queue[i] # <<Query>> => queue[i][2] = SentOutcome(queue[i][1])
  /\ \A c \in Calls : /\ call[c] = "answered" => holder[c] = SentOutcome(c)
                      /\ call[c] = "returned" => holder[c] = FinalOutcome(c)

\* The request of a waiting call is on its way to the master, its task has the
\* queue that the worker reads, or the answer is in it or was dropped.
Requested(c) == \E i \in 1 .. Len(results) : c \in results[i].call /\ results[i].gen = gen
Answered(c) == \E i \in 1 .. Len(queue) : queue[i] # <<Query>> /\ queue[i][1] = c
OnTheWay(c) ==
  \/ Requested(c)
  \/ task[c].pc = "queued"
  \/ task[c].pc = "running" /\ task[c].epoch = epoch
  \/ Answered(c)
  \/ c \in dropped
WaitersInv == \A c \in Calls : call[c] = "waiting" => OnTheWay(c)

\* The lines that are logged or have a task, in the order of the log; no line
\* comes before one with a smaller number or of an earlier worker.
Handled == log \o lines
Follows(m, n) == m.log < n.log /\ m.gen <= n.gen
Ascending(s) == \A i, j \in 1 .. Len(s) : i < j => Follows(s[i], s[j])

\* Lines of the running worker that are under way have greater numbers, in their
\* order; those of earlier workers will be ignored.
Fresh(m) == m.log # 0 /\ m.gen = gen
LogInv ==
  /\ log \in Seq(Message) /\ lines \in Seq(Message) /\ Ascending(Handled)
  /\ \A i \in 1 .. Len(Handled) : Handled[i].log <= logs /\ Handled[i].gen <= gen
  /\ \A j \in 1 .. Len(results) :
       /\ results[j].log <= logs /\ results[j].gen <= gen
       /\ Fresh(results[j]) => \A i \in 1 .. Len(Handled) : Handled[i].log < results[j].log
  /\ \A i, j \in 1 .. Len(results) :
       i < j /\ Fresh(results[i]) /\ Fresh(results[j]) => results[i].log < results[j].log

IInv ==
  /\ Types /\ GoneIsSilent /\ NoEntryLeft /\ ChainInv /\ AnswersRight /\ WaitersInv /\ LogInv
-----------------------------------------------------------------------------
(***************************************************************************)
(* Walks                                                                   *)
(***************************************************************************)
\* A set of naturals that is not empty has a least element.
LEMMA LeastNat ==
  ASSUME NEW S, S \subseteq Nat, S # {}
  PROVE  \E n \in S : \A m \in S : n <= m
<1> DEFINE Less == {ss \in Nat \X Nat : ss[1] < ss[2]}
<1>1. IsWellFoundedOn(Less, Nat) BY NatLessThanWellFounded DEF OpToRel
<1>2. \A x, y \in Nat : <<x, y>> \in Less <=> x < y OBVIOUS
<1> HIDE DEF Less
<1>3. \E n \in S : \A m \in S : ~(<<m, n>> \in Less) BY <1>1, WFMin
<1>4. \A x, y \in S : <<x, y>> \in Less \/ y <= x
  <2>1. \A x, y \in Nat : x < y \/ y <= x OBVIOUS
  <2> QED BY <1>2, <2>1
<1> QED BY <1>3, <1>4

Names == [Sigs -> Sigs \cup Kinds]

\* The n-th step of a walk whose steps up to there are f.
StepOf(f, n) ==
  [sig \in Sigs |-> IF n = 1 THEN sig
                    ELSE IF f[n - 1][sig] \in Sigs THEN Leads[f[n - 1][sig]]
                    ELSE f[n - 1][sig]]

\* The recursion that defines Walk has a solution.
LEMMA WalkExists ==
  \E f \in [1 .. MaxDepth + 1 -> Names] : f = [n \in 1 .. MaxDepth + 1 |-> StepOf(f, n)]
<1> USE NestedAssumption
<1> DEFINE Upto(k) == \E f \in [1 .. k -> Names] : \A n \in 1 .. k : f[n] = StepOf(f, n)
           Bad == {k \in 1 .. MaxDepth + 1 : ~Upto(k)}
<1>1. Upto(1)
  <2> DEFINE f == [n \in 1 .. 1 |-> [sig \in Sigs |-> sig]]
  <2>1. f \in [1 .. 1 -> Names] BY DEF Names
  <2>2. \A n \in 1 .. 1 : f[n] = StepOf(f, n) BY DEF StepOf
  <2> QED BY <2>1, <2>2
<1>2. ASSUME NEW k \in 1 .. MaxDepth, Upto(k) PROVE Upto(k + 1)
  <2>1. PICK f \in [1 .. k -> Names] : \A n \in 1 .. k : f[n] = StepOf(f, n) BY <1>2
  <2> DEFINE g == [n \in 1 .. k + 1 |-> IF n \in 1 .. k THEN f[n] ELSE StepOf(f, n)]
  <2>2. k \in 1 .. k /\ (k + 1) - 1 = k /\ k + 1 # 1 OBVIOUS
  <2>3. StepOf(f, k + 1) \in Names
    <3>1. f[k] \in [Sigs -> Sigs \cup Kinds] BY <2>2 DEF Names
    <3> QED BY <2>2, <3>1 DEF StepOf, Names
  <2>4. \A n \in 1 .. k + 1 : n \in 1 .. k \/ n = k + 1 OBVIOUS
  <2>5. g \in [1 .. k + 1 -> Names] BY <2>3, <2>4
  <2>6. \A n \in 1 .. k + 1 : n # 1 => n - 1 \in 1 .. k /\ n - 1 \in 1 .. k + 1 OBVIOUS
  <2>7. \A n \in 1 .. k + 1 : n # 1 => g[n - 1] = f[n - 1] BY <2>6
  <2>8. \A n \in 1 .. k + 1 : StepOf(g, n) = StepOf(f, n)
    <3> HIDE DEF g
    <3> QED BY <2>7 DEF StepOf
  <2>9. \A n \in 1 .. k + 1 : g[n] = StepOf(f, n) BY <2>1
  <2>10. \A n \in 1 .. k + 1 : g[n] = StepOf(g, n)
    <3> HIDE DEF g
    <3> QED BY <2>8, <2>9
  <2> HIDE DEF g
  <2> QED BY <2>5, <2>10
<1>3. Bad = {}
  <2> SUFFICES ASSUME Bad # {} PROVE FALSE OBVIOUS
  <2>1. PICK k \in Bad : \A m \in Bad : k <= m
    <3>1. Bad \subseteq Nat OBVIOUS
    <3> HIDE DEF Bad
    <3> QED BY <3>1, LeastNat
  <2>2. k \in 1 .. MaxDepth + 1 /\ ~Upto(k) OBVIOUS
  <2>3. k # 1 BY <1>1, <2>2
  <2>4. k - 1 \in 1 .. MaxDepth /\ k - 1 \in 1 .. MaxDepth + 1 /\ ~(k <= k - 1) /\ (k - 1) + 1 = k
    BY <2>2, <2>3
  <2>5. Upto(k - 1) BY <2>1, <2>4
  <2> HIDE DEF Upto
  <2> QED BY <1>2, <2>2, <2>4, <2>5
<1>4. Upto(MaxDepth + 1)
  <2>1. MaxDepth + 1 \in 1 .. MaxDepth + 1 OBVIOUS
  <2> HIDE DEF Upto
  <2> QED BY <1>3, <2>1
<1> QED BY <1>4

\* ... and Walk is one.
LEMMA WalkIs == \A n \in 1 .. MaxDepth + 1 : Walk[n] = StepOf(Walk, n)
<1> DEFINE W(f) == f = [n \in 1 .. MaxDepth + 1 |-> StepOf(f, n)]
<1>1. Walk = CHOOSE f : W(f) BY DEF Walk, StepOf
<1>2. \E f : W(f) BY WalkExists
<1>3. W(Walk)
  <2> HIDE DEF W
  <2> QED BY <1>1, <1>2
<1> QED BY <1>3

LEMMA WalkSteps ==
  ASSUME NEW sig \in Sigs
  PROVE  /\ Walk[1][sig] = sig
         /\ \A n \in 1 .. MaxDepth :
              Walk[n + 1][sig] = IF Walk[n][sig] \in Sigs THEN Leads[Walk[n][sig]]
                                 ELSE Walk[n][sig]
<1> USE NestedAssumption
<1>1. Walk[1][sig] = sig
  <2>1. 1 \in 1 .. MaxDepth + 1 OBVIOUS
  <2>2. Walk[1] = StepOf(Walk, 1) BY <2>1, WalkIs
  <2> QED BY <2>2 DEF StepOf
<1>2. ASSUME NEW n \in 1 .. MaxDepth
      PROVE  Walk[n + 1][sig] = IF Walk[n][sig] \in Sigs THEN Leads[Walk[n][sig]]
                                ELSE Walk[n][sig]
  <2>1. n + 1 \in 1 .. MaxDepth + 1 /\ n + 1 # 1 /\ (n + 1) - 1 = n OBVIOUS
  <2>2. Walk[n + 1] = StepOf(Walk, n + 1) BY <2>1, WalkIs
  <2> QED BY <2>1, <2>2 DEF StepOf
<1> QED BY <1>1, <1>2

\* Once a walk has reached a result it stays there.
LEMMA WalkEnds ==
  ASSUME NEW sig \in Sigs, NEW n \in 1 .. MaxDepth + 1, Walk[n][sig] \in Kinds
  PROVE  Walk[MaxDepth + 1][sig] = Walk[n][sig]
<1> USE NestedAssumption
<1> DEFINE Bad == {k \in n .. MaxDepth + 1 : Walk[k][sig] # Walk[n][sig]}
<1>1. Bad = {}
  <2> SUFFICES ASSUME Bad # {} PROVE FALSE OBVIOUS
  <2>1. PICK k \in Bad : \A m \in Bad : k <= m
    <3>1. Bad \subseteq Nat OBVIOUS
    <3> HIDE DEF Bad
    <3> QED BY <3>1, LeastNat
  <2>2. k # n /\ k \in n .. MaxDepth + 1 OBVIOUS
  <2>3. k - 1 \in n .. MaxDepth + 1 /\ k - 1 \in 1 .. MaxDepth /\ ~(k <= k - 1) /\ (k - 1) + 1 = k
    BY <2>2
  <2>4. Walk[k - 1][sig] = Walk[n][sig] BY <2>1, <2>3
  <2>5. Walk[k - 1][sig] \notin Sigs BY <2>4
  <2>6. Walk[k][sig] = Walk[k - 1][sig] BY <2>3, <2>5, WalkSteps
  <2> QED BY <2>4, <2>6
<1>2. MaxDepth + 1 \in n .. MaxDepth + 1 OBVIOUS
<1> QED BY <1>1, <1>2

\* A walk that comes to a name again goes round for ever.
LEMMA WalkRepeats ==
  ASSUME NEW sig \in Sigs, NEW n \in 1 .. MaxDepth, NEW i \in 1 .. n,
         \A j \in 1 .. n : Walk[j][sig] \in Sigs, Walk[n + 1][sig] = Walk[i][sig]
  PROVE  Walk[MaxDepth + 1][sig] \in Sigs
<1> USE NestedAssumption
<1> DEFINE Round == {Walk[j][sig] : j \in i .. n}
           Bad == {k \in i .. MaxDepth + 1 : Walk[k][sig] \notin Round}
<1>1. Bad = {}
  <2> SUFFICES ASSUME Bad # {} PROVE FALSE OBVIOUS
  <2>1. PICK k \in Bad : \A m \in Bad : k <= m
    <3>1. Bad \subseteq Nat OBVIOUS
    <3> HIDE DEF Bad
    <3> QED BY <3>1, LeastNat
  <2>2. i \in i .. n /\ n \in i .. n /\ k \in i .. MaxDepth + 1 /\ Walk[k][sig] \notin Round OBVIOUS
  <2>3. k # i BY <2>2
  <2>4. k - 1 \in i .. MaxDepth + 1 /\ k - 1 \in 1 .. MaxDepth /\ ~(k <= k - 1) /\ (k - 1) + 1 = k
    BY <2>2, <2>3
  <2>5. Walk[k - 1][sig] \in Round BY <2>1, <2>4
  <2>6. PICK j \in i .. n : Walk[k - 1][sig] = Walk[j][sig] BY <2>5
  <2>7. j \in 1 .. MaxDepth /\ j \in 1 .. n OBVIOUS
  <2>8. Walk[j][sig] \in Sigs BY <2>7
  <2>9. Walk[k][sig] = Leads[Walk[j][sig]] BY <2>4, <2>6, <2>8, WalkSteps
  <2>10. Walk[k][sig] = Walk[j + 1][sig] BY <2>7, <2>8, <2>9, WalkSteps
  <2>11. CASE j = n BY <2>2, <2>10, <2>11
  <2>12. CASE j # n
    <3>1. j + 1 \in i .. n BY <2>12
    <3> QED BY <2>2, <2>10, <3>1
  <2> QED BY <2>11, <2>12
<1>2. Walk[MaxDepth + 1][sig] \in Round
  <2>1. MaxDepth + 1 \in i .. MaxDepth + 1 OBVIOUS
  <2> QED BY <1>1, <2>1
<1>3. \A j \in i .. n : j \in 1 .. n OBVIOUS
<1> QED BY <1>2, <1>3
-----------------------------------------------------------------------------
(***************************************************************************)
(* Sequences                                                               *)
(***************************************************************************)
LEMMA Shorter ==
  ASSUME NEW S, NEW s \in Seq(S), s # <<>>
  PROVE  /\ Head(s) \in S /\ Head(s) = s[1] /\ 1 \in 1 .. Len(s)
         /\ Tail(s) \in Seq(S) /\ Len(Tail(s)) = Len(s) - 1
         /\ \A i \in 1 .. Len(Tail(s)) : i + 1 \in 1 .. Len(s) /\ Tail(s)[i] = s[i + 1]
         /\ \A i \in 1 .. Len(s) : i # 1 => i - 1 \in 1 .. Len(Tail(s)) /\ s[i] = Tail(s)[i - 1]
<1>1. /\ Head(s) \in S /\ Tail(s) \in Seq(S) /\ Len(Tail(s)) = Len(s) - 1
      /\ \A i \in 1 .. Len(Tail(s)) : Tail(s)[i] = s[i + 1]
  BY HeadTailProperties
<1>2. Len(s) \in Nat \ {0} BY EmptySeq
<1>3. Head(s) = s[1] OBVIOUS
<1>4. \A i \in 1 .. Len(s) : i # 1 => i - 1 \in 1 .. Len(Tail(s)) /\ (i - 1) + 1 = i
  BY <1>1, <1>2
<1>5. \A i \in 1 .. Len(Tail(s)) : i + 1 \in 1 .. Len(s) BY <1>1, <1>2
<1>6. \A i \in 1 .. Len(s) : i # 1 => s[i] = Tail(s)[i - 1] BY <1>1, <1>4
<1> QED BY <1>1, <1>2, <1>3, <1>4, <1>5, <1>6

LEMMA Longer ==
  ASSUME NEW S, NEW s \in Seq(S), NEW x \in S
  PROVE  /\ Append(s, x) \in Seq(S) /\ Append(s, x) # <<>>
         /\ Len(s) \in Nat /\ Len(Append(s, x)) = Len(s) + 1
         /\ Len(s) + 1 \in 1 .. Len(Append(s, x)) /\ Append(s, x)[Len(s) + 1] = x
         /\ \A i \in 1 .. Len(s) : i \in 1 .. Len(Append(s, x)) /\ Append(s, x)[i] = s[i]
         /\ \A i \in 1 .. Len(Append(s, x)) : i \in 1 .. Len(s) \/ i = Len(s) + 1
<1>1. /\ Append(s, x) \in Seq(S) /\ Append(s, x) # <<>>
      /\ Len(Append(s, x)) = Len(s) + 1 /\ Append(s, x)[Len(s) + 1] = x
      /\ \A i \in 1 .. Len(s) : Append(s, x)[i] = s[i]
  BY AppendProperties
<1>2. Len(s) \in Nat BY LenProperties
<1> QED BY <1>1, <1>2

\* What is left when the element at i is removed, by its place before and after.
LEMMA Without ==
  ASSUME NEW S, NEW s \in Seq(S), NEW i \in 1 .. Len(s)
  PROVE  LET r == RemoveAt(s, i) IN
         /\ r \in Seq(S) /\ Len(r) = Len(s) - 1
         /\ \A j \in 1 .. Len(r) : r[j] = s[IF j < i THEN j ELSE j + 1]
<1> DEFINE a == SubSeq(s, 1, i - 1)
           b == SubSeq(s, i + 1, Len(s))
<1>1. Len(s) \in Nat /\ \A j \in 1 .. Len(s) : s[j] \in S BY LenProperties, ElementOfSeq
<1>2. /\ \A j \in 1 .. i - 1 : s[j] \in S
      /\ \A j \in i + 1 .. Len(s) : s[j] \in S
  BY <1>1
<1>3. a \in Seq(S) /\ Len(a) = i - 1 /\ \A j \in 1 .. i - 1 : a[j] = s[j]
  <2>1. 1 \in Int /\ i - 1 \in Int BY <1>1
  <2>2. /\ a \in Seq(S) /\ Len(a) = IF 1 <= i - 1 THEN (i - 1) - 1 + 1 ELSE 0
        /\ \A j \in 1 .. (i - 1) - 1 + 1 : a[j] = s[1 + j - 1]
    BY <1>2, <2>1, SubSeqProperties
  <2> HIDE DEF a
  <2> QED BY <1>1, <2>2
<1>4. /\ b \in Seq(S) /\ Len(b) = Len(s) - i
      /\ \A j \in 1 .. Len(s) - i : b[j] = s[i + j]
  <2>1. i + 1 \in Int /\ Len(s) \in Int BY <1>1
  <2>2. /\ b \in Seq(S)
        /\ Len(b) = IF i + 1 <= Len(s) THEN Len(s) - (i + 1) + 1 ELSE 0
        /\ \A j \in 1 .. Len(s) - (i + 1) + 1 : b[j] = s[(i + 1) + j - 1]
    BY <1>2, <2>1, SubSeqProperties
  <2> HIDE DEF b
  <2> QED BY <1>1, <2>2
<1>5. RemoveAt(s, i) = a \o b BY DEF RemoveAt
<1> HIDE DEF a, b
<1>6. /\ a \o b \in Seq(S) /\ Len(a \o b) = Len(s) - 1
      /\ \A j \in 1 .. Len(s) - 1 : (a \o b)[j] = IF j <= i - 1 THEN a[j] ELSE b[j - (i - 1)]
  <2>1. Len(a) + Len(b) = Len(s) - 1 BY <1>1, <1>3, <1>4
  <2>2. /\ a \o b \in Seq(S) /\ Len(a \o b) = Len(a) + Len(b)
        /\ \A j \in 1 .. Len(a) + Len(b) :
             (a \o b)[j] = IF j <= Len(a) THEN a[j] ELSE b[j - Len(a)]
    BY <1>3, <1>4, ConcatProperties, Zenon
  <2> QED BY <1>3, <2>1, <2>2
<1>7. ASSUME NEW j \in 1 .. Len(s) - 1
      PROVE  (a \o b)[j] = s[IF j < i THEN j ELSE j + 1]
  <2>1. CASE j < i BY <1>1, <1>3, <1>6, <2>1
  <2>2. CASE ~(j < i)
    <3>1. j - (i - 1) \in 1 .. Len(s) - i /\ i + (j - (i - 1)) = j + 1 /\ ~(j <= i - 1)
      BY <1>1, <2>2
    <3> QED BY <1>4, <1>6, <2>2, <3>1
  <2> QED BY <2>1, <2>2
<1> QED BY <1>5, <1>6, <1>7

\* Handing the first element of t over to s changes nothing in the two together.
LEMMA HandOver ==
  ASSUME NEW S, NEW s \in Seq(S), NEW t \in Seq(S)
  PROVE  /\ s \o t \in Seq(S)
         /\ Len(s) <= Len(s \o t) /\ \A i \in 1 .. Len(s) : (s \o t)[i] = s[i]
         /\ \A x \in S : s \o Append(t, x) = Append(s \o t, x)
         /\ t # <<>> => Append(s, Head(t)) \o Tail(t) = s \o t
<1>1. Len(s) \in Nat /\ Len(t) \in Nat BY LenProperties
<1>2. /\ s \o t \in Seq(S) /\ Len(s \o t) = Len(s) + Len(t)
      /\ \A i \in 1 .. Len(s) : (s \o t)[i] = s[i]
  BY <1>1, ConcatProperties
<1>3. ASSUME NEW x \in S PROVE s \o Append(t, x) = Append(s \o t, x)
  <2>1. <<x>> \in Seq(S) OBVIOUS
  <2>2. Append(t, x) = t \o <<x>> /\ Append(s \o t, x) = (s \o t) \o <<x>>
    BY <1>2, AppendIsConcat
  <2> QED BY <2>1, <2>2, ConcatAssociative
<1>4. ASSUME t # <<>> PROVE Append(s, Head(t)) \o Tail(t) = s \o t
  <2>1. /\ Head(t) \in S /\ Head(t) = t[1] /\ 1 \in 1 .. Len(t)
        /\ Tail(t) \in Seq(S)
    BY <1>4, Shorter
  <2>2. <<Head(t)>> \in Seq(S) BY <2>1
  <2>3. SubSeq(t, 1, Len(t)) = t /\ Tail(t) = SubSeq(t, 2, Len(t))
    BY <1>4, SubSeqFull, TailIsSubSeq
  <2>4. Len(t) \in 1 .. Len(t) /\ 1 + 1 = 2 BY <1>1, <2>1
  <2>5. SubSeq(t, 1, Len(t)) = <<t[1]>> \o SubSeq(t, 1 + 1, Len(t))
    BY <2>1, <2>4, SubSeqRecursiveFirst
  <2>6. t = <<Head(t)>> \o Tail(t) BY <2>1, <2>3, <2>4, <2>5
  <2>7. Append(s, Head(t)) = s \o <<Head(t)>> BY <2>1, AppendIsConcat
  <2>8. (s \o <<Head(t)>>) \o Tail(t) = s \o (<<Head(t)>> \o Tail(t))
    BY <2>1, <2>2, ConcatAssociative
  <2> QED BY <2>6, <2>7, <2>8
<1>5. Len(s) <= Len(s \o t) BY <1>1, <1>2
<1> QED BY <1>2, <1>3, <1>4, <1>5

LEMMA RangeIndexed ==
  ASSUME NEW S, NEW s \in Seq(S)
  PROVE  /\ DOMAIN s = 1 .. Len(s) /\ Len(s) \in Nat
         /\ \A x : x \in Range(s) <=> \E i \in 1 .. Len(s) : s[i] = x
         /\ \A i \in 1 .. Len(s) : s[i] \in S
<1>1. DOMAIN s = 1 .. Len(s) /\ Len(s) \in Nat /\ s \in [1 .. Len(s) -> S] BY LenProperties
<1> QED BY <1>1 DEF Range

LEMMA StillInjective ==
  ASSUME NEW S, NEW s \in Seq(S), IsInjective(s), NEW x \in S, x \notin Range(s)
  PROVE  IsInjective(Append(s, x))
<1>1. DOMAIN s = 1 .. Len(s) /\ DOMAIN Append(s, x) = 1 .. Len(Append(s, x))
  BY LenProperties, Longer
<1>2. \A i \in 1 .. Len(s) : s[i] # x BY RangeIndexed
<1>3. \A a, b \in 1 .. Len(s) : s[a] = s[b] => a = b BY <1>1 DEF IsInjective
<1>4. SUFFICES ASSUME NEW a \in 1 .. Len(Append(s, x)), NEW b \in 1 .. Len(Append(s, x)),
                      Append(s, x)[a] = Append(s, x)[b]
               PROVE  a = b
  BY <1>1 DEF IsInjective
<1>5. CASE a \in 1 .. Len(s) /\ b \in 1 .. Len(s) BY <1>3, <1>4, <1>5, Longer
<1>6. CASE a \in 1 .. Len(s) /\ b = Len(s) + 1 BY <1>2, <1>4, <1>6, Longer
<1>7. CASE a = Len(s) + 1 /\ b \in 1 .. Len(s) BY <1>2, <1>4, <1>7, Longer
<1>8. CASE a = Len(s) + 1 /\ b = Len(s) + 1 BY <1>8
<1> QED BY <1>5, <1>6, <1>7, <1>8, Longer

LEMMA LastElement ==
  ASSUME NEW S, NEW s \in Seq(S), s # <<>>
  PROVE  Last(s) = s[Len(s)] /\ Len(s) \in 1 .. Len(s) /\ Last(s) \in S
<1>1. Len(s) \in Nat \ {0} BY EmptySeq
<1>2. Len(s) \in 1 .. Len(s) BY <1>1
<1> QED BY <1>2, ElementOfSeq DEF Last

\* Types give the module's own type invariant.
LEMMA TypesGiveTypeOK == Types => TypeOK
<1> SUFFICES ASSUME Types PROVE TypeOK OBVIOUS
<1>1. \A c \in Calls : /\ holder[c] \in Outcomes
                       /\ task[c].pc \in {"none", "queued", "running", "done"}
                       /\ task[c].chain \in Seq(Sigs) /\ task[c].epoch \in 0 .. MaxGen
  BY DEF Types, CallTypes, TaskTypes, TaskState
<1>2. \A c \in Calls : Range(task[c].chain) \subseteq Sigs
  BY <1>1, RangeIndexed
<1>3. \A m \in Range(results) : m \in Message BY RangeIndexed DEF Types, ResultTypes
<1>4. \A m \in Range(results) : m.gen \in 1 .. MaxGen /\ m.call \subseteq Calls
  BY <1>3 DEF Message
<1>5. Range(queue) \subseteq Responses \cup {<<Query>>}
  BY RangeIndexed DEF Types, QueueTypes, Items
<1> QED
  BY <1>1, <1>2, <1>4, <1>5
  DEF Types, WorkerTypes, CallTypes, ResultTypes, QueueTypes, TypeOK
-----------------------------------------------------------------------------
(***************************************************************************)
(* What a step that leaves variables alone preserves                       *)
(***************************************************************************)
USE DEF vars, worker, InCall

LEMMA KeepTypes ==
  /\ WorkerTypes /\ UNCHANGED <<worker, queries>> => WorkerTypes'
  /\ CallTypes /\ UNCHANGED <<call, pending, holder, dropped>> => CallTypes'
  /\ TaskTypes /\ UNCHANGED task => TaskTypes'
  /\ ResultTypes /\ UNCHANGED <<results, logs>> => ResultTypes'
  /\ QueueTypes /\ UNCHANGED queue => QueueTypes'
BY DEF WorkerTypes, CallTypes, TaskTypes, ResultTypes, QueueTypes

LEMMA KeepGone == GoneIsSilent /\ UNCHANGED <<alive, broken, call>> => GoneIsSilent'
BY DEF GoneIsSilent

LEMMA KeepEntries == NoEntryLeft /\ UNCHANGED <<pending, call>> => NoEntryLeft'
BY DEF NoEntryLeft

LEMMA KeepChains == ChainInv /\ UNCHANGED task => ChainInv'
BY DEF ChainInv, ChainIsWalk

LEMMA KeepAnswers == AnswersRight /\ UNCHANGED <<queue, call, holder>> => AnswersRight'
BY DEF AnswersRight

LEMMA KeepLog == LogInv /\ UNCHANGED <<lines, log, logs, results, gen>> => LogInv'
BY DEF LogInv, Handled, Ascending, Follows, Fresh

\* What LogInv says of the kinds of things it speaks about.
LEMMA LogTypes ==
  ASSUME IInv
  PROVE  /\ log \in Seq(Message) /\ lines \in Seq(Message) /\ results \in Seq(Message)
         /\ Handled \in Seq(Message) /\ Len(Handled) \in Nat /\ Len(results) \in Nat
         /\ \A i \in 1 .. Len(Handled) : Handled[i] \in Message
         /\ \A j \in 1 .. Len(results) : results[j] \in Message
         /\ \A m \in Message : m.log \in Nat /\ m.gen \in Nat
         /\ logs \in Nat /\ gen \in Nat
<1>1. log \in Seq(Message) /\ lines \in Seq(Message) /\ results \in Seq(Message)
  BY DEF IInv, LogInv, Types, ResultTypes
<1>2. Handled \in Seq(Message) BY <1>1, HandOver DEF Handled
<1>3. \A m \in Message : m.log \in Nat /\ m.gen \in Nat BY DEF Message
<1>4. logs \in Nat /\ gen \in Nat BY DEF IInv, Types, ResultTypes, WorkerTypes
<1> QED BY <1>1, <1>2, <1>3, <1>4, RangeIndexed

\* Calls begin or stop waiting only by their own steps.
LEMMA KeepWaiters ==
  ASSUME WaitersInv, UNCHANGED <<gen, epoch, results, task, queue, dropped>>,
         \A c \in Calls : call'[c] = "waiting" => call[c] = "waiting"
  PROVE  WaitersInv'
BY DEF WaitersInv, OnTheWay, Requested, Answered
-----------------------------------------------------------------------------
(***************************************************************************)
(* The steps of a call in the worker                                       *)
(***************************************************************************)
LEMMA ResolveStep ==
  ASSUME IInv, NEW c \in Calls, Resolve(c)
  PROVE  IInv'
<1> USE DEF Resolve
<1>1. Types' BY KeepTypes DEF IInv, Types, CallTypes
<1>2. GoneIsSilent' BY DEF IInv, GoneIsSilent
<1>3. NoEntryLeft' BY DEF IInv, Types, CallTypes, NoEntryLeft
<1>4. ChainInv' BY KeepChains DEF IInv
<1>5. AnswersRight' BY DEF IInv, Types, CallTypes, AnswersRight
<1>6. WaitersInv' BY KeepWaiters DEF IInv, Types, CallTypes
<1>7. LogInv' BY KeepLog DEF IInv
<1> QED BY <1>1, <1>2, <1>3, <1>4, <1>5, <1>6, <1>7 DEF IInv

LEMMA PutStep ==
  ASSUME IInv, NEW c \in Calls, Put(c)
  PROVE  IInv'
<1> USE NestedAssumption
<1> DEFINE m == [call |-> {c}, gen |-> gen, log |-> 0]
<1>1. /\ call[c] = "putting" /\ Len(results) < QueueSize /\ results' = Append(results, m)
      /\ call' = [call EXCEPT ![c] = "waiting"]
      /\ UNCHANGED <<worker, pending, holder, task, queue, dropped, lines, log, queries, logs>>
  BY DEF Put
<1>2. m \in Message BY DEF Message, IInv, Types, WorkerTypes
<1>3. m.call = {c} /\ m.gen = gen /\ m.log = 0 OBVIOUS
<1> HIDE DEF m
<1>4. results \in Seq(Message) BY DEF IInv, Types, ResultTypes
<1>5. ResultTypes' BY <1>1, <1>2, <1>4, Longer DEF IInv, Types, ResultTypes
<1>6. CallTypes' BY <1>1 DEF IInv, Types, CallTypes
<1>7. Types' BY <1>1, <1>5, <1>6, KeepTypes DEF IInv, Types
<1>8. GoneIsSilent' BY <1>1 DEF IInv, GoneIsSilent
<1>9. NoEntryLeft' BY <1>1 DEF IInv, Types, CallTypes, NoEntryLeft
<1>10. ChainInv' BY <1>1, KeepChains DEF IInv
<1>11. AnswersRight' BY <1>1 DEF IInv, Types, CallTypes, AnswersRight
<1>12. WaitersInv'
  <2>1. \A d \in Calls : Requested(d) => Requested(d)'
    BY <1>1, <1>2, <1>4, Longer DEF Requested
  <2>2. Requested(c)' BY <1>1, <1>2, <1>3, <1>4, Longer DEF Requested
  <2>3. \A d \in Calls : OnTheWay(d) => OnTheWay(d)'
    BY <1>1, <2>1 DEF OnTheWay, Answered
  <2>4. \A d \in Calls : d # c => call'[d] = call[d] BY <1>1 DEF IInv, Types, CallTypes
  <2> QED BY <2>2, <2>3, <2>4 DEF IInv, WaitersInv, OnTheWay
<1>13. LogInv'
  <2>1. \A j \in 1 .. Len(results') :
          \/ j \in 1 .. Len(results) /\ results'[j] = results[j]
          \/ results'[j].log = 0 /\ results'[j].gen = gen
    BY <1>1, <1>2, <1>3, <1>4, Longer
  <2>2. \A j \in 1 .. Len(results') : results'[j].log <= logs /\ results'[j].gen <= gen
    <3>1. 0 <= logs /\ gen <= gen BY LogTypes
    <3> QED BY <2>1, <3>1 DEF IInv, LogInv
  <2>3. Handled' = Handled BY <1>1 DEF Handled
  <2> QED BY <1>1, <2>1, <2>2, <2>3 DEF IInv, LogInv, Ascending, Follows, Fresh
<1> QED BY <1>7, <1>8, <1>9, <1>10, <1>11, <1>12, <1>13 DEF IInv

\* What is sent, once rebuilt, is what a call is to return.
LEMMA FinalIsRebuilt ==
  ASSUME NEW c \in Calls
  PROVE  /\ SentOutcome(c) \in Outcomes /\ FinalOutcome(c) \in Outcomes
         /\ [SentOutcome(c) EXCEPT !.kind = Rebuilt(@)] = FinalOutcome(c)
<1>1. Asks[c] \in Sigs BY NestedAssumption
<1>2. LocalKind(Asks[c]) \in Kinds \cup {"recursion"} BY DEF LocalKind
<1>3. \A k \in Kinds \cup {"recursion"} :
        /\ Serialize(k) \in Kinds \cup {"recursion", "error"}
        /\ KindFromMaster(k) \in Kinds \cup {"recursion", "error", "alias"}
        /\ Rebuilt(Serialize(k)) = KindFromMaster(k)
  BY DEF Kinds, Answers, Serialize, KindFromMaster, Rebuilt
<1> QED BY <1>1, <1>2, <1>3 DEF SentOutcome, FinalOutcome, Outcomes

LEMMA LeaveCallStep ==
  ASSUME IInv, NEW c \in Calls, Resume(c) \/ TimeOut(c)
  PROVE  IInv'
<1> USE DEF Resume, TimeOut
<1>0. Resume(c) => holder' = [holder EXCEPT ![c] = FinalOutcome(c)]
  BY FinalIsRebuilt DEF IInv, Types, CallTypes, AnswersRight
<1>1. Types'
  <2>1. CallTypes' BY <1>0, FinalIsRebuilt DEF IInv, Types, CallTypes
  <2> QED BY <2>1, KeepTypes DEF IInv, Types
<1>2. GoneIsSilent' BY DEF IInv, GoneIsSilent, Types, CallTypes
<1>3. NoEntryLeft' BY DEF IInv, Types, CallTypes, NoEntryLeft
<1>4. ChainInv' BY KeepChains DEF IInv
<1>5. AnswersRight' BY <1>0 DEF IInv, Types, CallTypes, AnswersRight, SentOutcome, FinalOutcome
<1>6. WaitersInv' BY KeepWaiters DEF IInv, Types, CallTypes
<1>7. LogInv' BY KeepLog DEF IInv
<1> QED BY <1>1, <1>2, <1>3, <1>4, <1>5, <1>6, <1>7 DEF IInv

LEMMA SendLogStep ==
  ASSUME IInv, SendLog
  PROVE  IInv'
<1> USE NestedAssumption
<1> DEFINE m == [call |-> {}, gen |-> gen, log |-> logs + 1]
<1>1. /\ logs' = logs + 1 /\ logs < MaxLogs
      /\ results' = results \/ (Len(results) < QueueSize /\ results' = Append(results, m))
      /\ UNCHANGED <<worker, call, pending, holder, task, queue, dropped, lines, log, queries>>
  BY DEF SendLog
<1>2. m \in Message BY <1>1 DEF Message, IInv, Types, WorkerTypes, ResultTypes
<1>3. m.log = logs + 1 /\ m.gen = gen OBVIOUS
<1> HIDE DEF m
<1>4. results \in Seq(Message) /\ logs \in Nat BY DEF IInv, Types, ResultTypes
<1>5. /\ \A j \in 1 .. Len(results') :
           \/ j \in 1 .. Len(results) /\ results'[j] = results[j]
           \/ j = Len(results) + 1 /\ results'[j].log = logs + 1 /\ results'[j].gen = gen
      /\ \A j \in 1 .. Len(results) : j \in 1 .. Len(results') /\ results'[j] = results[j]
      /\ results' \in Seq(Message) /\ Len(results') <= QueueSize
  <2>1. CASE results' = results BY <1>4, <2>1 DEF IInv, Types, ResultTypes
  <2>2. CASE results' = Append(results, m) /\ Len(results) < QueueSize
    <3>1. \A j \in 1 .. Len(results') :
            \/ j \in 1 .. Len(results)
            \/ j = Len(results) + 1 /\ results'[j].log = logs + 1 /\ results'[j].gen = gen
      BY <1>2, <1>3, <1>4, <2>2, Longer
    <3>2. \A j \in 1 .. Len(results) : j \in 1 .. Len(results') /\ results'[j] = results[j]
      BY <1>2, <1>4, <2>2, Longer
    <3>3. results' \in Seq(Message) /\ Len(results') <= QueueSize
      BY <1>2, <1>4, <2>2, Longer
    <3> QED BY <3>1, <3>2, <3>3
  <2> QED BY <1>1, <2>1, <2>2
<1>6. Types' BY <1>1, <1>4, <1>5, KeepTypes DEF IInv, Types, ResultTypes
<1>7. GoneIsSilent' /\ NoEntryLeft' /\ ChainInv' /\ AnswersRight'
  BY <1>1, KeepGone, KeepEntries, KeepChains, KeepAnswers DEF IInv
<1>8. WaitersInv'
  <2>1. \A d \in Calls : Requested(d) => Requested(d)' BY <1>1, <1>5 DEF Requested
  <2> QED BY <1>1, <2>1 DEF IInv, WaitersInv, OnTheWay, Answered
<1>9. LogInv'
  <2>1. Handled' = Handled BY <1>1 DEF Handled
  <2>2. /\ \A i \in 1 .. Len(Handled) : Handled[i].log <= logs' /\ Handled[i].log < logs + 1
        /\ \A j \in 1 .. Len(results) : results[j].log <= logs' /\ results[j].log < logs + 1
    <3>1. \A i \in 1 .. Len(Handled) : Handled[i].log \in Nat /\ Handled[i].log <= logs
      BY LogTypes DEF IInv, LogInv
    <3>2. \A j \in 1 .. Len(results) : results[j].log \in Nat /\ results[j].log <= logs
      BY LogTypes DEF IInv, LogInv
    <3> QED BY <1>1, <1>4, <3>1, <3>2
  <2>3. ASSUME NEW j \in 1 .. Len(results')
        PROVE  /\ results'[j].log <= logs' /\ results'[j].gen <= gen
               /\ Fresh(results'[j]) => \A i \in 1 .. Len(Handled) : Handled[i].log < results'[j].log
    <3>1. CASE j \in 1 .. Len(results) /\ results'[j] = results[j]
      BY <2>2, <3>1 DEF IInv, LogInv
    <3>2. CASE results'[j].log = logs + 1 /\ results'[j].gen = gen
      BY <1>1, <1>4, <2>2, <3>2, LogTypes
    <3> QED BY <1>5, <3>1, <3>2
  <2>4. ASSUME NEW i \in 1 .. Len(results'), NEW j \in 1 .. Len(results'), i < j,
               Fresh(results'[i]), Fresh(results'[j])
        PROVE  results'[i].log < results'[j].log
    <3>1. i \in 1 .. Len(results) /\ results'[i] = results[i]
      <4>1. i # Len(results) + 1 BY <1>5, <2>4, LogTypes
      <4> QED BY <1>5, <4>1
    <3>2. CASE j \in 1 .. Len(results)
      BY <1>5, <2>4, <3>1, <3>2 DEF IInv, LogInv
    <3>3. CASE j \notin 1 .. Len(results)
      BY <1>5, <2>2, <3>1, <3>3
    <3> QED BY <3>2, <3>3
  <2>5. /\ Ascending(Handled) /\ log' = log /\ lines' = lines /\ gen' = gen
        /\ log \in Seq(Message) /\ lines \in Seq(Message)
        /\ \A i \in 1 .. Len(Handled) : Handled[i].gen <= gen
    BY <1>1 DEF IInv, LogInv
  <2> QED BY <2>1, <2>2, <2>3, <2>4, <2>5 DEF LogInv, Ascending, Follows, Fresh
<1> QED BY <1>6, <1>7, <1>8, <1>9 DEF IInv

LEMMA TakeStep ==
  ASSUME IInv, Take
  PROVE  IInv'
<1> DEFINE h == Head(queue)
<1>1. /\ alive /\ queue # <<>> /\ queue' = Tail(queue)
      /\ h = <<Query>> => UNCHANGED <<call, holder>>
      /\ h # <<Query>> => Receive(h[1], h[2])
      /\ UNCHANGED <<worker, pending, results, task, dropped, lines, log, queries, logs>>
  BY DEF Take
<1>2. queue \in Seq(Items) BY DEF IInv, Types, QueueTypes
<1>3. h \in Items /\ h = queue[1] /\ 1 \in 1 .. Len(queue) BY <1>1, <1>2, Shorter
<1> HIDE DEF h
<1>4. h # <<Query>> => h[1] \in Calls /\ h[2] \in Outcomes
  BY <1>3 DEF Items, Responses
<1>5. h # <<Query>> => h[2] = SentOutcome(h[1]) BY <1>3 DEF IInv, AnswersRight
<1>6. QueueTypes'
  <2>1. Len(queue) \in Nat /\ QueueSize \in Nat BY <1>2, LenProperties, NestedAssumption
  <2>2. queue' \in Seq(Items) /\ Len(queue') = Len(queue) - 1 BY <1>1, <1>2, Shorter
  <2>3. Len(queue) <= QueueSize BY DEF IInv, Types, QueueTypes
  <2> QED BY <2>1, <2>2, <2>3 DEF QueueTypes
<1>7. CASE UNCHANGED <<call, holder>> /\ ~(h # <<Query>> /\ call[h[1]] = "waiting")
  <2>1. Types' BY <1>1, <1>6, <1>7, KeepTypes DEF IInv, Types
  <2>2. GoneIsSilent' /\ NoEntryLeft' /\ ChainInv' /\ LogInv'
    BY <1>1, <1>7, KeepGone, KeepEntries, KeepChains, KeepLog DEF IInv
  <2>3. AnswersRight' BY <1>1, <1>2, <1>7, Shorter DEF IInv, AnswersRight
  <2>4. WaitersInv'
    <3> SUFFICES ASSUME NEW c \in Calls, call[c] = "waiting" PROVE OnTheWay(c)'
      BY <1>7 DEF WaitersInv
    <3>1. Answered(c) => Answered(c)'
      <4> SUFFICES ASSUME NEW i \in 1 .. Len(queue), queue[i] # <<Query>>, queue[i][1] = c
                   PROVE  Answered(c)'
        BY DEF Answered
      <4>1. i # 1 BY <1>3, <1>7
      <4>2. i - 1 \in 1 .. Len(queue') /\ queue'[i - 1] = queue[i]
        BY <1>1, <1>2, <4>1, Shorter
      <4> QED BY <4>2 DEF Answered
    <3> QED BY <1>1, <3>1 DEF IInv, WaitersInv, OnTheWay, Requested
  <2> QED BY <2>1, <2>2, <2>3, <2>4 DEF IInv
<1>8. CASE h # <<Query>> /\ h[1] \in pending /\ call[h[1]] = "waiting"
  <2> DEFINE d == h[1]
  <2>1. /\ d \in Calls /\ call' = [call EXCEPT ![d] = "answered"]
        /\ holder' = [holder EXCEPT ![d] = SentOutcome(d)] /\ SentOutcome(d) \in Outcomes
    BY <1>1, <1>4, <1>5, <1>8, FinalIsRebuilt DEF Receive
  <2>2. call[d] = "waiting" BY <1>8
  <2>3. \A i \in 1 .. Len(queue) : i # 1 \/ queue[i][1] = d BY <1>3
  <2> HIDE DEF d
  <2>4. \A c \in Calls : c # d => call'[c] = call[c] /\ holder'[c] = holder[c]
    BY <2>1 DEF IInv, Types, CallTypes
  <2>5. call'[d] = "answered" /\ holder'[d] = SentOutcome(d)
    BY <2>1 DEF IInv, Types, CallTypes
  <2>6. CallTypes' BY <1>1, <2>1 DEF IInv, Types, CallTypes
  <2>7. Types' BY <1>1, <1>6, <2>6, KeepTypes DEF IInv, Types
  <2>8. GoneIsSilent' BY <1>1 DEF IInv, GoneIsSilent
  <2>9. NoEntryLeft' BY <1>1, <2>1, <2>2, <2>4, <2>5 DEF IInv, NoEntryLeft
  <2>10. ChainInv' /\ LogInv' BY <1>1, KeepChains, KeepLog DEF IInv
  <2>11. AnswersRight'
    BY <1>1, <1>2, <2>4, <2>5, Shorter DEF IInv, AnswersRight, SentOutcome, FinalOutcome
  <2>12. WaitersInv'
    <3> SUFFICES ASSUME NEW c \in Calls, call'[c] = "waiting" PROVE OnTheWay(c)'
      BY DEF WaitersInv
    <3>1. c # d /\ call[c] = "waiting" BY <2>4, <2>5
    <3>2. Answered(c) => Answered(c)'
      BY <1>1, <1>2, <2>3, <3>1, Shorter DEF Answered
    <3> QED BY <1>1, <3>1, <3>2 DEF IInv, WaitersInv, OnTheWay, Requested
  <2> QED BY <2>7, <2>8, <2>9, <2>10, <2>11, <2>12 DEF IInv
<1>9. h # <<Query>> /\ call[h[1]] = "waiting" => h[1] \in pending
  BY <1>4 DEF IInv, NoEntryLeft
<1> QED BY <1>1, <1>7, <1>8, <1>9 DEF Receive

LEMMA ExitStep ==
  ASSUME IInv, Exit
  PROVE  IInv'
<1> USE DEF Exit, LoseCalls
<1>1. Types' BY KeepTypes DEF IInv, Types, WorkerTypes, CallTypes
<1>2. GoneIsSilent' /\ NoEntryLeft' BY DEF GoneIsSilent, NoEntryLeft
<1>3. ChainInv' /\ LogInv' BY KeepChains, KeepLog DEF IInv
<1>4. AnswersRight' BY DEF IInv, AnswersRight
<1>5. WaitersInv' BY DEF WaitersInv
<1> QED BY <1>1, <1>2, <1>3, <1>4, <1>5 DEF IInv
-----------------------------------------------------------------------------
(***************************************************************************)
(* The steps of the master                                                 *)
(***************************************************************************)
\* Nothing that is under way when a worker is started is its own.
LEMMA NewWorker ==
  ASSUME IInv, gen' = gen + 1, results' = results \/ results' = <<>>,
         UNCHANGED <<lines, log, logs>>
  PROVE  LogInv'
<1>1. Handled' = Handled BY DEF Handled
<1>2. \A j \in 1 .. Len(results') : j \in 1 .. Len(results) /\ results'[j] = results[j]
  BY EmptySeq
<1>3. \A i \in 1 .. Len(Handled) : Handled[i].log <= logs /\ Handled[i].gen <= gen + 1
  BY LogTypes DEF IInv, LogInv
<1>4. \A j \in 1 .. Len(results) :
        results[j].log <= logs /\ results[j].gen <= gen + 1 /\ results[j].gen # gen + 1
  BY LogTypes DEF IInv, LogInv
<1>5. log \in Seq(Message) /\ lines \in Seq(Message) /\ Ascending(Handled)
  BY DEF IInv, LogInv
<1> QED BY <1>1, <1>2, <1>3, <1>4, <1>5 DEF LogInv, Ascending, Follows, Fresh

LEMMA ResubmitStep ==
  ASSUME IInv, Resubmit
  PROVE  IInv'
<1> USE NestedAssumption DEF Resubmit
<1>1. Types' BY KeepTypes DEF IInv, Types, WorkerTypes
<1>2. GoneIsSilent' BY DEF IInv, GoneIsSilent
<1>3. NoEntryLeft' /\ ChainInv' /\ AnswersRight'
  BY KeepEntries, KeepChains, KeepAnswers DEF IInv
<1>4. WaitersInv' BY DEF IInv, GoneIsSilent, WaitersInv
<1>5. LogInv' BY NewWorker
<1> QED BY <1>1, <1>2, <1>3, <1>4, <1>5 DEF IInv

LEMMA RebuildStep ==
  ASSUME IInv, Rebuild
  PROVE  IInv'
<1> USE NestedAssumption DEF Rebuild
<1>1. \A S : <<>> \in Seq(S) /\ Len(<<>>) = 0 BY EmptySeq
<1>2. Types'
  <2>1. WorkerTypes'
    <3>1. gen + 1 \in 1 .. MaxGen BY DEF IInv, Types, WorkerTypes
    <3>2. TRUE \in BOOLEAN /\ FALSE \in BOOLEAN OBVIOUS
    <3>3. queries \in 0 .. MaxQueries BY DEF IInv, Types, WorkerTypes
    <3> QED BY <3>1, <3>2, <3>3 DEF WorkerTypes
  <2>2. 0 <= QueueSize OBVIOUS
  <2>3. ResultTypes' /\ QueueTypes'
    BY <1>1, <2>2 DEF IInv, Types, ResultTypes, QueueTypes
  <2>4. CallTypes' /\ TaskTypes' BY KeepTypes DEF IInv, Types
  <2> QED BY <2>1, <2>3, <2>4 DEF Types
<1>3. GoneIsSilent' BY DEF IInv, GoneIsSilent
<1>4. NoEntryLeft' /\ ChainInv' BY KeepEntries, KeepChains DEF IInv
<1>5. AnswersRight' BY <1>1 DEF IInv, AnswersRight
<1>6. WaitersInv' BY DEF IInv, GoneIsSilent, WaitersInv
<1>7. LogInv' BY NewWorker
<1> QED BY <1>2, <1>3, <1>4, <1>5, <1>6, <1>7 DEF IInv

LEMMA PutQueryStep ==
  ASSUME IInv, PutQuery
  PROVE  IInv'
<1> USE NestedAssumption
<1>1. /\ queries < MaxQueries /\ Len(queue) < QueueSize /\ queries' = queries + 1
      /\ queue' = Append(queue, <<Query>>)
      /\ UNCHANGED <<worker, call, pending, holder, results, task, dropped, lines, log, logs>>
  BY DEF PutQuery
<1>2. queue \in Seq(Items) /\ <<Query>> \in Items BY DEF IInv, Types, QueueTypes, Items
<1>3. QueueTypes' /\ WorkerTypes'
  BY <1>1, <1>2, Longer DEF IInv, Types, QueueTypes, WorkerTypes
<1>4. Types' BY <1>1, <1>3, KeepTypes DEF IInv, Types
<1>5. GoneIsSilent' /\ NoEntryLeft' /\ ChainInv' /\ LogInv'
  BY <1>1, KeepGone, KeepEntries, KeepChains, KeepLog DEF IInv
<1>6. AnswersRight' BY <1>1, <1>2, Longer DEF IInv, AnswersRight
<1>7. WaitersInv'
  <2>1. \A c \in Calls : Answered(c) => Answered(c)' BY <1>1, <1>2, Longer DEF Answered
  <2> QED BY <1>1, <2>1 DEF IInv, WaitersInv, OnTheWay, Requested
<1> QED BY <1>4, <1>5, <1>6, <1>7 DEF IInv

LEMMA HandleResultStep ==
  ASSUME IInv, HandleResult
  PROVE  IInv'
<1> USE NestedAssumption
<1> PICK k \in Arrivals :
      LET m == results[k] IN
      /\ results' = RemoveAt(results, k)
      /\ task' = [c \in Calls |-> IF c \in m.call /\ Current(m)
                                  THEN [task[c] EXCEPT !.pc = "queued"] ELSE task[c]]
      /\ lines' = IF m.log # 0 /\ Current(m) THEN Append(lines, m) ELSE lines
      /\ UNCHANGED <<worker, call, pending, holder, queue, dropped, log, queries, logs>>
  BY DEF HandleResult
<1> DEFINE m == results[k]
           was(j) == IF j < k THEN j ELSE j + 1
<1>1. /\ k \in 1 .. Len(results) /\ Len(results) \in Nat /\ results \in Seq(Message)
      /\ \A j \in 1 .. Len(results) : j < k => results[j].gen # m.gen
  BY LogTypes, LenProperties DEF Arrivals
<1>2. m \in Message /\ m.log \in Nat /\ m.gen \in Nat BY <1>1, LogTypes
<1>3. /\ results' \in Seq(Message) /\ Len(results') = Len(results) - 1
      /\ \A j \in 1 .. Len(results') : results'[j] = results[was(j)]
  BY <1>1, Without
<1>4. /\ \A j \in 1 .. Len(results') : was(j) \in 1 .. Len(results) /\ was(j) # k
      /\ \A i, j \in 1 .. Len(results') : i < j => was(i) < was(j)
      /\ \A i \in 1 .. Len(results) : i # k => \E j \in 1 .. Len(results') : was(j) = i
  <2>1. \A i \in 1 .. Len(results) : i < k => i \in 1 .. Len(results') /\ was(i) = i
    BY <1>1, <1>3
  <2>2. \A i \in 1 .. Len(results) : i > k => i - 1 \in 1 .. Len(results') /\ was(i - 1) = i
    BY <1>1, <1>3
  <2>3. \A i \in 1 .. Len(results) : i # k => i < k \/ i > k BY <1>1
  <2>4. \A i \in 1 .. Len(results) : i # k => \E j \in 1 .. Len(results') : was(j) = i
    <3> HIDE DEF was
    <3> QED BY <2>1, <2>2, <2>3
  <2>5. \A j \in 1 .. Len(results') : was(j) \in 1 .. Len(results) /\ was(j) # k
    BY <1>1, <1>3
  <2>6. \A i, j \in 1 .. Len(results') : i < j => was(i) < was(j) BY <1>1, <1>3
  <2> HIDE DEF was
  <2> QED BY <2>4, <2>5, <2>6
<1>5. \A c \in Calls : /\ task'[c] \in TaskState /\ task'[c].chain = task[c].chain
                       /\ task'[c].pc = "queued" \/ task'[c] = task[c]
                       /\ c \in m.call /\ m.gen = gen => task'[c].pc = "queued"
  BY DEF IInv, Types, TaskTypes, TaskState, Current
<1>6. /\ UNCHANGED <<worker, call, pending, holder, queue, dropped, log, queries, logs>>
      /\ lines' = lines \/ (Fresh(m) /\ lines' = Append(lines, m))
  BY DEF Current, Fresh
<1>7. TaskTypes' BY <1>5 DEF TaskTypes
<1> HIDE DEF m, was
<1>8. ResultTypes'
  <2>1. Len(results) <= QueueSize /\ QueueSize \in Nat /\ logs \in 0 .. MaxLogs
    BY DEF IInv, Types, ResultTypes
  <2>2. Len(results') <= QueueSize BY <1>1, <1>3, <2>1
  <2> QED BY <1>3, <1>6, <2>1, <2>2 DEF ResultTypes
<1>9. Types' BY <1>6, <1>7, <1>8, KeepTypes DEF IInv, Types
<1>10. GoneIsSilent' /\ NoEntryLeft' /\ AnswersRight'
  BY <1>6, KeepGone, KeepEntries, KeepAnswers DEF IInv
<1>11. ChainInv' BY <1>5 DEF IInv, ChainInv, ChainIsWalk
<1>12. WaitersInv'
  <2> SUFFICES ASSUME NEW c \in Calls, call[c] = "waiting" PROVE OnTheWay(c)'
    BY <1>6 DEF WaitersInv
  <2>1. ASSUME Requested(c) PROVE Requested(c)' \/ task'[c].pc = "queued"
    <3>1. PICK i \in 1 .. Len(results) : c \in results[i].call /\ results[i].gen = gen
      BY <2>1 DEF Requested
    <3>2. CASE i = k BY <1>5, <3>1, <3>2 DEF m
    <3>3. CASE i # k
      <4>1. PICK j \in 1 .. Len(results') : was(j) = i BY <1>4, <3>3
      <4>2. c \in results'[j].call /\ results'[j].gen = gen' BY <1>3, <1>6, <3>1, <4>1
      <4> QED BY <4>2 DEF Requested
    <3> QED BY <3>2, <3>3
  <2> QED BY <1>5, <1>6, <2>1 DEF IInv, WaitersInv, OnTheWay, Answered
<1>13. LogInv'
  <2>1. \A j \in 1 .. Len(results') : Fresh(results[j])' <=> Fresh(results[was(j)])
    BY <1>3, <1>6 DEF Fresh
  <2>2. /\ \A j \in 1 .. Len(results') : results'[j].log <= logs /\ results'[j].gen <= gen
        /\ \A i, j \in 1 .. Len(results') :
             i < j /\ Fresh(results[was(i)]) /\ Fresh(results[was(j)])
               => results'[i].log < results'[j].log
    <3>1. /\ \A j \in 1 .. Len(results) : results[j].log <= logs /\ results[j].gen <= gen
          /\ \A i, j \in 1 .. Len(results) :
               i < j /\ Fresh(results[i]) /\ Fresh(results[j]) => results[i].log < results[j].log
      BY DEF IInv, LogInv
    <3>2. ASSUME NEW j \in 1 .. Len(results')
          PROVE  results'[j].log <= logs /\ results'[j].gen <= gen
      BY <1>3, <1>4, <3>1
    <3>3. ASSUME NEW i \in 1 .. Len(results'), NEW j \in 1 .. Len(results'), i < j,
                 Fresh(results[was(i)]), Fresh(results[was(j)])
          PROVE  results'[i].log < results'[j].log
      <4>1. was(i) \in 1 .. Len(results) /\ was(j) \in 1 .. Len(results) /\ was(i) < was(j)
        BY <1>4, <3>3
      <4>2. results[was(i)].log < results[was(j)].log BY <3>1, <3>3, <4>1
      <4> QED BY <1>3, <4>2
    <3> QED BY <3>2, <3>3
  <2>3. CASE lines' = lines
    <3>1. Handled' = Handled BY <1>6, <2>3 DEF Handled
    <3>2. \A j \in 1 .. Len(results') : Fresh(results[was(j)]) =>
            \A i \in 1 .. Len(Handled) : Handled[i].log < results'[j].log
      <4>1. \A j \in 1 .. Len(results) : Fresh(results[j]) =>
              \A i \in 1 .. Len(Handled) : Handled[i].log < results[j].log
        BY DEF IInv, LogInv
      <4> QED BY <1>3, <1>4, <4>1
    <3>3. /\ log \in Seq(Message) /\ lines \in Seq(Message) /\ Ascending(Handled)
          /\ \A i \in 1 .. Len(Handled) : Handled[i].log <= logs /\ Handled[i].gen <= gen
      BY DEF IInv, LogInv
    <3> QED BY <1>6, <2>1, <2>2, <2>3, <3>1, <3>2, <3>3 DEF LogInv, Ascending, Follows, Fresh
  <2>4. CASE Fresh(m) /\ lines' = Append(lines, m)
    <3>1. lines' \in Seq(Message) /\ Handled' = Append(Handled, m)
      <4>1. lines' \in Seq(Message) BY <1>2, <2>4, LogTypes, Longer
      <4>2. log \o Append(lines, m) = Append(log \o lines, m)
        <5>1. log \in Seq(Message) /\ lines \in Seq(Message) BY LogTypes
        <5> QED BY <1>2, <5>1, HandOver
      <4> QED BY <1>6, <2>4, <4>1, <4>2 DEF Handled
    <3>2. /\ Len(Handled') = Len(Handled) + 1
          /\ \A i \in 1 .. Len(Handled) : i \in 1 .. Len(Handled') /\ Handled'[i] = Handled[i]
          /\ \A i \in 1 .. Len(Handled') :
               \/ i \in 1 .. Len(Handled)
               \/ i = Len(Handled) + 1 /\ Handled'[i] = m
      <4>1. Handled \in Seq(Message) BY LogTypes
      <4> QED BY <1>2, <3>1, <4>1, Longer
    <3>3. /\ m.gen = gen /\ m.log # 0 /\ m.log <= logs
          /\ \A i \in 1 .. Len(Handled) : Follows(Handled[i], m)
      BY <1>1, <2>4 DEF IInv, LogInv, Fresh, Follows, m
    <3>4. \A i \in 1 .. Len(Handled') : Handled'[i].log <= logs /\ Handled'[i].gen <= gen
      <4>1. gen <= gen BY LogTypes
      <4> QED BY <3>2, <3>3, <4>1 DEF IInv, LogInv
    <3>5. ASSUME NEW i \in 1 .. Len(Handled'), NEW j \in 1 .. Len(Handled'), i < j
          PROVE  Follows(Handled'[i], Handled'[j])
      <4>1. i \in 1 .. Len(Handled) BY <3>2, <3>5, LogTypes
      <4>2. CASE j \in 1 .. Len(Handled)
        BY <3>2, <3>5, <4>1, <4>2 DEF IInv, LogInv, Ascending
      <4>3. CASE Handled'[j] = m BY <3>2, <3>3, <4>1, <4>3
      <4> QED BY <3>2, <4>2, <4>3
    <3>6. ASSUME NEW j \in 1 .. Len(results'), Fresh(results[was(j)]), NEW i \in 1 .. Len(Handled')
          PROVE  Handled'[i].log < results'[j].log
      <4>1. was(j) \in 1 .. Len(results) /\ results'[j] = results[was(j)] BY <1>3, <1>4
      <4>2. CASE i \in 1 .. Len(Handled)
        BY <3>2, <3>6, <4>1, <4>2 DEF IInv, LogInv
      <4>3. CASE Handled'[i] = m
        <5>1. ~(was(j) < k) BY <1>1, <3>3, <3>6, <4>1 DEF Fresh
        <5>2. k < was(j) BY <1>1, <1>4, <4>1, <5>1
        <5> QED BY <1>1, <2>4, <3>6, <4>1, <4>3, <5>2 DEF IInv, LogInv, m
      <4> QED BY <3>2, <4>2, <4>3
    <3>7. Ascending(Handled)' BY <3>5 DEF Ascending, Follows
    <3> QED BY <1>6, <2>1, <2>2, <3>1, <3>4, <3>6, <3>7, LogTypes DEF LogInv, Fresh
  <2> QED BY <1>6, <2>3, <2>4
<1> QED BY <1>9, <1>10, <1>11, <1>12, <1>13 DEF IInv

LEMMA WriteLogStep ==
  ASSUME IInv, WriteLog
  PROVE  IInv'
<1>1. /\ lines # <<>> /\ log' = Append(log, Head(lines)) /\ lines' = Tail(lines)
      /\ UNCHANGED <<worker, call, pending, holder, results, task, queue, dropped, queries, logs>>
  BY DEF WriteLog
<1>2. Types' BY <1>1, KeepTypes DEF IInv, Types
<1>3. GoneIsSilent' /\ NoEntryLeft' /\ ChainInv' /\ AnswersRight'
  BY <1>1, KeepGone, KeepEntries, KeepChains, KeepAnswers DEF IInv
<1>4. WaitersInv' BY <1>1, KeepWaiters DEF IInv
<1>5. Handled' = Handled BY <1>1, LogTypes, HandOver DEF Handled
<1>6. log' \in Seq(Message) /\ lines' \in Seq(Message)
  BY <1>1, LogTypes, Shorter, Longer
<1>7. LogInv' BY <1>1, <1>5, <1>6 DEF IInv, LogInv, Ascending, Follows, Fresh
<1> QED BY <1>2, <1>3, <1>4, <1>7 DEF IInv

\* Starting a task or asking a further name leaves all but the task alone.
LEMMA TaskOnly ==
  ASSUME IInv, NEW c \in Calls, NEW t \in TaskState, task' = [task EXCEPT ![c] = t],
         UNCHANGED <<worker, call, pending, holder, results, queue, dropped, lines, log, queries, logs>>,
         t.pc = "running", task[c].pc = "queued" => t.epoch = epoch,
         task[c].pc # "queued" => task[c].pc = "running" /\ t.epoch = task[c].epoch,
         IsInjective(t.chain), Len(t.chain) <= MaxDepth, t.chain # <<>>,
         \A i \in 1 .. Len(t.chain) : t.chain[i] = Walk[i][Asks[c]]
  PROVE  IInv'
<1>1. task'[c] = t /\ \A d \in Calls : d # c => task'[d] = task[d]
  BY DEF IInv, Types, TaskTypes
<1>2. TaskTypes' BY DEF IInv, Types, TaskTypes
<1>3. Types' BY <1>2, KeepTypes DEF IInv, Types
<1>4. GoneIsSilent' /\ NoEntryLeft' /\ AnswersRight' /\ LogInv'
  BY KeepGone, KeepEntries, KeepAnswers, KeepLog DEF IInv
<1>5. ChainInv'
  <2> SUFFICES ASSUME NEW d \in Calls
               PROVE  /\ IsInjective(task'[d].chain) /\ Len(task'[d].chain) <= MaxDepth
                      /\ task'[d].pc = "running" => ChainIsWalk(d)'
    BY DEF ChainInv
  <2>1. CASE d = c BY <1>1, <2>1 DEF ChainIsWalk
  <2>2. CASE d # c BY <1>1, <2>2 DEF IInv, ChainInv, ChainIsWalk
  <2> QED BY <2>1, <2>2
<1>6. WaitersInv'
  <2> SUFFICES ASSUME NEW d \in Calls, call[d] = "waiting" PROVE OnTheWay(d)'
    BY DEF WaitersInv
  <2>1. (Requested(d) <=> Requested(d)') /\ (Answered(d) <=> Answered(d)')
    BY DEF Requested, Answered
  <2>2. OnTheWay(d) BY DEF IInv, WaitersInv
  <2>3. CASE d = c BY <1>1, <2>1, <2>2, <2>3 DEF OnTheWay
  <2>4. CASE d # c BY <1>1, <2>1, <2>2, <2>4 DEF OnTheWay
  <2> QED BY <2>3, <2>4
<1> QED BY <1>3, <1>4, <1>5, <1>6 DEF IInv

LEMMA StartTaskStep ==
  ASSUME IInv, NEW c \in Calls, StartTask(c)
  PROVE  IInv'
<1> USE NestedAssumption
<1> DEFINE t == [pc |-> "running", chain |-> <<Asks[c]>>, epoch |-> epoch]
<1>1. /\ task[c].pc = "queued" /\ task' = [task EXCEPT ![c] = t]
      /\ UNCHANGED <<worker, call, pending, holder, results, queue, dropped, lines, log, queries, logs>>
  BY DEF StartTask
<1>2. Asks[c] \in Sigs OBVIOUS
<1>3. /\ <<Asks[c]>> \in Seq(Sigs) /\ Len(<<Asks[c]>>) = 1 /\ <<Asks[c]>> # <<>>
      /\ <<Asks[c]>>[1] = Asks[c] /\ DOMAIN <<Asks[c]>> = 1 .. 1
  BY <1>2
<1>4. IsInjective(<<Asks[c]>>) BY <1>3 DEF IsInjective
<1>5. epoch \in 0 .. MaxGen BY DEF IInv, Types, WorkerTypes
<1>6. /\ t \in TaskState /\ t.pc = "running" /\ t.epoch = epoch /\ t.chain = <<Asks[c]>>
  BY <1>3, <1>5 DEF TaskState
<1>7. \A i \in 1 .. Len(t.chain) : t.chain[i] = Walk[i][Asks[c]]
  <2>1. Walk[1][Asks[c]] = Asks[c] BY <1>2, WalkSteps
  <2>2. \A i \in 1 .. 1 : i = 1 OBVIOUS
  <2> QED BY <1>3, <1>6, <2>1, <2>2
<1> HIDE DEF t
<1>8. 1 <= MaxDepth OBVIOUS
<1> QED BY <1>1, <1>3, <1>4, <1>6, <1>7, <1>8, TaskOnly

\* What the chain of a running task is, and where it leads.
LEMMA RunningChain ==
  ASSUME IInv, NEW c \in Calls, task[c].pc = "running"
  PROVE  LET s == task[c].chain IN
         /\ s \in Seq(Sigs) /\ s # <<>> /\ Len(s) \in 1 .. MaxDepth
         /\ \A i \in 1 .. Len(s) : s[i] = Walk[i][Asks[c]] /\ s[i] \in Sigs
         /\ Asks[c] \in Sigs /\ Asked(c) = Walk[Len(s) + 1][Asks[c]]
         /\ Asked(c) \in Sigs \cup Kinds
<1> USE NestedAssumption
<1> DEFINE s == task[c].chain
<1>1. s \in Seq(Sigs) BY DEF IInv, Types, TaskTypes, TaskState
<1>2. /\ s # <<>> /\ Len(s) <= MaxDepth
      /\ \A i \in 1 .. Len(s) : s[i] = Walk[i][Asks[c]]
  BY DEF IInv, ChainInv, ChainIsWalk
<1>3. Asked(c) = Leads[Last(s)] BY DEF Asked
<1> HIDE DEF s
<1>4. Last(s) = s[Len(s)] /\ Len(s) \in 1 .. Len(s) /\ Last(s) \in Sigs
  BY <1>1, <1>2, LastElement
<1>5. \A i \in 1 .. Len(s) : s[i] \in Sigs BY <1>1, RangeIndexed
<1>6. Len(s) \in Nat BY <1>1, LenProperties
<1>7. Len(s) \in 1 .. MaxDepth BY <1>2, <1>4, <1>6
<1>8. Asks[c] \in Sigs OBVIOUS
<1>9. Walk[Len(s)][Asks[c]] \in Sigs /\ Walk[Len(s)][Asks[c]] = Last(s) BY <1>2, <1>4
<1>10. Walk[Len(s) + 1][Asks[c]] = Leads[Last(s)] BY <1>7, <1>8, <1>9, WalkSteps
<1>11. Leads[Last(s)] \in Sigs \cup Kinds BY <1>4
<1> QED BY <1>1, <1>2, <1>3, <1>5, <1>7, <1>8, <1>10, <1>11 DEF s

LEMMA RecurseStep ==
  ASSUME IInv, NEW c \in Calls, Recurse(c)
  PROVE  IInv'
<1> USE NestedAssumption
<1> DEFINE s == task[c].chain
           a == Asked(c)
           t == [task[c] EXCEPT !.chain = Append(s, a)]
<1>1. /\ task[c].pc = "running" /\ a \in Sigs /\ ~Refused(s, a)
      /\ task' = [task EXCEPT ![c] = t]
      /\ UNCHANGED <<worker, call, pending, holder, results, queue, dropped, lines, log, queries, logs>>
  BY DEF Recurse, IInv, Types, TaskTypes, TaskState
<1>2. /\ s \in Seq(Sigs) /\ s # <<>> /\ Len(s) \in 1 .. MaxDepth
      /\ \A i \in 1 .. Len(s) : s[i] = Walk[i][Asks[c]]
      /\ a = Walk[Len(s) + 1][Asks[c]]
  BY <1>1, RunningChain
<1>3. task[c] \in TaskState BY DEF IInv, Types, TaskTypes
<1>4. IsInjective(s) BY DEF IInv, ChainInv
<1> HIDE DEF s, a
<1>5. /\ Append(s, a) \in Seq(Sigs) /\ Append(s, a) # <<>>
      /\ Len(s) \in Nat /\ Len(Append(s, a)) = Len(s) + 1
      /\ \A i \in 1 .. Len(Append(s, a)) :
           \/ i \in 1 .. Len(s) /\ Append(s, a)[i] = s[i]
           \/ i = Len(s) + 1 /\ Append(s, a)[i] = a
  BY <1>1, <1>2, Longer
<1>6. t \in TaskState /\ t.pc = task[c].pc /\ t.epoch = task[c].epoch /\ t.chain = Append(s, a)
  BY <1>3, <1>5 DEF TaskState
<1> HIDE DEF t
<1>7. \A i \in 1 .. Len(t.chain) : t.chain[i] = Walk[i][Asks[c]]
  BY <1>2, <1>5, <1>6
<1>8. a \notin Range(s) /\ ~(Len(s) >= MaxDepth) BY <1>1 DEF Refused
<1>9. IsInjective(t.chain) BY <1>1, <1>2, <1>4, <1>6, <1>8, StillInjective
<1>10. Len(t.chain) <= MaxDepth BY <1>5, <1>6, <1>8
<1> QED BY <1>1, <1>5, <1>6, <1>7, <1>9, <1>10, TaskOnly

\* A task that ends, with a result or refused, sends what one process would
\* have returned, converted.
LEMMA EndIsRight ==
  ASSUME IInv, NEW c \in Calls, task[c].pc = "running",
         NEW refused, refused = (Asked(c) \in Sigs /\ Refused(task[c].chain, Asked(c))),
         refused \/ Asked(c) \in Kinds
  PROVE  [kind |-> Serialize(IF refused THEN "recursion" ELSE Asked(c)), sig |-> Asks[c]]
           = SentOutcome(c)
<1> USE NestedAssumption
<1> DEFINE s == task[c].chain
           w == Asks[c]
<1>1. /\ s \in Seq(Sigs) /\ Len(s) \in 1 .. MaxDepth
      /\ \A i \in 1 .. Len(s) : s[i] = Walk[i][w] /\ s[i] \in Sigs
      /\ w \in Sigs /\ Asked(c) = Walk[Len(s) + 1][w]
  BY RunningChain
<1>2. refused <=> Asked(c) \in Sigs /\ (Asked(c) \in Range(s) \/ Len(s) >= MaxDepth)
  BY DEF Refused
<1> HIDE DEF s
<1>3. Len(s) + 1 \in 1 .. MaxDepth + 1 BY <1>1
<1>4. CASE ~refused
  <2>1. Asked(c) \in Kinds BY <1>4
  <2>2. Walk[MaxDepth + 1][w] = Asked(c) BY <1>1, <1>3, <2>1, WalkEnds
  <2>3. LocalKind(w) = Asked(c) BY <2>1, <2>2 DEF LocalKind
  <2> QED BY <1>4, <2>3 DEF SentOutcome
<1>5. CASE refused
  <2>1. Walk[MaxDepth + 1][w] \in Sigs
    <3>1. CASE Len(s) >= MaxDepth
      <4>1. Len(s) = MaxDepth BY <1>1, <3>1
      <4> QED BY <1>1, <1>2, <1>5, <4>1
    <3>2. CASE Asked(c) \in Range(s)
      <4>1. PICK i \in 1 .. Len(s) : s[i] = Asked(c) BY <1>1, <3>2, RangeIndexed
      <4>2. Walk[Len(s) + 1][w] = Walk[i][w] BY <1>1, <4>1
      <4>3. \A j \in 1 .. Len(s) : Walk[j][w] \in Sigs BY <1>1
      <4> QED BY <1>1, <4>2, <4>3, WalkRepeats
    <3> QED BY <1>2, <1>5, <3>1, <3>2
  <2>2. LocalKind(w) = "recursion" BY <2>1 DEF LocalKind
  <2> QED BY <1>5, <2>2 DEF SentOutcome
<1> QED BY <1>4, <1>5

LEMMA EndTaskStep ==
  ASSUME IInv, NEW c \in Calls, EndTask(c)
  PROVE  IInv'
<1> USE NestedAssumption
<1> DEFINE refused == Asked(c) \in Sigs /\ Refused(task[c].chain, Asked(c))
           o == [kind |-> Serialize(IF refused THEN "recursion" ELSE Asked(c)), sig |-> Asks[c]]
<1>1. /\ task[c].pc = "running" /\ (refused \/ Asked(c) \in Kinds)
      /\ task' = [task EXCEPT ![c] = [task[c] EXCEPT !.pc = "done"]]
      /\ Reply(c, o)
      /\ UNCHANGED <<worker, call, pending, holder, results, lines, log, queries, logs>>
  BY DEF EndTask, IInv, Types, TaskTypes, TaskState
<1>2. o = SentOutcome(c) BY <1>1, EndIsRight
<1> HIDE DEF refused
<1> HIDE DEF o
<1>3. o \in Outcomes BY <1>2, FinalIsRebuilt
<1>4. /\ task'[c].pc = "done" /\ task'[c] \in TaskState /\ task'[c].chain = task[c].chain
      /\ \A d \in Calls : d # c => task'[d] = task[d]
  BY <1>1 DEF IInv, Types, TaskTypes, TaskState
<1>5. queue \in Seq(Items) /\ Len(queue) <= QueueSize BY DEF IInv, Types, QueueTypes
<1>6. Response(c, o) \in Items /\ Response(c, o)[1] = c /\ Response(c, o)[2] = SentOutcome(c)
  BY <1>2, <1>3 DEF Response, Items, Responses
<1> DEFINE r == Response(c, o)
<1>7. r # <<Query>> BY <1>6 DEF Response
<1>8. \/ task[c].epoch = epoch /\ Len(queue) < QueueSize
         /\ queue' = Append(queue, r) /\ dropped' = dropped
      \/ queue' = queue /\ dropped' = dropped \cup {c}
      \/ task[c].epoch # epoch /\ queue' = queue /\ dropped' = dropped
  BY <1>1 DEF Reply
<1> HIDE DEF r
<1>9. /\ queue' \in Seq(Items) /\ Len(queue') <= QueueSize
      /\ \A i \in 1 .. Len(queue) : i \in 1 .. Len(queue') /\ queue'[i] = queue[i]
      /\ \A i \in 1 .. Len(queue') : i \in 1 .. Len(queue) \/ queue'[i] = r
  <2>1. CASE queue' = queue BY <1>5, <2>1
  <2>2. CASE Len(queue) < QueueSize /\ queue' = Append(queue, r)
    <3>1. r \in Items BY <1>6 DEF r
    <3>2. Len(queue) \in Nat /\ Len(queue') = Len(queue) + 1 BY <1>5, <2>2, <3>1, Longer
    <3>3. Len(queue') <= QueueSize BY <2>2, <3>2
    <3> QED BY <1>5, <2>2, <3>1, <3>3, Longer
  <2> QED BY <1>8, <2>1, <2>2
<1>10. TaskTypes' BY <1>1, <1>4 DEF IInv, Types, TaskTypes
<1>11. CallTypes' BY <1>1, <1>8 DEF IInv, Types, CallTypes
<1>12. Types' BY <1>1, <1>9, <1>10, <1>11, KeepTypes DEF IInv, Types, QueueTypes
<1>13. GoneIsSilent' /\ NoEntryLeft' /\ LogInv'
  BY <1>1, KeepGone, KeepEntries, KeepLog DEF IInv
<1>14. ChainInv'
  <2> SUFFICES ASSUME NEW d \in Calls
               PROVE  /\ IsInjective(task'[d].chain) /\ Len(task'[d].chain) <= MaxDepth
                      /\ task'[d].pc = "running" => ChainIsWalk(d)'
    BY DEF ChainInv
  <2>1. CASE d = c BY <1>4, <2>1 DEF IInv, ChainInv
  <2>2. CASE d # c BY <1>4, <2>2 DEF IInv, ChainInv, ChainIsWalk
  <2> QED BY <2>1, <2>2
<1>15. AnswersRight'
  <2>1. r[1] = c /\ r[2] = SentOutcome(c) BY <1>6 DEF r
  <2>2. \A i \in 1 .. Len(queue') : queue'[i] # <<Query>> => queue'[i][2] = SentOutcome(queue'[i][1])
    BY <1>9, <2>1 DEF IInv, AnswersRight
  <2> QED BY <1>1, <2>2 DEF IInv, AnswersRight, SentOutcome, FinalOutcome
<1>16. WaitersInv'
  <2> SUFFICES ASSUME NEW d \in Calls, call[d] = "waiting" PROVE OnTheWay(d)'
    BY <1>1 DEF WaitersInv
  <2>1. OnTheWay(d) BY DEF IInv, WaitersInv
  <2>2. Requested(d) => Requested(d)' BY <1>1 DEF Requested
  <2>3. Answered(d) => Answered(d)' BY <1>9 DEF Answered
  <2>4. d \in dropped => d \in dropped' BY <1>8
  <2>5. CASE d # c BY <1>1, <1>4, <2>1, <2>2, <2>3, <2>4, <2>5 DEF OnTheWay
  <2>6. CASE d = c /\ task[c].epoch # epoch
    BY <1>1, <2>1, <2>2, <2>3, <2>4, <2>6 DEF OnTheWay
  <2>7. CASE d = c /\ c \in dropped' BY <2>7 DEF OnTheWay
  <2>8. CASE d = c /\ queue' = Append(queue, r)
    <3>1. r \in Items /\ r[1] = c BY <1>6 DEF r
    <3>2. Len(queue) + 1 \in 1 .. Len(queue') /\ queue'[Len(queue) + 1] = r
      BY <1>5, <2>8, <3>1, Longer
    <3>3. Answered(c)' BY <1>7, <3>1, <3>2 DEF Answered
    <3> QED BY <2>8, <3>3 DEF OnTheWay
  <2> QED BY <1>8, <2>5, <2>6, <2>7, <2>8
<1> QED BY <1>12, <1>13, <1>14, <1>15, <1>16 DEF IInv
-----------------------------------------------------------------------------
(***************************************************************************)
(* The theorems                                                            *)
(***************************************************************************)
LEMMA InitIInv == Init => IInv
<1> USE NestedAssumption
<1> SUFFICES ASSUME Init PROVE IInv OBVIOUS
<1> USE DEF Init
<1>1. \A S : <<>> \in Seq(S) /\ Len(<<>>) = 0 BY EmptySeq
<1>2. DOMAIN <<>> = {} /\ (1 .. 0) = {} OBVIOUS
<1>3. WorkerTypes
  <2>1. 1 \in 1 .. MaxGen /\ 0 \in 0 .. MaxQueries OBVIOUS
  <2>2. TRUE \in BOOLEAN /\ FALSE \in BOOLEAN OBVIOUS
  <2> QED BY <2>1, <2>2 DEF WorkerTypes
<1>4. CallTypes
  <2>1. \A c \in Calls : Nothing(c) \in Outcomes BY DEF Nothing, Outcomes
  <2> QED BY <2>1 DEF CallTypes
<1>5. NoTask \in TaskState BY <1>1 DEF NoTask, TaskState
<1>6. TaskTypes BY <1>5 DEF TaskTypes
<1>7. ResultTypes /\ QueueTypes BY <1>1 DEF ResultTypes, QueueTypes
<1>8. GoneIsSilent /\ NoEntryLeft BY DEF GoneIsSilent, NoEntryLeft
<1>9. ChainInv
  <2>1. \A c \in Calls : task[c].chain = <<>> /\ task[c].pc = "none" BY DEF NoTask
  <2>2. IsInjective(<<>>) BY <1>2 DEF IsInjective
  <2> QED BY <1>1, <2>1, <2>2 DEF ChainInv
<1>10. AnswersRight BY <1>1, <1>2 DEF AnswersRight
<1>11. WaitersInv BY DEF WaitersInv
<1>12. LogInv
  <2>1. Handled = <<>> /\ Len(Handled) = 0 BY <1>1, ConcatEmptySeq DEF Handled
  <2> QED BY <1>1, <1>2, <2>1 DEF LogInv, Ascending
<1> QED BY <1>3, <1>4, <1>6, <1>7, <1>8, <1>9, <1>10, <1>11, <1>12 DEF IInv, Types

LEMMA NextIInv == IInv /\ [Next]_vars => IInv'
<1> SUFFICES ASSUME IInv, [Next]_vars PROVE IInv' OBVIOUS
<1>1. ASSUME NEW c \in Calls, Resolve(c) \/ CallStep(c) \/ TaskStep(c) PROVE IInv'
  <2>1. CASE Resolve(c) BY <2>1, ResolveStep
  <2>2. CASE CallStep(c) BY <2>2, PutStep, LeaveCallStep DEF CallStep
  <2>3. CASE TaskStep(c) BY <2>3, StartTaskStep, RecurseStep, EndTaskStep DEF TaskStep
  <2> QED BY <1>1, <2>1, <2>2, <2>3
<1>2. CASE Take \/ HandleResult \/ WriteLog \/ SendLog \/ PutQuery
  BY <1>2, TakeStep, HandleResultStep, WriteLogStep, SendLogStep, PutQueryStep
<1>3. CASE Exit \/ Resubmit \/ Rebuild BY <1>3, ExitStep, ResubmitStep, RebuildStep
<1>4. CASE UNCHANGED vars
  <2>1. Types' BY <1>4, KeepTypes DEF IInv, Types
  <2>2. GoneIsSilent' /\ NoEntryLeft' /\ ChainInv' /\ AnswersRight' /\ WaitersInv' /\ LogInv'
    BY <1>4, KeepGone, KeepEntries, KeepChains, KeepAnswers, KeepWaiters, KeepLog DEF IInv
  <2> QED BY <2>1, <2>2 DEF IInv
<1> QED BY <1>1, <1>2, <1>3, <1>4 DEF Next

\* Every reachable state satisfies the inductive invariant.
THEOREM NestedInvariant == Spec => []IInv
BY InitIInv, NextIInv, PTL DEF Spec

\* A chain of nested calls never asks a name twice nor exceeds the depth limit,
\* the worker's table holds exactly the calls under way, the queues keep their
\* bounds, and the log holds the lines of a worker before those of its successor
\* though their tasks may run when the worker is gone, for every limit and however
\* often the worker is replaced.
THEOREM CallsAreBounded == Spec => []CallInv
<1>1. IInv => LogInOrder
  <2> SUFFICES ASSUME IInv, NEW i \in DOMAIN log, NEW j \in DOMAIN log, i < j
               PROVE  log[i].log < log[j].log /\ log[i].gen <= log[j].gen
    BY DEF LogInOrder
  <2>1. DOMAIN log = 1 .. Len(log) /\ Len(log) \in Nat BY LogTypes, LenProperties
  <2>2. /\ Len(log) <= Len(Handled)
        /\ \A n \in 1 .. Len(log) : Handled[n] = log[n]
    BY LogTypes, HandOver DEF Handled
  <2>3. i \in 1 .. Len(Handled) /\ j \in 1 .. Len(Handled) BY <2>1, <2>2, LogTypes
  <2>4. Follows(Handled[i], Handled[j]) BY <2>3 DEF IInv, LogInv, Ascending
  <2> QED BY <2>1, <2>2, <2>4 DEF Follows
<1>2. IInv => CallInv
  BY <1>1, TypesGiveTypeOK DEF IInv, ChainInv, CallInv, ChainsAreBounded
<1> QED BY <1>2, NestedInvariant, PTL

\* A call that returns from the master's side has the outcome it would have had
\* in one process, up to what the messages and the rebuilt answer make of it,
\* whatever graph of names it runs into and whichever worker the answer reaches.
THEOREM NestedIsLocal == Spec => []SameAsLocal
<1>1. IInv => SameAsLocal BY DEF IInv, AnswersRight, FinalOutcome, SameAsLocal
<1> QED BY <1>1, NestedInvariant, PTL

\* A waiting call has its request, its task or its answer under way, unless the
\* answer found the request queue full.
THEOREM WaitersAreServed == Spec => []WaitersWillBeAnswered
<1>1. IInv => WaitersWillBeAnswered
  <2> SUFFICES ASSUME IInv, NEW c \in Calls, call[c] = "waiting"
               PROVE  \/ \E m \in Range(results) : c \in m.call /\ m.gen = gen
                      \/ task[c].pc \in {"queued", "running"}
                      \/ \E m \in Range(queue) : m[1] = c
                      \/ c \in dropped
    BY DEF WaitersWillBeAnswered
  <2>1. OnTheWay(c) BY DEF IInv, WaitersInv
  <2>2. results \in Seq(Message) /\ queue \in Seq(Items)
    BY DEF IInv, Types, ResultTypes, QueueTypes
  <2>3. Requested(c) => \E m \in Range(results) : c \in m.call /\ m.gen = gen
    BY <2>2, RangeIndexed DEF Requested
  <2>4. Answered(c) => \E m \in Range(queue) : m[1] = c
    BY <2>2, RangeIndexed DEF Answered
  <2> QED BY <2>1, <2>3, <2>4 DEF OnTheWay
<1> QED BY <1>1, NestedInvariant, PTL
==============================================================================
