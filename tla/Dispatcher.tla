------------------------------ MODULE Dispatcher ------------------------------
(***************************************************************************)
(* One dispatch of a query to an upstream group, with groups inside        *)
(* groups: RaceDispatchStrategy, WaitAllDispatchStrategy and               *)
(* DispatcherRegistry.dispatch_target.                                     *)
(*                                                                         *)
(* Every member of a group has a task, which asks an upstream or           *)
(* dispatches an inner group with the same strategy and puts the result in *)
(* the group's memory stream.  The stream has room for every member, so    *)
(* sending never waits.  Results are told apart by the upstream they come  *)
(* from, as UpstreamResult objects are passed by reference.                *)
(*                                                                         *)
(* Cancelling a scope reaches the tasks below it that are suspended.  A    *)
(* task whose awaited future is already done resumes once more: it calls   *)
(* on_result and only its send is refused.                                 *)
(***************************************************************************)
EXTENDS Naturals, FiniteSets, Sequences, SequencesExt

CONSTANTS
  Upstreams,   \* the leaves: one task that asks an upstream
  Groups,      \* the inner nodes: one dispatch of a group
  Root,        \* the group the rule engine selected
  Parent,      \* the group a task belongs to
  Durations,   \* values of duration_ms
  Unknown      \* the upstream_name of default_result

Nodes == Upstreams \cup Groups
Members(g) == {n \in Nodes \ {Root} : Parent[n] = g}

\* _validate_group_cycles has refused groups that contain themselves, so that no
\* set of tasks has all their groups in it, and every group names a member
\* (min_length=1).
ASSUME DispatcherAssumption ==
  /\ Upstreams \cap Groups = {} /\ Unknown \notin Nodes
  /\ Root \in Groups
  /\ Parent \in [Nodes \ {Root} -> Groups]
  /\ \A S \in SUBSET (Nodes \ {Root}) : S # {} => \E n \in S : Parent[n] \notin S
  /\ \A g \in Groups : Members(g) # {}
  /\ Durations \subseteq Nat /\ Durations # {}

Kinds == {"answer", "nxdomain", "error"}

VARIABLES
  strategy,   \* "race" or "wait_all", from the rule or the default
  task,       \* what the task of a node is doing
  kind,       \* what an upstream replied
  duration,   \* and the duration_ms it measured
  stream,     \* a group's memory stream: results sent and not received
  received,   \* results the coordinator of a group has received
  winner,     \* the race's winner
  result,     \* what a group's dispatch returned
  collected,  \* collected_results of an upstream's result
  reported,   \* upstreams whose result was given to on_result
  aborted     \* whether the query was cancelled from outside

vars == <<strategy, task, kind, duration, stream, received, winner, result,
          collected, reported, aborted>>

Names == Upstreams \cup {Unknown}
EndedTask == {"done", "cancelled"}

TypeOK ==
  /\ strategy \in {"race", "wait_all"}
  /\ task \in [Nodes -> {"running", "ready"} \cup EndedTask]
  /\ kind \in [Upstreams -> Kinds]
  /\ duration \in [Upstreams -> Durations]
  /\ \A g \in Groups : stream[g] \in Seq(Names) /\ received[g] \in Seq(Names)
  /\ winner \in [Groups -> Names]
  /\ result \in [Groups -> Names]
  /\ collected \in [Names -> SUBSET Names]
  /\ reported \subseteq Upstreams
  /\ aborted \in {"no", "yes"}

\* What an upstream will reply, and how long it says it took, is fixed by the
\* first state, whatever the order in which the tasks see their replies.
Init ==
  /\ strategy \in {"race", "wait_all"}
  /\ task = [n \in Nodes |-> "running"]
  /\ kind \in [Upstreams -> Kinds]
  /\ duration \in [Upstreams -> Durations]
  /\ stream = [g \in Groups |-> <<>>]
  /\ received = [g \in Groups |-> <<>>]
  /\ winner = [g \in Groups |-> Unknown]
  /\ result = [g \in Groups |-> Unknown]
  /\ collected = [n \in Names |-> {}]
  /\ reported = {}
  /\ aborted = "no"
-----------------------------------------------------------------------------
(***************************************************************************)
(* Cancel scopes                                                           *)
(***************************************************************************)
\* The groups whose task group a node's task runs in: its own group and, with
\* any group, the one that group belongs to.
Ancestors(n) ==
  {g \in Groups : \A S \in SUBSET Groups :
     (n # Root => Parent[n] \in S) /\ (\A h \in S \ {Root} : Parent[h] \in S) => g \in S}

\* A scope is cancelled when its race has a winner, or from outside the dispatch.
Cancelled(n) == aborted = "yes" \/ \E g \in Ancestors(n) : winner[g] # Unknown

\* The listener or the worker cancels the query.
Abort ==
  /\ task[Root] = "running" /\ aborted = "no"
  /\ aborted' = "yes"
  /\ UNCHANGED <<strategy, task, kind, duration, stream, received, winner, result,
                 collected, reported>>

IsSuccess(u) == u \in Upstreams /\ kind[u] = "answer"
-----------------------------------------------------------------------------
(***************************************************************************)
(* The task of an upstream: dispatch_target and the worker around it       *)
(***************************************************************************)
\* The reply, an error or the resolver's timeout completes the future that
\* the task awaits.
Reply(u) ==
  /\ task[u] = "running" /\ ~Cancelled(u)
  /\ task' = [task EXCEPT ![u] = "ready"]
  /\ UNCHANGED <<strategy, kind, duration, stream, received, winner, result,
                 collected, reported, aborted>>

\* The task resumes: on_result, then the send, which fails in a cancelled scope.
Resume(u) ==
  /\ task[u] = "ready"
  /\ reported' = reported \cup {u}
  /\ \/ /\ ~Cancelled(u)
        /\ task' = [task EXCEPT ![u] = "done"]
        /\ stream' = [stream EXCEPT ![Parent[u]] = Append(@, u)]
     \/ /\ Cancelled(u)
        /\ task' = [task EXCEPT ![u] = "cancelled"]
        /\ UNCHANGED stream
  /\ UNCHANGED <<strategy, kind, duration, received, winner, result, collected, aborted>>

\* The cancellation reaches a task that waits.
Abandon(u) ==
  /\ task[u] = "running" /\ Cancelled(u)
  /\ task' = [task EXCEPT ![u] = "cancelled"]
  /\ UNCHANGED <<strategy, kind, duration, stream, received, winner, result,
                 collected, reported, aborted>>
-----------------------------------------------------------------------------
(***************************************************************************)
(* The dispatch of a group                                                 *)
(***************************************************************************)
Receiving(g) ==
  task[g] = "running" /\ ~Cancelled(g) /\ winner[g] = Unknown /\ stream[g] # <<>>

\* The race's coordinator: the first success wins and cancels the others.
ReceiveRace(g) ==
  /\ strategy = "race" /\ Receiving(g)
  /\ stream' = [stream EXCEPT ![g] = Tail(@)]
  /\ IF IsSuccess(Head(stream[g]))
     THEN /\ winner' = [winner EXCEPT ![g] = Head(stream[g])]
          /\ UNCHANGED received
     ELSE /\ received' = [received EXCEPT ![g] = Append(@, Head(stream[g]))]
          /\ UNCHANGED winner
  /\ UNCHANGED <<strategy, task, kind, duration, result, collected, reported, aborted>>

ReceiveAll(g) ==
  /\ strategy = "wait_all" /\ Receiving(g)
  /\ stream' = [stream EXCEPT ![g] = Tail(@)]
  /\ received' = [received EXCEPT ![g] = Append(@, Head(stream[g]))]
  /\ UNCHANGED <<strategy, task, kind, duration, winner, result, collected, reported, aborted>>

\* Mutant of AllIn: a race returns as soon as it has a winner.
AllInOrWon(g) ==
  /\ task[g] = "running" /\ ~Cancelled(g)
  /\ winner[g] = Unknown => \A n \in Members(g) : task[n] \in EndedTask
  /\ winner[g] # Unknown \/ stream[g] = <<>>

\* Mutant of AllIn: a cancelled member does not count as ended.
AllInDone(g) ==
  /\ task[g] = "running" /\ ~Cancelled(g)
  /\ \A n \in Members(g) : task[n] = "done"
  /\ winner[g] # Unknown \/ stream[g] = <<>>

\* The task group of g is left when every member's task has ended; without a
\* winner the stream has been read to its end.
AllIn(g) ==
  /\ task[g] = "running" /\ ~Cancelled(g)
  /\ \A n \in Members(g) : task[n] \in EndedTask
  /\ winner[g] # Unknown \/ stream[g] = <<>>

\* The first element of a sequence that satisfies the test.
FirstOf(s, Test(_)) ==
  LET i == SelectInSeq(s, Test) IN IF i = 0 THEN Unknown ELSE s[i]

\* Mutant of PickFailure: the first failure, whatever it is.
PickAnyFailure(s) ==
  LET IsFailure(u) == ~IsSuccess(u) IN FirstOf(s, IsFailure)

\* pick_failure_result: the first NXDOMAIN, else the first other error.
PickFailure(s) ==
  LET IsNx(u) == u \in Upstreams /\ kind[u] = "nxdomain"
      IsError(u) == u = Unknown \/ kind[u] = "error"
  IN  IF FirstOf(s, IsNx) # Unknown THEN FirstOf(s, IsNx) ELSE FirstOf(s, IsError)

\* min() over duration_ms keeps the first of equals.
Fastest(s) ==
  LET IsFastest(u) == IsSuccess(u) /\ \A i \in DOMAIN s :
                        IsSuccess(s[i]) => duration[u] <= duration[s[i]]
  IN  FirstOf(s, IsFastest)

\* What leaves a dispatch is sent to the group above it, if there is one.
Return(g, u) ==
  /\ task' = [task EXCEPT ![g] = "done"]
  /\ result' = [result EXCEPT ![g] = u]
  /\ stream' = IF g = Root THEN stream
               ELSE [stream EXCEPT ![Parent[g]] = Append(@, u)]

EndRace(g) ==
  /\ strategy = "race" /\ AllIn(g)
  /\ Return(g, IF winner[g] # Unknown THEN winner[g] ELSE PickFailure(received[g]))
  /\ UNCHANGED <<strategy, kind, duration, received, winner, collected, reported, aborted>>

\* collected_results of the returned object is assigned by every group it
\* passes through.
EndAll(g) ==
  /\ strategy = "wait_all" /\ AllIn(g)
  /\ LET fastest == Fastest(received[g])
         u == IF fastest # Unknown THEN fastest ELSE PickFailure(received[g])
     IN  /\ Return(g, u)
         /\ collected' = [collected EXCEPT ![u] = Range(received[g])]
  /\ UNCHANGED <<strategy, kind, duration, received, winner, reported, aborted>>

\* A dispatch in a cancelled scope ends without a result when the tasks below it
\* have ended.
AbandonGroup(g) ==
  /\ task[g] = "running" /\ Cancelled(g)
  /\ \A n \in Members(g) : task[n] \in EndedTask
  /\ task' = [task EXCEPT ![g] = "cancelled"]
  /\ UNCHANGED <<strategy, kind, duration, stream, received, winner, result,
                 collected, reported, aborted>>
-----------------------------------------------------------------------------
TaskStep(u) == Resume(u) \/ Abandon(u)
GroupStep(g) ==
  ReceiveRace(g) \/ ReceiveAll(g) \/ EndRace(g) \/ EndAll(g) \/ AbandonGroup(g)

Next ==
  \/ \E u \in Upstreams : Reply(u) \/ TaskStep(u)
  \/ \E g \in Groups : GroupStep(g)
  \/ Abort

\* The event loop runs the tasks that are ready and delivers cancellations.
\* Nothing is assumed of the upstreams.
Fairness ==
  /\ \A u \in Upstreams : WF_vars(TaskStep(u))
  /\ \A g \in Groups : WF_vars(GroupStep(g))

Spec == Init /\ [][Next]_vars /\ Fairness
-----------------------------------------------------------------------------
(***************************************************************************)
(* Properties                                                              *)
(***************************************************************************)
Returned == task[Root] = "done"

\* A dispatch reports failure only after every upstream below it, in groups
\* inside groups too, has failed, and then NXDOMAIN from any of them is
\* preferred to every other error.
FailureMeansAllFailed ==
  Returned /\ ~IsSuccess(result[Root]) =>
    /\ reported = Upstreams /\ \A u \in Upstreams : ~IsSuccess(u)
    /\ (\E u \in Upstreams : kind[u] = "nxdomain") => kind[result[Root]] = "nxdomain"

\* wait_all hears every upstream and returns the fastest success of all of
\* them, whatever the order in which inner groups end.
FastestOfAll ==
  Returned /\ strategy = "wait_all" =>
    /\ reported = Upstreams
    /\ \A u \in Upstreams : IsSuccess(u) =>
         IsSuccess(result[Root]) /\ duration[result[Root]] <= duration[u]

\* When a dispatch is over no task of it is left, so no on_result comes after
\* the pipeline has gone on, even if a reply arrived as the race was decided.
NoTaskOutlivesDispatch ==
  task[Root] \in EndedTask => \A n \in Nodes : task[n] \in EndedTask

\* The state is well formed and the task groups contain their tasks.
TaskInv == TypeOK /\ NoTaskOutlivesDispatch

\* A race is over once one upstream has succeeded, though no other upstream
\* ever replies.
RaceNeedsOneSuccess ==
  strategy = "race" /\ (\E u \in Upstreams : task[u] = "ready" /\ IsSuccess(u))
    ~> task[Root] \in EndedTask

\* A dispatch whose upstreams have all replied, or been given up, is over.
EndsWithItsUpstreams ==
  (\A u \in Upstreams : task[u] # "running") ~> task[Root] \in EndedTask

\* What a task of the dispatch sends to its group.
ResultOf(n) == IF n \in Upstreams THEN n ELSE result[n]

\* wait_all keeps every result, slow and failed ones too, where the speed test
\* looks for addresses: in collected_results of what the group returned.  The one
\* exception is a group whose own result is returned by the group above it, which
\* assigns collected_results of the same object again.
CollectedUnlessOverwritten ==
  Returned /\ strategy = "wait_all" =>
    \A n \in Nodes \ {Root} :
      LET g == Parent[n]
      IN  \/ ResultOf(n) \in collected[result[g]]
          \/ g # Root /\ result[Parent[g]] = result[g]

\* What a dispatch returns and leaves for the plugins is right for all upstreams
\* below it: failure only if all failed, the fastest under wait_all, and their
\* results collected but for the stated exception.
RightVerdict == FailureMeansAllFailed /\ FastestOfAll /\ CollectedUnlessOverwritten

\* A dispatch ends: a race by one success, any dispatch with its upstreams.
DispatchEnds == RaceNeedsOneSuccess /\ EndsWithItsUpstreams
=============================================================================
