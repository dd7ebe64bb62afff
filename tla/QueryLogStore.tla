---------------------------- MODULE QueryLogStore ----------------------------
(***************************************************************************)
(* The query log's bounded store and its subscribers (the WebUI streams).  *)
(* The class is written for callers on any thread: the entries, the id     *)
(* counter and the subscription list are guarded by a threading.Lock, and  *)
(* a subscriber is woken through the event its subscription holds, which   *)
(* the subscriber itself replaces.  A step is one critical section or one  *)
(* access to that event; everything interleaves.                           *)
(*                                                                         *)
(* An event object is either the one a subscription holds now or an old    *)
(* one nobody waits for any more, so only "aimed at the current event" and *)
(* "aimed at an old one" are told apart.  A set event wakes its waiter.    *)
(***************************************************************************)
EXTENDS Naturals, Sequences

CONSTANTS
  Appenders,    \* threads that call append
  Subscribers,  \* calls of subscribe
  Sizes,        \* the values max_entries may be given
  MaxId,        \* bound on the entries ever appended
  Nobody        \* an appender that aims at no current event

ASSUME QueryLogAssumption ==
  /\ Sizes \subseteq Nat \ {0} /\ Sizes # {}
  /\ MaxId \in Nat
  /\ Nobody \notin Subscribers

VARIABLES
  entries,     \* _entries: the ids it holds, oldest first
  maxEntries,  \* _max_entries
  nextId,      \* _next_id
  subscribed,  \* _subscriptions
  toWake,      \* the subscriptions an append has still to wake
  aim,         \* the subscription whose event it has just looked up
  isSet,       \* the subscriptions whose current event is set
  pc,          \* where a subscriber is
  from,        \* its after_id
  lastSeen,    \* last_seen_id
  items,       \* the ids it has fetched and not yet yielded (they are in order)
  got          \* ghost: the ids it has yielded

storeVars == <<entries, maxEntries, nextId>>
wakeVars == <<toWake, aim>>
subVars == <<pc, from, lastSeen, items, got>>
vars == <<storeVars, subscribed, wakeVars, isSet, subVars>>

Ids == 1 .. MaxId

TypeOK ==
  /\ entries \in Seq(Ids)
  /\ maxEntries \in Sizes
  /\ nextId \in 1 .. MaxId + 1
  /\ subscribed \subseteq Subscribers
  /\ toWake \in [Appenders -> SUBSET Subscribers]
  /\ aim \in [Appenders -> Subscribers \cup {Nobody}]
  /\ isSet \subseteq Subscribers
  /\ pc \in [Subscribers -> {"new", "check", "rebuild", "recheck", "wait", "yield", "closed"}]
  /\ from \in [Subscribers -> 0 .. MaxId]
  /\ lastSeen \in [Subscribers -> 0 .. MaxId]
  /\ items \in [Subscribers -> SUBSET Ids]
  /\ got \in [Subscribers -> SUBSET Ids]

Init ==
  /\ entries = <<>> /\ maxEntries \in Sizes /\ nextId = 1
  /\ subscribed = {}
  /\ toWake = [a \in Appenders |-> {}] /\ aim = [a \in Appenders |-> Nobody]
  /\ isSet = {}
  /\ pc = [s \in Subscribers |-> "new"]
  /\ from = [s \in Subscribers |-> 0] /\ lastSeen = [s \in Subscribers |-> 0]
  /\ items = [s \in Subscribers |-> {}] /\ got = [s \in Subscribers |-> {}]

\* deque(..., maxlen=n) keeps the n newest.
Newest(seq, n) == IF Len(seq) <= n THEN seq ELSE SubSeq(seq, Len(seq) - n + 1, Len(seq))

\* The plugin's setup gives the store another size on reload.
Resize(n) ==
  /\ n # maxEntries
  /\ maxEntries' = n
  /\ entries' = Newest(entries, n)
  /\ UNCHANGED <<nextId, subscribed, wakeVars, isSet, subVars>>

\* append under the lock: number and store the entry, copy the subscriptions.
AppendEntry(a) ==
  /\ toWake[a] = {} /\ aim[a] = Nobody /\ nextId <= MaxId
  /\ entries' = Newest(Append(entries, nextId), maxEntries)
  /\ nextId' = nextId + 1
  /\ toWake' = [toWake EXCEPT ![a] = subscribed]
  /\ UNCHANGED <<maxEntries, subscribed, aim, isSet, subVars>>

\* subscription.event.set(): the attribute is read, then the event is set.
LookUpEvent(a, s) ==
  /\ s \in toWake[a] /\ aim[a] = Nobody
  /\ toWake' = [toWake EXCEPT ![a] = @ \ {s}]
  /\ aim' = [aim EXCEPT ![a] = s]
  /\ UNCHANGED <<storeVars, subscribed, isSet, subVars>>

SetEvent(a) ==
  /\ aim[a] # Nobody
  /\ isSet' = isSet \cup {aim[a]}
  /\ aim' = [aim EXCEPT ![a] = Nobody]
  /\ UNCHANGED <<storeVars, subscribed, toWake, subVars>>
-----------------------------------------------------------------------------
(***************************************************************************)
(* subscribe(after_id)                                                     *)
(***************************************************************************)
Subscribe(s) ==
  /\ pc[s] = "new"
  /\ \E after \in 0 .. MaxId :
       /\ from' = [from EXCEPT ![s] = after]
       /\ lastSeen' = [lastSeen EXCEPT ![s] = after]
  /\ subscribed' = subscribed \cup {s}
  /\ pc' = [pc EXCEPT ![s] = "check"]
  /\ UNCHANGED <<storeVars, wakeVars, isSet, items, got>>

\* _entries_after(last_seen_id)
After(s) == {id \in {entries[i] : i \in 1 .. Len(entries)} : id > lastSeen[s]}

Fetch(s, here, ifEmpty) ==
  /\ pc[s] = here
  /\ items' = [items EXCEPT ![s] = After(s)]
  /\ pc' = [pc EXCEPT ![s] = IF After(s) = {} THEN ifEmpty ELSE "yield"]
  /\ UNCHANGED <<storeVars, subscribed, wakeVars, isSet, from, lastSeen, got>>

Check(s) == Fetch(s, "check", "rebuild")

\* Mutant: the event is replaced and waited for without looking again.
RecheckNothing(s) ==
  /\ pc[s] = "recheck"
  /\ pc' = [pc EXCEPT ![s] = "wait"]
  /\ UNCHANGED <<storeVars, subscribed, wakeVars, isSet, from, lastSeen, items, got>>

Recheck(s) == Fetch(s, "recheck", "wait")

\* A new event takes the old one's place; whoever looked up the old one sets
\* something nobody waits for.
Rebuild(s) ==
  /\ pc[s] = "rebuild"
  /\ isSet' = isSet \ {s}
  /\ aim' = [a \in Appenders |-> IF aim[a] = s THEN Nobody ELSE aim[a]]
  /\ pc' = [pc EXCEPT ![s] = "recheck"]
  /\ UNCHANGED <<storeVars, subscribed, toWake, from, lastSeen, items, got>>

\* The event is set, or the heartbeat interval has passed (and None is yielded).
Wake(s) ==
  /\ pc[s] = "wait" /\ s \in isSet
  /\ pc' = [pc EXCEPT ![s] = "check"]
  /\ UNCHANGED <<storeVars, subscribed, wakeVars, isSet, from, lastSeen, items, got>>

Heartbeat(s) ==
  /\ pc[s] = "wait"
  /\ pc' = [pc EXCEPT ![s] = "check"]
  /\ UNCHANGED <<storeVars, subscribed, wakeVars, isSet, from, lastSeen, items, got>>

\* Mutant: last_seen_id jumps to the newest entry of the store.
YieldAndJump(s) ==
  \E id \in items[s] :
    /\ pc[s] = "yield"
    /\ \A other \in items[s] : id <= other
    /\ got' = [got EXCEPT ![s] = @ \cup {id}]
    /\ lastSeen' = [lastSeen EXCEPT ![s] = nextId - 1]
    /\ items' = [items EXCEPT ![s] = {}]
    /\ pc' = [pc EXCEPT ![s] = "check"]
    /\ UNCHANGED <<storeVars, subscribed, wakeVars, isSet, from>>

\* The loop over items: last_seen_id moves on, then the item is yielded.
Yield(s) ==
  \E id \in items[s] :
    /\ pc[s] = "yield"
    /\ \A other \in items[s] : id <= other
    /\ got' = [got EXCEPT ![s] = @ \cup {id}]
    /\ lastSeen' = [lastSeen EXCEPT ![s] = id]
    /\ items' = [items EXCEPT ![s] = @ \ {id}]
    /\ pc' = [pc EXCEPT ![s] = IF items[s] = {id} THEN "check" ELSE "yield"]
    /\ UNCHANGED <<storeVars, subscribed, wakeVars, isSet, from>>

\* The stream is closed at a yield or cancelled in its wait: the finally clause
\* removes the subscription.
Close(s) ==
  /\ pc[s] \in {"yield", "check", "wait"}
  /\ pc' = [pc EXCEPT ![s] = "closed"]
  /\ subscribed' = subscribed \ {s}
  /\ UNCHANGED <<storeVars, wakeVars, isSet, from, lastSeen, items, got>>
-----------------------------------------------------------------------------
Appending(a) == AppendEntry(a) \/ SetEvent(a) \/ \E s \in Subscribers : LookUpEvent(a, s)
Subscription(s) ==
  \/ Subscribe(s) \/ Check(s) \/ Rebuild(s) \/ Recheck(s)
  \/ Wake(s) \/ Heartbeat(s) \/ Yield(s) \/ Close(s)

Next ==
  \/ \E a \in Appenders : Appending(a)
  \/ \E s \in Subscribers : Subscription(s)
  \/ \E n \in Sizes : Resize(n)

Spec == Init /\ [][Next]_vars

\* An append that has begun wakes everyone, and a subscriber's loop gets on.
\* The heartbeat is not relied on.
Fairness ==
  /\ \A a \in Appenders : WF_vars(SetEvent(a) \/ \E s \in Subscribers : LookUpEvent(a, s))
  /\ \A s \in Subscribers : WF_vars(Check(s) \/ Rebuild(s) \/ Recheck(s) \/ Wake(s) \/ Yield(s))

FairSpec == Spec /\ Fairness
-----------------------------------------------------------------------------
(***************************************************************************)
(* Properties                                                              *)
(***************************************************************************)
\* The store holds the newest entries under consecutive ids, whatever appends
\* and resizes come between: deque(maxlen) drops from the old end only.
StoreIsASuffix ==
  /\ Len(entries) <= maxEntries
  /\ \A i \in 1 .. Len(entries) : entries[i] = nextId - 1 - Len(entries) + i

\* A stream never passes over an entry that is still in the store: all of them
\* up to last_seen_id have been yielded, except those before its after_id.
NothingPassedOver ==
  \A s \in Subscribers, i \in 1 .. Len(entries) :
    entries[i] > from[s] /\ entries[i] <= lastSeen[s] => entries[i] \in got[s]

\* A stream yields ids in increasing order and none twice.
YieldsInOrder ==
  [][\A s \in Subscribers : got'[s] # got[s] =>
        /\ lastSeen'[s] > lastSeen[s]
        /\ got'[s] = got[s] \cup {lastSeen'[s]} /\ lastSeen'[s] \notin got[s]]_vars

\* The wake-up that subscribe() must not miss: a subscriber that sleeps although
\* the store has something for it will be woken, because its event is set or
\* some append is still going to set the very event it waits for.
SleeperWillBeWoken ==
  \A s \in Subscribers :
    pc[s] = "wait" /\ After(s) # {} =>
      s \in isSet \/ \E a \in Appenders : s \in toWake[a] \/ aim[a] = s

\* What a log page sees is faithful to the log: the store keeps the newest
\* entries, and a stream yields in order, once each, whatever is still in the
\* store, through resizes and lines that arrive while it is reading.
StreamIsFaithful == [](TypeOK /\ StoreIsASuffix /\ NothingPassedOver) /\ YieldsInOrder
=============================================================================
