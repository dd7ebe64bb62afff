------------------------- MODULE QueryLogStoreProofs -------------------------
(***************************************************************************)
(* Type correctness of the query log store, that no stream sleeps through  *)
(* an entry (SleeperWillBeWoken), and that a stream yields all that is     *)
(* still stored, in order and once (StreamIsFaithful), for any number of   *)
(* appending threads, streams and entries.                                 *)
(***************************************************************************)
EXTENDS QueryLogStore, SequenceTheorems, TLAPS

\* A stream is on the subscription list from its registration to its end, so
\* that an append between two of its steps has it on its list of calls to make.
ActiveIsSubscribed ==
  \A s \in Subscribers : pc[s] \notin {"new", "closed"} => s \in subscribed

\* Dropping entries at the old end keeps a sequence of ids and adds nothing.
LEMMA NewestShrinks ==
  ASSUME NEW S, NEW seq \in Seq(S), NEW n \in Nat
  PROVE  /\ Newest(seq, n) \in Seq(S)
         /\ \A i \in 1 .. Len(Newest(seq, n)) :
              \E j \in 1 .. Len(seq) : Newest(seq, n)[i] = seq[j]
<1>1. CASE Len(seq) <= n
  BY <1>1 DEF Newest
<1>2. CASE ~(Len(seq) <= n)
  <2> DEFINE lo == Len(seq) - n + 1
  <2>1. Len(seq) \in Nat /\ lo \in 1 .. Len(seq) + 1
    BY <1>2
  <2>2. Newest(seq, n) = SubSeq(seq, lo, Len(seq))
    BY <1>2 DEF Newest
  <2>3. /\ SubSeq(seq, lo, Len(seq)) \in Seq(S)
        /\ Len(SubSeq(seq, lo, Len(seq))) = Len(seq) - lo + 1
        /\ \A i \in 1 .. Len(seq) - lo + 1 :
             SubSeq(seq, lo, Len(seq))[i] = seq[lo + i - 1]
    BY <2>1
  <2>4. \A i \in 1 .. Len(seq) - lo + 1 : lo + i - 1 \in 1 .. Len(seq)
    BY <2>1
  <2>5. QED
    BY <2>2, <2>3, <2>4
<1>3. QED
  BY <1>1, <1>2

LEMMA SizesAreNat == Sizes \subseteq Nat
BY QueryLogAssumption

\* What a stream fetches are ids.
LEMMA AfterType ==
  ASSUME TypeOK, NEW s \in Subscribers
  PROVE  After(s) \subseteq Ids
BY DEF After, TypeOK

\* Every step keeps the types: in particular an id is never appended past the
\* bound and a stream only ever yields ids of the store.
LEMMA TypeStep == TypeOK /\ [Next]_vars => TypeOK'
<1> SUFFICES ASSUME TypeOK, [Next]_vars PROVE TypeOK'
  OBVIOUS
<1> USE QueryLogAssumption
<1>1. ASSUME NEW a \in Appenders, AppendEntry(a) PROVE TypeOK'
  <2>1. Append(entries, nextId) \in Seq(Ids)
    BY <1>1 DEF TypeOK, AppendEntry, Ids
  <2>2. Newest(Append(entries, nextId), maxEntries) \in Seq(Ids)
    BY <2>1, NewestShrinks, SizesAreNat DEF TypeOK
  <2>3. QED
    BY <1>1, <2>2 DEF TypeOK, AppendEntry, subVars
<1>2. ASSUME NEW a \in Appenders, SetEvent(a) PROVE TypeOK'
  BY <1>2 DEF TypeOK, SetEvent, subVars, storeVars
<1>3. ASSUME NEW a \in Appenders, NEW s \in Subscribers, LookUpEvent(a, s) PROVE TypeOK'
  BY <1>3 DEF TypeOK, LookUpEvent, subVars, storeVars
<1>4. ASSUME NEW s \in Subscribers, Subscribe(s) PROVE TypeOK'
  BY <1>4 DEF TypeOK, Subscribe, storeVars, wakeVars
<1>5. ASSUME NEW s \in Subscribers, Check(s) PROVE TypeOK'
  BY <1>5, AfterType DEF TypeOK, Check, Fetch, storeVars, wakeVars
<1>6. ASSUME NEW s \in Subscribers, Recheck(s) PROVE TypeOK'
  BY <1>6, AfterType DEF TypeOK, Recheck, Fetch, storeVars, wakeVars
<1>7. ASSUME NEW s \in Subscribers, Rebuild(s) PROVE TypeOK'
  BY <1>7 DEF TypeOK, Rebuild, storeVars
<1>8. ASSUME NEW s \in Subscribers, Wake(s) \/ Heartbeat(s) PROVE TypeOK'
  BY <1>8 DEF TypeOK, Wake, Heartbeat, storeVars, wakeVars
<1>9. ASSUME NEW s \in Subscribers, Yield(s) PROVE TypeOK'
  <2>1. PICK id \in items[s] :
          /\ got' = [got EXCEPT ![s] = @ \cup {id}]
          /\ lastSeen' = [lastSeen EXCEPT ![s] = id]
          /\ items' = [items EXCEPT ![s] = @ \ {id}]
          /\ pc' = [pc EXCEPT ![s] = IF items[s] = {id} THEN "check" ELSE "yield"]
          /\ UNCHANGED <<storeVars, subscribed, wakeVars, isSet, from>>
    BY <1>9 DEF Yield
  <2>2. id \in Ids
    BY DEF TypeOK
  <2>3. id \in 0 .. MaxId
    BY <2>2 DEF Ids
  <2>4. QED
    BY <2>1, <2>2, <2>3 DEF TypeOK, storeVars, wakeVars
<1>10. ASSUME NEW s \in Subscribers, Close(s) PROVE TypeOK'
  BY <1>10 DEF TypeOK, Close, storeVars, wakeVars
<1>11. ASSUME NEW n \in Sizes, Resize(n) PROVE TypeOK'
  <2>1. Newest(entries, n) \in Seq(Ids)
    BY NewestShrinks, SizesAreNat DEF TypeOK
  <2>2. QED
    BY <1>11, <2>1 DEF TypeOK, Resize, wakeVars, subVars
<1>12. CASE UNCHANGED vars
  BY <1>12 DEF TypeOK, vars, storeVars, wakeVars, subVars
<1>13. QED
  BY <1>1, <1>2, <1>3, <1>4, <1>5, <1>6, <1>7, <1>8, <1>9, <1>10, <1>11, <1>12
     DEF Next, Appending, Subscription

\* The store's state and the state of its streams stay well typed, through any
\* interleaving of append, resize and subscribe.
THEOREM TypeCorrect == Spec => []TypeOK
<1>1. Init => TypeOK
  BY QueryLogAssumption DEF Init, TypeOK, Ids
<1>2. QED
  BY <1>1, TypeStep, PTL DEF Spec
-----------------------------------------------------------------------------
LEMMA ActiveStep == TypeOK /\ ActiveIsSubscribed /\ [Next]_vars => ActiveIsSubscribed'
<1> SUFFICES ASSUME TypeOK, ActiveIsSubscribed, [Next]_vars PROVE ActiveIsSubscribed'
  OBVIOUS
<1>0. pc \in [Subscribers -> {"new", "check", "rebuild", "recheck", "wait", "yield", "closed"}]
  BY DEF TypeOK
<1>1. ASSUME UNCHANGED <<pc, subscribed>> PROVE ActiveIsSubscribed'
  BY <1>1 DEF ActiveIsSubscribed
<1>2. ASSUME NEW s \in Subscribers, NEW p, pc[s] \notin {"new", "closed"},
             pc' = [pc EXCEPT ![s] = p], subscribed' = subscribed
      PROVE  ActiveIsSubscribed'
  BY <1>0, <1>2 DEF ActiveIsSubscribed
<1>3. ASSUME NEW s \in Subscribers, Subscribe(s) PROVE ActiveIsSubscribed'
  BY <1>0, <1>3 DEF Subscribe, ActiveIsSubscribed
<1>4. ASSUME NEW s \in Subscribers, Close(s) PROVE ActiveIsSubscribed'
  BY <1>0, <1>4 DEF Close, ActiveIsSubscribed
<1>5. ASSUME NEW s \in Subscribers,
             Check(s) \/ Rebuild(s) \/ Recheck(s) \/ Wake(s) \/ Heartbeat(s) \/ Yield(s)
      PROVE  ActiveIsSubscribed'
  <2>1. /\ pc[s] \notin {"new", "closed"} /\ subscribed' = subscribed
        /\ \E p : pc' = [pc EXCEPT ![s] = p]
    BY <1>5 DEF Check, Rebuild, Recheck, Wake, Heartbeat, Yield, Fetch
  <2>2. QED
    BY <1>2, <2>1
<1>6. ASSUME NEW a \in Appenders, Appending(a) PROVE ActiveIsSubscribed'
  BY <1>1, <1>6 DEF Appending, AppendEntry, SetEvent, LookUpEvent, subVars
<1>7. ASSUME NEW n \in Sizes, Resize(n) PROVE ActiveIsSubscribed'
  BY <1>1, <1>7 DEF Resize, subVars
<1>8. CASE UNCHANGED vars
  BY <1>1, <1>8 DEF vars, subVars
<1>9. QED
  BY <1>3, <1>4, <1>5, <1>6, <1>7, <1>8 DEF Next, Subscription

\* A step that leaves the sleepers, what they have to see and the wake-ups
\* under way to s alone keeps s safe.
LEMMA SleeperStep ==
  TypeOK /\ ActiveIsSubscribed /\ SleeperWillBeWoken /\ [Next]_vars => SleeperWillBeWoken'
<1> SUFFICES ASSUME TypeOK, ActiveIsSubscribed, SleeperWillBeWoken, [Next]_vars,
                    NEW s \in Subscribers, pc'[s] = "wait", After(s)' # {}
             PROVE  (s \in isSet \/ \E a \in Appenders : s \in toWake[a] \/ aim[a] = s)'
  BY DEF SleeperWillBeWoken
<1> DEFINE Coming == s \in isSet \/ \E a \in Appenders : s \in toWake[a] \/ aim[a] = s
<1>0. /\ pc \in [Subscribers -> {"new", "check", "rebuild", "recheck", "wait", "yield", "closed"}]
      /\ toWake \in [Appenders -> SUBSET Subscribers]
      /\ aim \in [Appenders -> Subscribers \cup {Nobody}]
      /\ entries \in Seq(Ids)
      /\ Nobody \notin Subscribers
  BY QueryLogAssumption DEF TypeOK
<1>1. pc[s] = "wait" /\ After(s) # {} => Coming
  BY DEF SleeperWillBeWoken
<1>2. ASSUME pc'[s] = pc[s], UNCHANGED <<entries, lastSeen>>, Coming => Coming'
      PROVE  Coming'
  BY <1>1, <1>2 DEF After
<1>3. ASSUME NEW a \in Appenders, AppendEntry(a) PROVE Coming'
  <2>1. s \in subscribed
    BY <1>3 DEF AppendEntry, subVars, ActiveIsSubscribed
  <2>2. s \in toWake'[a]
    BY <1>0, <1>3, <2>1 DEF AppendEntry
  <2>3. QED
    BY <2>2
<1>4. ASSUME NEW a \in Appenders, SetEvent(a) PROVE Coming'
  <2>1. Coming => Coming'
    BY <1>0, <1>4 DEF SetEvent
  <2>2. QED
    BY <1>2, <1>4, <2>1 DEF SetEvent, storeVars, subVars
<1>5. ASSUME NEW a \in Appenders, NEW t \in Subscribers, LookUpEvent(a, t) PROVE Coming'
  <2>1. Coming => Coming'
    BY <1>0, <1>5 DEF LookUpEvent
  <2>2. QED
    BY <1>2, <1>5, <2>1 DEF LookUpEvent, storeVars, subVars
<1>6. ASSUME NEW n \in Sizes, Resize(n) PROVE Coming'
  <2>1. /\ entries' = Newest(entries, n)
        /\ UNCHANGED <<toWake, aim, isSet, pc, lastSeen>>
    BY <1>6 DEF Resize, wakeVars, subVars
  <2>2. After(s)' \subseteq After(s)
    BY <1>0, <2>1, NewestShrinks, SizesAreNat DEF After
  <2>3. QED
    BY <1>1, <2>1, <2>2
<1>7. ASSUME NEW t \in Subscribers, Recheck(t) PROVE Coming'
  <2>1. /\ UNCHANGED <<toWake, aim, isSet, entries, lastSeen>>
        /\ pc' = [pc EXCEPT ![t] = IF After(t) = {} THEN "wait" ELSE "yield"]
    BY <1>7 DEF Recheck, Fetch, storeVars, wakeVars
  <2>2. After(s)' = After(s)
    BY <2>1 DEF After
  <2>3. s # t
    BY <1>0, <2>1, <2>2
  <2>4. pc'[s] = pc[s]
    BY <1>0, <2>1, <2>3
  <2>5. QED
    BY <1>2, <2>1, <2>4
<1>8. ASSUME NEW t \in Subscribers, Rebuild(t) PROVE Coming'
  <2>1. s # t /\ pc'[s] = pc[s]
    BY <1>0, <1>8 DEF Rebuild
  <2>2. Coming => Coming'
    BY <1>0, <1>8, <2>1 DEF Rebuild
  <2>3. QED
    BY <1>2, <1>8, <2>1, <2>2 DEF Rebuild, storeVars
<1>9. ASSUME NEW t \in Subscribers,
             Subscribe(t) \/ Check(t) \/ Wake(t) \/ Heartbeat(t) \/ Yield(t) \/ Close(t)
      PROVE  Coming'
  <2>1. /\ UNCHANGED <<toWake, aim, isSet, entries>>
        /\ \E p \in {"check", "rebuild", "yield", "closed"} : pc' = [pc EXCEPT ![t] = p]
        /\ \E id : lastSeen' = [lastSeen EXCEPT ![t] = id]
    BY <1>9 DEF TypeOK, Subscribe, Check, Fetch, Wake, Heartbeat, Yield, Close, storeVars, wakeVars
  <2>2. s # t /\ pc'[s] = pc[s] /\ lastSeen'[s] = lastSeen[s]
    BY <1>0, <2>1 DEF TypeOK
  <2>3. After(s)' = After(s)
    BY <2>1, <2>2 DEF After
  <2>4. QED
    BY <1>1, <2>1, <2>2, <2>3
<1>10. CASE UNCHANGED vars
  BY <1>2, <1>10 DEF vars, storeVars, wakeVars, subVars
<1>11. QED
  BY <1>3, <1>4, <1>5, <1>6, <1>7, <1>8, <1>9, <1>10 DEF Next, Appending, Subscription

\* subscribe() misses no wake-up: with the event replaced before the second
\* look at the store, a stream that sleeps while the store has an entry for it
\* has its event set or is on the list of an append that is still to set it.
THEOREM NoLostWakeUp == Spec => []SleeperWillBeWoken
<1>1. Init => TypeOK /\ ActiveIsSubscribed /\ SleeperWillBeWoken
  <2>1. Init => TypeOK
    BY QueryLogAssumption DEF Init, TypeOK, Ids
  <2>2. Init => ActiveIsSubscribed /\ SleeperWillBeWoken
    BY DEF Init, ActiveIsSubscribed, SleeperWillBeWoken
  <2>3. QED
    BY <2>1, <2>2
<1>2. QED
  BY <1>1, TypeStep, ActiveStep, SleeperStep, PTL DEF Spec
-----------------------------------------------------------------------------
(***************************************************************************)
(* What a stream yields                                                    *)
(***************************************************************************)
Stored == {entries[i] : i \in 1 .. Len(entries)}

\* A fetched batch lies ahead of what was yielded, has an id already given out
\* and no gap where the store has an entry; a stream is ahead of the log only
\* while it has yielded nothing.
StreamInv ==
  \A s \in Subscribers :
    /\ pc[s] = "new" => items[s] = {} /\ got[s] = {}
    /\ \A id \in got[s] : id <= lastSeen[s]
    /\ \A id \in items[s] : lastSeen[s] < id /\ id < nextId
    /\ lastSeen[s] = from[s] \/ lastSeen[s] < nextId
    /\ \A id \in items[s], e \in Stored : lastSeen[s] < e /\ e <= id => e \in items[s]
    /\ \A e \in Stored : from[s] < e /\ e <= lastSeen[s] => e \in got[s]

\* deque(maxlen) drops from the old end: what it keeps keeps its place from the
\* new end.
LEMMA NewestKeepsTheEnd ==
  ASSUME NEW S, NEW seq \in Seq(S), NEW n \in Nat
  PROVE  LET kept == Newest(seq, n) IN
         /\ Len(kept) \in Nat /\ Len(kept) <= n /\ Len(kept) <= Len(seq)
         /\ \A i \in 1 .. Len(kept) :
              Len(seq) - Len(kept) + i \in 1 .. Len(seq) /\ kept[i] = seq[Len(seq) - Len(kept) + i]
<1>0. Len(seq) \in Nat OBVIOUS
<1>1. CASE Len(seq) <= n
  <2>1. Newest(seq, n) = seq BY <1>1 DEF Newest
  <2>2. \A i \in 1 .. Len(seq) : Len(seq) - Len(seq) + i = i BY <1>0
  <2> QED BY <1>0, <1>1, <2>1, <2>2
<1>2. CASE ~(Len(seq) <= n)
  <2> DEFINE lo == Len(seq) - n + 1
  <2>1. lo \in 1 .. Len(seq) + 1 BY <1>0, <1>2
  <2>2. Newest(seq, n) = SubSeq(seq, lo, Len(seq)) BY <1>2 DEF Newest
  <2>3. /\ SubSeq(seq, lo, Len(seq)) \in Seq(S)
        /\ Len(SubSeq(seq, lo, Len(seq))) = Len(seq) - lo + 1
        /\ \A i \in 1 .. Len(seq) - lo + 1 :
             SubSeq(seq, lo, Len(seq))[i] = seq[lo + i - 1]
    BY <1>0, <2>1
  <2>4. Len(seq) - lo + 1 = n BY <1>0
  <2>5. \A i \in 1 .. n : lo + i - 1 = Len(seq) - n + i /\ Len(seq) - n + i \in 1 .. Len(seq)
    BY <1>0, <1>2
  <2> HIDE DEF lo
  <2>6. Len(Newest(seq, n)) = n BY <2>2, <2>3, <2>4
  <2>7. \A i \in 1 .. n : Newest(seq, n)[i] = seq[Len(seq) - n + i]
    BY <2>2, <2>3, <2>4, <2>5
  <2> QED BY <1>0, <1>2, <2>5, <2>6, <2>7
<1> QED BY <1>0, <1>1, <1>2

\* Dropping from a store of consecutive ids leaves the newest of them.
LEMMA NewestIsASuffix ==
  ASSUME NEW seq \in Seq(Ids), NEW n \in Nat, NEW top \in Nat,
         \A i \in 1 .. Len(seq) : seq[i] = top - 1 - Len(seq) + i
  PROVE  LET kept == Newest(seq, n) IN
         /\ Len(kept) <= n
         /\ \A i \in 1 .. Len(kept) : kept[i] = top - 1 - Len(kept) + i
<1> DEFINE kept == Newest(seq, n)
<1>1. /\ Len(kept) \in Nat /\ Len(kept) <= n /\ Len(seq) \in Nat
      /\ \A i \in 1 .. Len(kept) :
           Len(seq) - Len(kept) + i \in 1 .. Len(seq) /\ kept[i] = seq[Len(seq) - Len(kept) + i]
  BY NewestKeepsTheEnd
<1> HIDE DEF kept
<1>2. ASSUME NEW i \in 1 .. Len(kept) PROVE kept[i] = top - 1 - Len(kept) + i
  <2>1. PICK j : j = Len(seq) - Len(kept) + i OBVIOUS
  <2>2. j \in 1 .. Len(seq) /\ kept[i] = seq[j] BY <1>1, <2>1
  <2>3. kept[i] = top - 1 - Len(seq) + j BY <2>2
  <2> QED BY <1>1, <2>1, <2>3
<1>3. QED BY <1>1, <1>2 DEF kept

LEMMA SuffixStep == TypeOK /\ StoreIsASuffix /\ [Next]_vars => StoreIsASuffix'
<1> SUFFICES ASSUME TypeOK, StoreIsASuffix, [Next]_vars PROVE StoreIsASuffix'
  OBVIOUS
<1>0. /\ entries \in Seq(Ids) /\ nextId \in Nat /\ Len(entries) \in Nat /\ maxEntries \in Nat
      /\ \A i \in 1 .. Len(entries) : entries[i] = nextId - 1 - Len(entries) + i
  BY SizesAreNat, QueryLogAssumption DEF TypeOK, StoreIsASuffix
<1>1. ASSUME NEW a \in Appenders, AppendEntry(a) PROVE StoreIsASuffix'
  <2> DEFINE longer == Append(entries, nextId)
  <2>1. /\ nextId' = nextId + 1 /\ maxEntries' = maxEntries
        /\ entries' = Newest(longer, maxEntries) /\ nextId \in Ids
    BY <1>1 DEF AppendEntry, TypeOK, Ids
  <2>2. /\ longer \in Seq(Ids) /\ Len(longer) = Len(entries) + 1
        /\ \A i \in 1 .. Len(entries) : longer[i] = entries[i]
        /\ longer[Len(entries) + 1] = nextId
    BY <1>0, <2>1
  <2> HIDE DEF longer
  <2>0. PICK top \in Nat : top = nextId + 1 BY <1>0
  <2>3. ASSUME NEW i \in 1 .. Len(longer) PROVE longer[i] = top - 1 - Len(longer) + i
    <3>1. CASE i = Len(entries) + 1 BY <1>0, <2>0, <2>2, <3>1
    <3>2. CASE i \in 1 .. Len(entries)
      <4>1. longer[i] = nextId - 1 - Len(entries) + i BY <1>0, <2>2, <3>2
      <4> QED BY <1>0, <2>0, <2>2, <4>1
    <3> QED BY <1>0, <2>2, <3>1, <3>2
  <2>5. LET kept == Newest(longer, maxEntries) IN
        /\ Len(kept) <= maxEntries
        /\ \A i \in 1 .. Len(kept) : kept[i] = top - 1 - Len(kept) + i
    BY <1>0, <2>2, <2>3, NewestIsASuffix
  <2> QED BY <2>0, <2>1, <2>5 DEF StoreIsASuffix
<1>2. ASSUME NEW n \in Sizes, Resize(n) PROVE StoreIsASuffix'
  <2>1. nextId' = nextId /\ maxEntries' = n /\ entries' = Newest(entries, n) /\ n \in Nat
    BY <1>2, SizesAreNat DEF Resize
  <2>2. LET kept == Newest(entries, n) IN
        /\ Len(kept) <= n
        /\ \A i \in 1 .. Len(kept) : kept[i] = nextId - 1 - Len(kept) + i
    BY <1>0, <2>1, NewestIsASuffix
  <2> QED BY <2>1, <2>2 DEF StoreIsASuffix
<1>3. ASSUME UNCHANGED storeVars PROVE StoreIsASuffix'
  BY <1>3 DEF storeVars, StoreIsASuffix
<1>4. ASSUME NEW a \in Appenders, SetEvent(a) \/ \E s \in Subscribers : LookUpEvent(a, s)
      PROVE  StoreIsASuffix'
  BY <1>3, <1>4 DEF SetEvent, LookUpEvent
<1>5. ASSUME NEW s \in Subscribers, Subscription(s) PROVE StoreIsASuffix'
  BY <1>3, <1>5 DEF Subscription, Subscribe, Check, Recheck, Fetch, Rebuild, Wake, Heartbeat,
                    Yield, Close
<1>6. CASE UNCHANGED vars BY <1>3, <1>6 DEF vars
<1> QED BY <1>1, <1>2, <1>4, <1>5, <1>6 DEF Next, Appending

\* Every stored id has been given out; a step adds at most the next one.
LEMMA StoredGrows ==
  ASSUME TypeOK, StoreIsASuffix, [Next]_vars
  PROVE  /\ Stored \subseteq Ids /\ \A e \in Stored : e < nextId
         /\ nextId <= nextId' /\ nextId \in Nat /\ nextId' \in Nat
         /\ \A e \in Stored' : e \in Stored \/ (e = nextId /\ nextId < nextId')
<1>0. /\ entries \in Seq(Ids) /\ nextId \in Nat /\ Len(entries) \in Nat /\ maxEntries \in Nat
      /\ \A i \in 1 .. Len(entries) : entries[i] = nextId - 1 - Len(entries) + i
  BY SizesAreNat, QueryLogAssumption DEF TypeOK, StoreIsASuffix
<1>1. \A i \in 1 .. Len(entries) : entries[i] \in Ids /\ entries[i] < nextId BY <1>0
<1>2. Stored \subseteq Ids /\ \A e \in Stored : e < nextId BY <1>1 DEF Stored
<1>3. ASSUME UNCHANGED storeVars PROVE Stored' = Stored /\ nextId' = nextId
  BY <1>3 DEF storeVars, Stored
<1>4. ASSUME NEW a \in Appenders, AppendEntry(a)
      PROVE  nextId' = nextId + 1 /\ \A e \in Stored' : e \in Stored \/ e = nextId
  <2> DEFINE longer == Append(entries, nextId)
  <2>1. nextId' = nextId + 1 /\ entries' = Newest(longer, maxEntries) /\ nextId \in Ids
    BY <1>4 DEF AppendEntry, TypeOK, Ids
  <2>2. /\ longer \in Seq(Ids) /\ Len(longer) = Len(entries) + 1
        /\ \A i \in 1 .. Len(entries) : longer[i] = entries[i]
        /\ longer[Len(entries) + 1] = nextId
    BY <1>0, <2>1
  <2> HIDE DEF longer
  <2>3. \A i \in 1 .. Len(entries') : \E j \in 1 .. Len(longer) : entries'[i] = longer[j]
    BY <1>0, <2>1, <2>2, NewestShrinks
  <2>4. ASSUME NEW j \in 1 .. Len(longer) PROVE longer[j] \in Stored \/ longer[j] = nextId
    <3>1. j = Len(entries) + 1 \/ j \in 1 .. Len(entries) BY <1>0, <2>2
    <3> QED BY <2>2, <3>1 DEF Stored
  <2>5. ASSUME NEW e \in Stored' PROVE e \in Stored \/ e = nextId
    <3>1. PICK i \in 1 .. Len(entries') : e = entries'[i] BY <2>5 DEF Stored
    <3>2. PICK j \in 1 .. Len(longer) : e = longer[j] BY <2>3, <3>1
    <3> QED BY <2>4, <3>2
  <2> QED BY <2>1, <2>5
<1>5. ASSUME NEW n \in Sizes, Resize(n)
      PROVE  nextId' = nextId /\ Stored' \subseteq Stored
  <2>1. nextId' = nextId /\ entries' = Newest(entries, n) /\ n \in Nat
    BY <1>5, SizesAreNat DEF Resize
  <2>2. \A i \in 1 .. Len(Newest(entries, n)) :
          \E j \in 1 .. Len(entries) : Newest(entries, n)[i] = entries[j]
    BY <1>0, <2>1, NewestShrinks
  <2>3. \A i \in 1 .. Len(entries') : \E j \in 1 .. Len(entries) : entries'[i] = entries[j]
    BY <2>1, <2>2
  <2> QED BY <2>1, <2>3 DEF Stored
<1>6. ASSUME NEW a \in Appenders, SetEvent(a) \/ \E s \in Subscribers : LookUpEvent(a, s)
      PROVE  UNCHANGED storeVars
  BY <1>6 DEF SetEvent, LookUpEvent
<1>7. ASSUME NEW s \in Subscribers, Subscription(s) PROVE UNCHANGED storeVars
  BY <1>7 DEF Subscription, Subscribe, Check, Recheck, Fetch, Rebuild, Wake, Heartbeat,
              Yield, Close
<1>8. CASE UNCHANGED vars BY <1>0, <1>2, <1>3, <1>8 DEF vars
<1>9. CASE \E a \in Appenders : AppendEntry(a) BY <1>0, <1>2, <1>4, <1>9
<1>10. CASE \E n \in Sizes : Resize(n) BY <1>0, <1>2, <1>5, <1>10
<1>11. CASE UNCHANGED storeVars BY <1>0, <1>2, <1>3, <1>11
<1> QED BY <1>6, <1>7, <1>8, <1>9, <1>10, <1>11 DEF Next, Appending

\* What a step may do to one stream, the others and the store apart.
Batch(s) == items'[s] = {e \in Stored : e > lastSeen[s]} /\ UNCHANGED <<lastSeen, got, from>>
Takes(s, id) ==
  /\ id \in items[s] /\ \A other \in items[s] : id <= other
  /\ got'[s] = got[s] \cup {id} /\ lastSeen'[s] = id /\ items'[s] = items[s] \ {id}
  /\ from' = from
Begins(s) ==
  /\ pc[s] = "new" /\ from'[s] = lastSeen'[s] /\ lastSeen'[s] \in Nat
  /\ UNCHANGED <<items, got>>
Rests(s) == /\ items'[s] = items[s] /\ got'[s] = got[s]
            /\ lastSeen'[s] = lastSeen[s] /\ from'[s] = from[s]

LEMMA StreamShape ==
  ASSUME TypeOK, [Next]_vars, NEW t \in Subscribers
  PROVE  /\ pc'[t] = "new" => pc[t] = "new" /\ Rests(t)
         /\ \/ Rests(t)
            \/ Begins(t)
            \/ Batch(t) /\ UNCHANGED storeVars
            \/ (\E id \in items[t] : Takes(t, id)) /\ UNCHANGED storeVars
<1>0. /\ pc \in [Subscribers -> {"new", "check", "rebuild", "recheck", "wait", "yield", "closed"}]
      /\ items \in [Subscribers -> SUBSET Ids] /\ got \in [Subscribers -> SUBSET Ids]
      /\ lastSeen \in [Subscribers -> 0 .. MaxId] /\ from \in [Subscribers -> 0 .. MaxId]
  BY DEF TypeOK
<1>1. CASE UNCHANGED subVars BY <1>1 DEF subVars, Rests
<1>2. ASSUME NEW s \in Subscribers, Subscription(s), s # t PROVE Rests(t) /\ pc'[t] = pc[t]
  <2>1. CASE Subscribe(s) BY <1>0, <1>2, <2>1 DEF Subscribe, Rests
  <2>2. CASE Yield(s) BY <1>0, <1>2, <2>2 DEF Yield, Rests
  <2>3. CASE Check(s) \/ Recheck(s) BY <1>0, <1>2, <2>3 DEF Check, Recheck, Fetch, Rests
  <2>4. CASE Rebuild(s) \/ Wake(s) \/ Heartbeat(s) \/ Close(s)
    BY <1>0, <1>2, <2>4 DEF Rebuild, Wake, Heartbeat, Close, Rests
  <2> QED BY <1>2, <2>1, <2>2, <2>3, <2>4 DEF Subscription
<1>3. CASE Subscribe(t)
  <2>1. PICK after \in 0 .. MaxId : /\ from' = [from EXCEPT ![t] = after]
                                    /\ lastSeen' = [lastSeen EXCEPT ![t] = after]
    BY <1>3 DEF Subscribe
  <2>2. pc'[t] = "check" /\ pc[t] = "new" /\ UNCHANGED <<items, got>> BY <1>0, <1>3 DEF Subscribe
  <2> QED BY <1>0, <2>1, <2>2 DEF Begins
<1>4. CASE Yield(t)
  <2>1. PICK id \in items[t] :
          /\ pc[t] = "yield" /\ \A other \in items[t] : id <= other
          /\ got' = [got EXCEPT ![t] = @ \cup {id}]
          /\ lastSeen' = [lastSeen EXCEPT ![t] = id]
          /\ items' = [items EXCEPT ![t] = @ \ {id}]
          /\ pc' = [pc EXCEPT ![t] = IF items[t] = {id} THEN "check" ELSE "yield"]
          /\ UNCHANGED <<storeVars, subscribed, wakeVars, isSet, from>>
    BY <1>4 DEF Yield
  <2>2. Takes(t, id) BY <1>0, <2>1 DEF Takes
  <2>3. pc'[t] # "new" BY <1>0, <2>1
  <2> QED BY <2>1, <2>2, <2>3
<1>5. CASE Check(t) \/ Recheck(t)
  <2>1. /\ items'[t] = After(t) /\ pc'[t] # "new" /\ UNCHANGED <<storeVars, lastSeen, got, from>>
    BY <1>0, <1>5 DEF Check, Recheck, Fetch
  <2>2. Batch(t) BY <2>1 DEF Batch, After, Stored
  <2> QED BY <2>1, <2>2
<1>6. CASE Rebuild(t) \/ Wake(t) \/ Heartbeat(t) \/ Close(t)
  BY <1>0, <1>6 DEF Rebuild, Wake, Heartbeat, Close, Rests
<1>7. CASE \E a \in Appenders : Appending(a)
  BY <1>1, <1>7 DEF Appending, AppendEntry, SetEvent, LookUpEvent
<1>8. CASE \E n \in Sizes : Resize(n) BY <1>1, <1>8 DEF Resize
<1>9. CASE UNCHANGED vars BY <1>1, <1>9 DEF vars
<1>10. CASE \E s \in Subscribers : Subscription(s)
  <2>1. PICK s \in Subscribers : Subscription(s) BY <1>10
  <2>2. CASE s # t BY <1>2, <2>1, <2>2
  <2>3. CASE s = t BY <1>3, <1>4, <1>5, <1>6, <2>1, <2>3 DEF Subscription
  <2> QED BY <2>2, <2>3
<1> QED BY <1>7, <1>8, <1>9, <1>10 DEF Next

LEMMA StreamStep == TypeOK /\ StoreIsASuffix /\ StreamInv /\ [Next]_vars => StreamInv'
<1> SUFFICES ASSUME TypeOK, StoreIsASuffix, StreamInv, [Next]_vars, NEW t \in Subscribers
             PROVE  /\ pc'[t] = "new" => items'[t] = {} /\ got'[t] = {}
                    /\ \A id \in got'[t] : id <= lastSeen'[t]
                    /\ \A id \in items'[t] : lastSeen'[t] < id /\ id < nextId'
                    /\ lastSeen'[t] = from'[t] \/ lastSeen'[t] < nextId'
                    /\ \A id \in items'[t], e \in Stored' :
                         lastSeen'[t] < e /\ e <= id => e \in items'[t]
                    /\ \A e \in Stored' : from'[t] < e /\ e <= lastSeen'[t] => e \in got'[t]
  BY DEF StreamInv
<1>0. /\ items[t] \subseteq Nat /\ got[t] \subseteq Nat /\ lastSeen[t] \in Nat /\ from[t] \in Nat
  BY QueryLogAssumption DEF TypeOK, Ids
<1>1. /\ Stored \subseteq Nat /\ \A e \in Stored : e < nextId
      /\ nextId <= nextId' /\ nextId \in Nat /\ nextId' \in Nat
      /\ \A e \in Stored' : e \in Stored \/ (e = nextId /\ nextId < nextId')
  BY StoredGrows, QueryLogAssumption DEF Ids
<1>2. /\ pc[t] = "new" => items[t] = {} /\ got[t] = {}
      /\ \A id \in got[t] : id <= lastSeen[t]
      /\ \A id \in items[t] : lastSeen[t] < id /\ id < nextId
      /\ lastSeen[t] = from[t] \/ lastSeen[t] < nextId
      /\ \A id \in items[t], e \in Stored : lastSeen[t] < e /\ e <= id => e \in items[t]
      /\ \A e \in Stored : from[t] < e /\ e <= lastSeen[t] => e \in got[t]
  BY DEF StreamInv
<1>3. pc'[t] = "new" => items'[t] = {} /\ got'[t] = {} BY <1>2, StreamShape DEF Rests
<1>4. CASE Rests(t)
  <2>1. items'[t] = items[t] /\ got'[t] = got[t] /\ lastSeen'[t] = lastSeen[t] /\ from'[t] = from[t]
    BY <1>4 DEF Rests
  <2>2. \A id \in items[t] : id < nextId' BY <1>0, <1>1, <1>2
  <2>3. lastSeen[t] = from[t] \/ lastSeen[t] < nextId' BY <1>0, <1>1, <1>2
  <2>4. ASSUME NEW id \in items[t], NEW e \in Stored', lastSeen[t] < e, e <= id PROVE e \in items[t]
    <3>1. e # nextId BY <1>0, <1>1, <1>2, <2>4
    <3> QED BY <1>1, <1>2, <2>4, <3>1
  <2>5. ASSUME NEW e \in Stored', from[t] < e, e <= lastSeen[t] PROVE e \in got[t]
    <3>1. e # nextId BY <1>0, <1>1, <1>2, <2>5
    <3> QED BY <1>1, <1>2, <2>5, <3>1
  <2> QED BY <1>2, <1>3, <2>1, <2>2, <2>3, <2>4, <2>5
<1>5. CASE Begins(t)
  <2>1. items'[t] = {} /\ got'[t] = {} /\ lastSeen'[t] = from'[t] /\ from'[t] \in Nat
    BY <1>2, <1>5 DEF Begins
  <2>2. \A e \in Stored' : e \in Nat BY <1>1
  <2>3. \A e \in Stored' : ~(from'[t] < e /\ e <= lastSeen'[t]) BY <2>1, <2>2
  <2> QED BY <1>3, <2>1, <2>3
<1>6. CASE Batch(t) /\ UNCHANGED storeVars
  <2>1. /\ items'[t] = {e \in Stored : e > lastSeen[t]} /\ got'[t] = got[t]
        /\ lastSeen'[t] = lastSeen[t] /\ from'[t] = from[t] /\ nextId' = nextId /\ Stored' = Stored
    BY <1>6 DEF Batch, storeVars, Stored
  <2>2. \A id \in items'[t] : lastSeen[t] < id /\ id < nextId BY <1>0, <1>1, <2>1
  <2>3. \A e \in Stored : lastSeen[t] < e => e \in items'[t] BY <1>0, <1>1, <2>1
  <2> QED BY <1>2, <1>3, <2>1, <2>2, <2>3
<1>7. CASE (\E id \in items[t] : Takes(t, id)) /\ UNCHANGED storeVars
  <2>1. PICK id \in items[t] : Takes(t, id) BY <1>7
  <2>2. /\ \A other \in items[t] : id <= other
        /\ got'[t] = got[t] \cup {id} /\ lastSeen'[t] = id /\ items'[t] = items[t] \ {id}
        /\ from'[t] = from[t] /\ nextId' = nextId /\ Stored' = Stored
    BY <1>7, <2>1 DEF Takes, storeVars, Stored
  <2>3. id \in Nat /\ lastSeen[t] < id /\ id < nextId BY <1>0, <1>2
  <2>4. \A j \in got'[t] : j <= id BY <1>0, <1>2, <2>2, <2>3
  <2>5. \A j \in items'[t] : id < j /\ j < nextId BY <1>0, <1>2, <2>2, <2>3
  <2>6. ASSUME NEW j \in items'[t], NEW e \in Stored, id < e, e <= j PROVE e \in items'[t]
    <3>1. j \in items[t] /\ lastSeen[t] < e /\ e # id BY <1>0, <1>1, <2>2, <2>3, <2>6
    <3> QED BY <1>2, <2>2, <2>6, <3>1
  <2>7. ASSUME NEW e \in Stored, from[t] < e, e <= id PROVE e \in got'[t]
    <3>1. CASE e <= lastSeen[t] BY <1>2, <2>2, <2>7, <3>1
    <3>2. CASE lastSeen[t] < e
      <4>1. e \in items[t] BY <1>2, <2>7, <3>2
      <4>2. id <= e BY <2>2, <4>1
      <4>3. e = id BY <1>1, <2>3, <2>7, <4>2
      <4> QED BY <2>2, <4>3
    <3> QED BY <1>0, <1>1, <3>1, <3>2
  <2> QED BY <1>3, <2>2, <2>3, <2>4, <2>5, <2>6, <2>7
<1> QED BY <1>4, <1>5, <1>6, <1>7, StreamShape

\* What a log page sees is faithful to the log, whatever append, resize and
\* subscribe do at the same time: the store keeps the newest entries under
\* consecutive ids, and every stream yields, in order and once each, all that is
\* still in the store when it gets there.
THEOREM StreamsAreFaithful == Spec => StreamIsFaithful
<1>1. Init => TypeOK /\ StoreIsASuffix /\ StreamInv
  <2> SUFFICES ASSUME Init PROVE TypeOK /\ StoreIsASuffix /\ StreamInv OBVIOUS
  <2>1. TypeOK BY QueryLogAssumption DEF Init, TypeOK, Ids
  <2>2. entries = <<>> /\ Len(entries) = 0 /\ maxEntries \in Nat BY SizesAreNat DEF Init
  <2>3. StoreIsASuffix BY <2>2 DEF StoreIsASuffix
  <2>4. Stored = {} BY <2>2 DEF Stored
  <2>5. StreamInv BY <2>4 DEF Init, StreamInv
  <2> QED BY <2>1, <2>3, <2>5
<1>2. StreamInv => NothingPassedOver
  BY DEF StreamInv, NothingPassedOver, Stored
<1>3. ASSUME TypeOK, StreamInv, [Next]_vars, NEW s \in Subscribers, got'[s] # got[s]
      PROVE  /\ lastSeen'[s] > lastSeen[s]
             /\ got'[s] = got[s] \cup {lastSeen'[s]} /\ lastSeen'[s] \notin got[s]
  <2>1. PICK id \in items[s] : Takes(s, id)
    BY <1>3, StreamShape DEF Rests, Begins, Batch
  <2>2. lastSeen'[s] = id /\ got'[s] = got[s] \cup {id} BY <2>1 DEF Takes
  <2>3. id \in Nat /\ got[s] \subseteq Nat /\ lastSeen[s] \in Nat
    BY <1>3, QueryLogAssumption DEF TypeOK, Ids
  <2>4. lastSeen[s] < id /\ \A j \in got[s] : j <= lastSeen[s] BY <1>3 DEF StreamInv
  <2>5. id \notin got[s] BY <2>3, <2>4
  <2> QED BY <2>2, <2>3, <2>4, <2>5
<1>4. TypeOK /\ StreamInv /\ [Next]_vars =>
        [\A s \in Subscribers : got'[s] # got[s] =>
           /\ lastSeen'[s] > lastSeen[s]
           /\ got'[s] = got[s] \cup {lastSeen'[s]} /\ lastSeen'[s] \notin got[s]]_vars
  BY <1>3
<1> QED BY <1>1, <1>2, <1>4, TypeStep, SuffixStep, StreamStep, PTL
        DEF Spec, StreamIsFaithful, YieldsInOrder
=============================================================================
