-------------------------- MODULE ConfigReloadProofs --------------------------
(***************************************************************************)
(* Proofs about ConfigReload, for every set of configurations, workers and *)
(* resolutions and every bound on pools, saves and worker restarts.        *)
(***************************************************************************)
EXTENDS ConfigReload, TLAPS

(***************************************************************************)
(* The inductive invariant                                                 *)
(***************************************************************************)
\* The event loop sees a whole file: it is torn only while a save has the loop.
FileWhole == LoopFree <=> file \in Configs

\* The pools that have resources and those with a supervisor, at each place of
\* reload() and of stop(): the one in use, and beside it the one being built, being
\* thrown away or being replaced.  A single process never builds one.
PoolsKept ==
  /\ pool <= built /\ \A p \in open : p <= built
  /\ mode = "single" => built = 0
  /\ reloadPc # "idle" => phase = "running"
  /\ phase = "running" /\ reloadPc = "idle" => open = {pool} \ {0} /\ up = open
  /\ reloadPc = "building" => pool < built /\ open = ({pool} \ {0}) \cup {built} /\ up = open
  /\ reloadPc = "aborting" => pool < built /\ open = ({pool} \ {0}) \cup {built} /\ up = {pool} \ {0}
  /\ reloadPc = "stopping" => pool = built /\ up = {pool} /\ \E old \in Pools : open = {old, pool}
  /\ phase = "stopping" => open = {pool} \ {0} /\ up = {}
  /\ phase \in {"closing", "draining", "stopped"} => pool = 0 /\ up = {}
  /\ phase \in {"draining", "stopped"} => open = {}

HasTasks(p) == \E w \in Workers : runs[p][w] # Gone

\* A pool has worker tasks only while it has resources, stop() has not gone past
\* its end, or it was overtaken; one that is being rebuilt is supervised or was.
TasksKept ==
  /\ \A p \in Pools : HasTasks(p) => p \in open \cup overtaken
  /\ phase \in {"closing", "draining", "stopped"} => \A p \in Pools : HasTasks(p) => p \in overtaken
  /\ restarting \subseteq up \cup overtaken

\* Without a save since reload() read the file, the file can still be built, the
\* newest pool's workers run it, and the master does once reload() is past its
\* own read, with that pool in use until stop() drops it.
Unsaved ==
  ~changed =>
    /\ file \in Buildable
    /\ \A p \in Pools, w \in Workers : p = built => runs[p][w] \in {Torn, Gone, file}
    /\ reloadPc # "building" => state = file /\ pool \in {0, built}

\* An open session was made by one of the resolutions, and a resolution keeps the
\* binding of the one it got.
SessionHasMaker ==
  /\ session # NoSession => \E r \in Resolves : resolve[r].uses = session
  /\ \A q \in Resolves : resolve[q].pc \in {"none", "begun", "refused"} => resolve[q].uses = NoSession

SessionInv == SessionsAreRight /\ SessionHasMaker

IInv ==
  /\ TypeOK /\ FileWhole /\ PoolsKept /\ TasksKept /\ Unsaved
  /\ StoreHasCapacityInForce /\ SessionInv
-----------------------------------------------------------------------------
USE DEF vars, fileVars, poolVars, ownVars, workerRest, LoopFree, Pools, Bindings

ResolveState == [pc : {"none", "begun", "using", "done", "refused"},
                 cfg : Configs, uses : Bindings]

LEMMA InitIInv == Init => IInv
<1> SUFFICES ASSUME Init PROVE IInv OBVIOUS
<1> USE ConfigReloadAssumption DEF Init
<1>1. TypeOK
  <2>1. /\ pool \in Pools \cup {0} /\ built \in Pools \cup {0}
        /\ open \subseteq Pools /\ up \subseteq Pools
        /\ restarting \subseteq Pools /\ overtaken \subseteq Pools
    OBVIOUS
  <2>2. runs \in [Pools -> [Workers -> Configs \cup {Torn, Gone}]] BY DEF NotYet, NoTasks
  <2>3. resolve \in [Resolves -> ResolveState] BY DEF Idle, ResolveState
  <2>4. First \in Configs /\ Torn \in Configs \cup {Torn} OBVIOUS
  <2>5. 0 \in 0 .. MaxSaves /\ 0 \in 0 .. MaxExits OBVIOUS
  <2> HIDE DEF Pools
  <2> QED BY <2>1, <2>2, <2>3, <2>4, <2>5 DEF TypeOK, ResolveState
<1>2. FileWhole BY DEF FileWhole
<1>3. PoolsKept BY DEF PoolsKept
<1>4. TasksKept BY DEF TasksKept, HasTasks, NoTasks
<1>5. Unsaved BY DEF Unsaved, NotYet, NoTasks
<1>6. StoreHasCapacityInForce BY DEF StoreHasCapacityInForce
<1>7. SessionInv
  BY DEF SessionInv, SessionsAreRight, SessionMatchesConfig, SessionIsShared, RefusalHasCause,
         SessionHasMaker, Idle
<1> QED BY <1>1, <1>2, <1>3, <1>4, <1>5, <1>6, <1>7 DEF IInv

\* What a step that leaves workers, or resolutions, as they are leaves as it is.
LEMMA OwnUntouched ==
  ASSUME SessionInv, UNCHANGED ownVars,
         phase' \in {"running", "stopping"} => phase \in {"running", "stopping"}
  PROVE  SessionInv'
BY DEF SessionInv, SessionsAreRight, SessionMatchesConfig, SessionIsShared, RefusalHasCause,
       SessionHasMaker

LEMMA PoolsUntouched ==
  ASSUME PoolsKept, TasksKept, UNCHANGED <<mode, phase, poolVars, reloadPc>>
  PROVE  PoolsKept' /\ TasksKept'
BY DEF PoolsKept, TasksKept, HasTasks

LEMMA BeginSaveStep ==
  ASSUME IInv, NEW c \in Configs, BeginSave(c)
  PROVE  IInv'
<1> USE ConfigReloadAssumption DEF BeginSave
<1>1. TypeOK' BY DEF IInv, TypeOK
<1>2. FileWhole' BY DEF IInv, TypeOK, FileWhole
<1>3. PoolsKept' /\ TasksKept' BY PoolsUntouched DEF IInv
<1>5. Unsaved' BY DEF Unsaved
<1>6. StoreHasCapacityInForce' BY DEF IInv, StoreHasCapacityInForce
<1>7. SessionInv' BY OwnUntouched DEF IInv
<1> QED BY <1>1, <1>2, <1>3, <1>5, <1>6, <1>7 DEF IInv

LEMMA EndSaveStep ==
  ASSUME IInv, EndSave
  PROVE  IInv'
<1> USE ConfigReloadAssumption DEF EndSave
<1>1. TypeOK' BY DEF IInv, TypeOK
<1>2. FileWhole' BY DEF IInv, TypeOK, FileWhole
<1>3. PoolsKept' /\ TasksKept' BY PoolsUntouched DEF IInv
<1>5. Unsaved' BY DEF IInv, TypeOK, FileWhole, Unsaved
<1>6. StoreHasCapacityInForce' BY DEF IInv, StoreHasCapacityInForce
<1>7. SessionInv' BY OwnUntouched DEF IInv
<1> QED BY <1>1, <1>2, <1>3, <1>5, <1>6, <1>7 DEF IInv

LEMMA LoadWorkerStep ==
  ASSUME IInv, NEW p \in Pools, NEW w \in Workers, LoadWorker(p, w)
  PROVE  IInv'
<1> USE ConfigReloadAssumption DEF LoadWorker, CanLoad
<1>1. TypeOK' BY DEF IInv, TypeOK
<1>2. FileWhole' BY DEF IInv, TypeOK, FileWhole
<1>3. PoolsKept' BY DEF IInv, TypeOK, PoolsKept
<1>4. TasksKept' BY DEF IInv, TypeOK, PoolsKept, TasksKept, HasTasks
<1>5. Unsaved' BY DEF IInv, TypeOK, Unsaved
<1>6. StoreHasCapacityInForce' BY DEF IInv, StoreHasCapacityInForce
<1>7. SessionInv' BY OwnUntouched DEF IInv
<1> QED BY <1>1, <1>2, <1>3, <1>4, <1>5, <1>6, <1>7 DEF IInv

LEMMA RestartWorkerStep ==
  ASSUME IInv, NEW p \in Pools, NEW w \in Workers, RestartWorker(p, w)
  PROVE  IInv'
<1> USE ConfigReloadAssumption DEF RestartWorker
<1>1. TypeOK' BY DEF IInv, TypeOK
<1>2. FileWhole' BY DEF IInv, TypeOK, FileWhole
<1>3. PoolsKept' BY DEF IInv, TypeOK, PoolsKept
<1>4. TasksKept' BY DEF IInv, TypeOK, PoolsKept, TasksKept, HasTasks
<1>5. Unsaved' BY DEF IInv, TypeOK, Unsaved
<1>6. StoreHasCapacityInForce' BY DEF IInv, StoreHasCapacityInForce
<1>7. SessionInv' BY OwnUntouched DEF IInv
<1> QED BY <1>1, <1>2, <1>3, <1>4, <1>5, <1>6, <1>7 DEF IInv

LEMMA EndWorkerStep ==
  ASSUME IInv, NEW p \in Pools, NEW w \in Workers, EndWorker(p, w)
  PROVE  IInv'
<1> USE ConfigReloadAssumption DEF EndWorker
<1>1. TypeOK' BY DEF IInv, TypeOK
<1>2. FileWhole' BY DEF IInv, TypeOK, FileWhole
<1>3. PoolsKept' BY DEF IInv, TypeOK, PoolsKept
<1>4. TasksKept' BY DEF IInv, TypeOK, PoolsKept, TasksKept, HasTasks
<1>5. Unsaved' BY DEF IInv, TypeOK, Unsaved
<1>6. StoreHasCapacityInForce' BY DEF IInv, StoreHasCapacityInForce
<1>7. SessionInv' BY OwnUntouched DEF IInv
<1> QED BY <1>1, <1>2, <1>3, <1>4, <1>5, <1>6, <1>7 DEF IInv

LEMMA BreakPoolStep ==
  ASSUME IInv, NEW p \in Pools, BreakPool(p)
  PROVE  IInv'
<1> USE ConfigReloadAssumption DEF BreakPool, NoTasks
<1>1. TypeOK' BY DEF IInv, TypeOK
<1>2. FileWhole' BY DEF IInv, TypeOK, FileWhole
<1>3. PoolsKept' BY DEF IInv, TypeOK, PoolsKept
<1>4. TasksKept' BY DEF IInv, TypeOK, PoolsKept, TasksKept, HasTasks
<1>5. Unsaved' BY DEF IInv, TypeOK, Unsaved
<1>6. StoreHasCapacityInForce' BY DEF IInv, StoreHasCapacityInForce
<1>7. SessionInv' BY OwnUntouched DEF IInv
<1> QED BY <1>1, <1>2, <1>3, <1>4, <1>5, <1>6, <1>7 DEF IInv

LEMMA RebuildPoolStep ==
  ASSUME IInv, NEW p \in Pools, RebuildPool(p)
  PROVE  IInv'
<1> USE ConfigReloadAssumption DEF RebuildPool, NotYet
<1>1. TypeOK' BY DEF IInv, TypeOK
<1>2. FileWhole' BY DEF IInv, TypeOK, FileWhole
<1>3. PoolsKept' BY DEF IInv, TypeOK, PoolsKept
<1>4. TasksKept' BY DEF IInv, TypeOK, PoolsKept, TasksKept, HasTasks
<1>5. Unsaved' BY DEF IInv, TypeOK, Unsaved
<1>6. StoreHasCapacityInForce' BY DEF IInv, StoreHasCapacityInForce
<1>7. SessionInv' BY OwnUntouched DEF IInv
<1> QED BY <1>1, <1>2, <1>3, <1>4, <1>5, <1>6, <1>7 DEF IInv

\* A step of one resolution, and the types.
LEMMA ResolveTypes ==
  ASSUME TypeOK, resolve' \in [Resolves -> ResolveState], session' \in Bindings,
         UNCHANGED <<mode, phase, fileVars, state, poolVars, reloadPc, store, changed, failed>>
  PROVE  TypeOK'
<1> HIDE DEF Pools, Bindings
<1> QED BY DEF TypeOK, ResolveState

LEMMA ResolveMoves ==
  ASSUME NEW f \in [Resolves -> ResolveState], NEW q \in Resolves,
         NEW p \in {"none", "begun", "using", "done", "refused"}, NEW b \in Bindings
  PROVE  /\ [f EXCEPT ![q].pc = p] \in [Resolves -> ResolveState]
         /\ [f EXCEPT ![q].pc = p, ![q].uses = b] \in [Resolves -> ResolveState]
<1> HIDE DEF Bindings
<1>1. [f[q] EXCEPT !.pc = p] \in ResolveState BY DEF ResolveState
<1>2. [f[q] EXCEPT !.pc = p, !.uses = b] \in ResolveState BY DEF ResolveState
<1>3. /\ [f EXCEPT ![q].pc = p] = [f EXCEPT ![q] = [f[q] EXCEPT !.pc = p]]
      /\ [f EXCEPT ![q].pc = p, ![q].uses = b] = [f EXCEPT ![q] = [f[q] EXCEPT !.pc = p, !.uses = b]]
  OBVIOUS
<1> QED BY <1>1, <1>2, <1>3

LEMMA BeginResolveStep ==
  ASSUME IInv, NEW q \in Resolves, BeginResolve(q)
  PROVE  IInv'
<1> USE ConfigReloadAssumption DEF BeginResolve
<1>1. TypeOK'
  <2>1. resolve \in [Resolves -> ResolveState] BY DEF IInv, TypeOK, ResolveState
  <2>2. session \in Bindings /\ state \in Configs BY DEF IInv, TypeOK
  <2> HIDE DEF Pools, Bindings
  <2>3. [resolve[q] EXCEPT !.pc = "begun", !.cfg = state] \in ResolveState
    BY <2>1, <2>2 DEF ResolveState
  <2>4. resolve' \in [Resolves -> ResolveState] BY <2>1, <2>3
  <2> QED BY <2>2, <2>4, ResolveTypes DEF IInv
<1>2. FileWhole' BY DEF IInv, TypeOK, FileWhole
<1>3. PoolsKept' /\ TasksKept' BY PoolsUntouched DEF IInv
<1>5. Unsaved' BY DEF IInv, TypeOK, Unsaved
<1>6. StoreHasCapacityInForce' BY DEF IInv, StoreHasCapacityInForce
<1>7. SessionInv'
  <2>1. resolve \in [Resolves -> ResolveState] BY DEF IInv, TypeOK, ResolveState
  <2> QED BY <2>1
    DEF IInv, SessionInv, SessionsAreRight, SessionMatchesConfig, SessionIsShared, RefusalHasCause,
        SessionHasMaker, ResolveState
<1> QED BY <1>1, <1>2, <1>3, <1>5, <1>6, <1>7 DEF IInv

LEMMA AskUpstreamStep ==
  ASSUME IInv, NEW q \in Resolves, AskUpstream(q)
  PROVE  IInv'
<1> USE ConfigReloadAssumption DEF AskUpstream, GetSession
<1>1. TypeOK'
  <2>1. resolve \in [Resolves -> ResolveState] BY DEF IInv, TypeOK, ResolveState
  <2>2. Bootstrap[resolve[q].cfg] \in Bindings BY <2>1 DEF ResolveState
  <2> HIDE DEF Pools, Bindings
  <2>3. resolve' \in [Resolves -> ResolveState] /\ session' \in Bindings
    <3>1. CASE session \in {NoSession, Bootstrap[resolve[q].cfg]}
      <4>1. PICK mine \in Bindings : mine = Bootstrap[resolve[q].cfg] BY <2>2
      <4>2. session' = mine /\ resolve' = [resolve EXCEPT ![q].pc = "using", ![q].uses = mine]
        BY <3>1, <4>1
      <4> QED BY <2>1, <4>2, ResolveMoves
    <3>2. CASE session \notin {NoSession, Bootstrap[resolve[q].cfg]}
      <4>1. session' = session /\ resolve' = [resolve EXCEPT ![q].pc = "refused"] BY <3>2
      <4>2. session \in Bindings BY DEF IInv, TypeOK
      <4> QED BY <2>1, <2>2, <4>1, <4>2, ResolveMoves
    <3> QED BY <3>1, <3>2
  <2> QED BY <2>3, ResolveTypes DEF IInv
<1>2. FileWhole' BY DEF IInv, TypeOK, FileWhole
<1>3. PoolsKept' /\ TasksKept' BY PoolsUntouched DEF IInv
<1>5. Unsaved' BY DEF IInv, TypeOK, Unsaved
<1>6. StoreHasCapacityInForce' BY DEF IInv, StoreHasCapacityInForce
<1>7. SessionInv'
  <2>1. resolve \in [Resolves -> ResolveState] BY DEF IInv, TypeOK, ResolveState
  <2>2. Bootstrap[resolve[q].cfg] # NoSession BY <2>1 DEF ResolveState
  <2> USE DEF IInv, SessionInv, SessionsAreRight
  <2>3. CASE session \in {NoSession, Bootstrap[resolve[q].cfg]}
    <3>1. /\ session' = Bootstrap[resolve[q].cfg]
          /\ resolve'[q].pc = "using" /\ resolve'[q].uses = session' /\ resolve'[q].cfg = resolve[q].cfg
          /\ \A r \in Resolves : r # q => resolve'[r] = resolve[r]
      BY <2>1, <2>3 DEF ResolveState
    <3>2. \A r \in Resolves : resolve[r].uses # NoSession => resolve'[r] = resolve[r]
      BY <3>1 DEF SessionHasMaker
    <3>3. SessionMatchesConfig' BY <3>1 DEF SessionMatchesConfig
    <3>4. SessionIsShared' BY <2>1, <2>2, <2>3, <3>1 DEF SessionIsShared, SessionMatchesConfig, ResolveState
    <3>5. RefusalHasCause' BY <3>1, <3>2 DEF RefusalHasCause
    <3>6. SessionHasMaker' BY <3>1 DEF SessionHasMaker
    <3> QED BY <3>3, <3>4, <3>5, <3>6
  <2>4. CASE session \notin {NoSession, Bootstrap[resolve[q].cfg]}
    <3>1. /\ session' = session /\ resolve'[q].pc = "refused"
          /\ \A r \in Resolves : /\ resolve'[r].uses = resolve[r].uses
                                 /\ resolve'[r].cfg = resolve[r].cfg
                                 /\ r # q => resolve'[r] = resolve[r]
      BY <2>1, <2>4 DEF ResolveState
    <3>2. PICK r \in Resolves : resolve[r].uses = session BY <2>4 DEF SessionHasMaker
    <3>3. SessionMatchesConfig' BY <3>1 DEF SessionMatchesConfig
    <3>4. SessionIsShared' BY <3>1 DEF SessionIsShared
    <3>5. RefusalHasCause' BY <2>4, <3>1, <3>2 DEF RefusalHasCause
    <3>6. SessionHasMaker' BY <3>1 DEF SessionHasMaker
    <3> QED BY <3>3, <3>4, <3>5, <3>6
  <2> QED BY <2>3, <2>4
<1> QED BY <1>1, <1>2, <1>3, <1>5, <1>6, <1>7 DEF IInv

LEMMA EndResolveStep ==
  ASSUME IInv, NEW q \in Resolves, EndResolve(q)
  PROVE  IInv'
<1> USE ConfigReloadAssumption DEF EndResolve
<1>1. TypeOK'
  <2>1. resolve \in [Resolves -> ResolveState] BY DEF IInv, TypeOK, ResolveState
  <2>2. session \in Bindings BY DEF IInv, TypeOK
  <2> HIDE DEF Pools, Bindings
  <2>3. resolve' \in [Resolves -> ResolveState] BY <2>1, <2>2, ResolveMoves
  <2> QED BY <2>2, <2>3, ResolveTypes DEF IInv
<1>2. FileWhole' BY DEF IInv, TypeOK, FileWhole
<1>3. PoolsKept' /\ TasksKept' BY PoolsUntouched DEF IInv
<1>5. Unsaved' BY DEF IInv, TypeOK, Unsaved
<1>6. StoreHasCapacityInForce' BY DEF IInv, StoreHasCapacityInForce
<1>7. SessionInv'
  <2>1. resolve \in [Resolves -> ResolveState] BY DEF IInv, TypeOK, ResolveState
  <2> QED BY <2>1
    DEF IInv, SessionInv, SessionsAreRight, SessionMatchesConfig, SessionIsShared, RefusalHasCause,
        SessionHasMaker, ResolveState
<1> QED BY <1>1, <1>2, <1>3, <1>5, <1>6, <1>7 DEF IInv

LEMMA ReloadSingleStep ==
  ASSUME IInv, ReloadSingle
  PROVE  IInv'
<1> USE ConfigReloadAssumption DEF ReloadSingle, Reloads, SetUpStore
<1>1. TypeOK' BY DEF IInv, TypeOK
<1>2. FileWhole' BY DEF IInv, TypeOK, FileWhole
<1>3. PoolsKept' /\ TasksKept' BY PoolsUntouched DEF IInv
<1>5. Unsaved' BY DEF IInv, TypeOK, PoolsKept, Unsaved
<1>6. StoreHasCapacityInForce' BY DEF IInv, StoreHasCapacityInForce
<1>7. SessionInv' BY OwnUntouched DEF IInv
<1> QED BY <1>1, <1>2, <1>3, <1>5, <1>6, <1>7 DEF IInv

LEMMA RejectSingleStep ==
  ASSUME IInv, RejectSingle
  PROVE  IInv'
<1> USE ConfigReloadAssumption DEF RejectSingle, Reloads, Resized
<1>1. TypeOK' BY DEF IInv, TypeOK
<1>2. FileWhole' BY DEF IInv, TypeOK, FileWhole
<1>3. PoolsKept' /\ TasksKept' BY PoolsUntouched DEF IInv
<1>5. Unsaved' BY DEF IInv, TypeOK, Unsaved
<1>6. StoreHasCapacityInForce' BY DEF IInv, StoreHasCapacityInForce
<1>7. SessionInv' BY OwnUntouched DEF IInv
<1> QED BY <1>1, <1>2, <1>3, <1>5, <1>6, <1>7 DEF IInv

LEMMA FailSingleStep ==
  ASSUME IInv, FailSingle
  PROVE  IInv'
<1> USE ConfigReloadAssumption DEF FailSingle, Reloads, Resized
<1>1. TypeOK' BY DEF IInv, TypeOK, FileWhole
<1>2. FileWhole' BY DEF IInv, TypeOK, FileWhole
<1>3. PoolsKept' /\ TasksKept' BY PoolsUntouched DEF IInv
<1>5. Unsaved' BY DEF IInv, TypeOK, Unsaved
<1>6. StoreHasCapacityInForce' BY DEF IInv, StoreHasCapacityInForce
<1>7. SessionInv' BY OwnUntouched DEF IInv
<1> QED BY <1>1, <1>2, <1>3, <1>5, <1>6, <1>7 DEF IInv

LEMMA BeginReloadStep ==
  ASSUME IInv, BeginReload
  PROVE  IInv'
<1> USE ConfigReloadAssumption DEF BeginReload, NotYet
<1>1. TypeOK'
  <2>1. built + 1 \in Pools BY DEF IInv, TypeOK
  <2> HIDE DEF Pools
  <2> QED BY <2>1 DEF IInv, TypeOK
<1>2. FileWhole' BY DEF IInv, TypeOK, FileWhole
<1>3. PoolsKept' BY DEF IInv, TypeOK, PoolsKept
<1>4. TasksKept' BY DEF IInv, TypeOK, PoolsKept, TasksKept, HasTasks
<1>5. Unsaved' BY DEF IInv, TypeOK, Unsaved
<1>6. StoreHasCapacityInForce' BY DEF IInv, StoreHasCapacityInForce
<1>7. SessionInv' BY OwnUntouched DEF IInv
<1> QED BY <1>1, <1>2, <1>3, <1>4, <1>5, <1>6, <1>7 DEF IInv

LEMMA FailReloadStep ==
  ASSUME IInv, FailReload
  PROVE  IInv'
<1> USE ConfigReloadAssumption DEF FailReload, BeginPoolStop, Resized
<1>1. TypeOK' BY DEF IInv, TypeOK, FileWhole
<1>2. FileWhole' BY DEF IInv, TypeOK, FileWhole
<1>3. PoolsKept' BY DEF IInv, TypeOK, PoolsKept
<1>4. TasksKept' BY DEF IInv, TypeOK, PoolsKept, TasksKept, HasTasks
<1>5. Unsaved' BY DEF IInv, TypeOK, Unsaved
<1>6. StoreHasCapacityInForce' BY DEF IInv, StoreHasCapacityInForce
<1>7. SessionInv' BY OwnUntouched DEF IInv
<1> QED BY <1>1, <1>2, <1>3, <1>4, <1>5, <1>6, <1>7 DEF IInv

LEMMA AbortReloadStep ==
  ASSUME IInv, AbortReload
  PROVE  IInv'
<1> USE ConfigReloadAssumption DEF AbortReload, EndPoolStop, NoTasks
<1>1. TypeOK' BY DEF IInv, TypeOK
<1>2. FileWhole' BY DEF IInv, TypeOK, FileWhole
<1>3. PoolsKept' BY DEF IInv, TypeOK, PoolsKept
<1>4. TasksKept' BY DEF IInv, TypeOK, PoolsKept, TasksKept, HasTasks
<1>5. Unsaved' BY DEF IInv, TypeOK, Unsaved
<1>6. StoreHasCapacityInForce' BY DEF IInv, StoreHasCapacityInForce
<1>7. SessionInv' BY OwnUntouched DEF IInv
<1> QED BY <1>1, <1>2, <1>3, <1>4, <1>5, <1>6, <1>7 DEF IInv

LEMMA SwapPoolsStep ==
  ASSUME IInv, SwapPools
  PROVE  IInv'
<1> USE ConfigReloadAssumption DEF SwapPools, BeginPoolStop, SetUpStore
<1>1. TypeOK' BY DEF IInv, TypeOK
<1>2. FileWhole' BY DEF IInv, TypeOK, FileWhole
<1>3. PoolsKept' BY DEF IInv, TypeOK, PoolsKept
<1>4. TasksKept' BY DEF IInv, TypeOK, PoolsKept, TasksKept, HasTasks
<1>5. Unsaved' BY DEF IInv, TypeOK, Unsaved
<1>6. StoreHasCapacityInForce' BY DEF IInv, StoreHasCapacityInForce
<1>7. SessionInv' BY OwnUntouched DEF IInv
<1> QED BY <1>1, <1>2, <1>3, <1>4, <1>5, <1>6, <1>7 DEF IInv

LEMMA FinishReloadStep ==
  ASSUME IInv, FinishReload
  PROVE  IInv'
<1> USE ConfigReloadAssumption DEF FinishReload, EndPoolStop, NoTasks
<1>1. TypeOK' BY DEF IInv, TypeOK
<1>2. FileWhole' BY DEF IInv, TypeOK, FileWhole
<1>3. PoolsKept' BY DEF IInv, TypeOK, PoolsKept
<1>4. TasksKept' BY DEF IInv, TypeOK, PoolsKept, TasksKept, HasTasks
<1>5. Unsaved' BY DEF IInv, TypeOK, Unsaved
<1>6. StoreHasCapacityInForce' BY DEF IInv, StoreHasCapacityInForce
<1>7. SessionInv' BY OwnUntouched DEF IInv
<1> QED BY <1>1, <1>2, <1>3, <1>4, <1>5, <1>6, <1>7 DEF IInv

LEMMA StopStep ==
  ASSUME IInv, Stop
  PROVE  IInv'
<1> USE ConfigReloadAssumption DEF Stop, BeginPoolStop
<1>1. TypeOK' BY DEF IInv, TypeOK
<1>2. FileWhole' BY DEF IInv, TypeOK, FileWhole
<1>3. PoolsKept' BY DEF IInv, TypeOK, PoolsKept
<1>4. TasksKept' BY DEF IInv, TypeOK, PoolsKept, TasksKept, HasTasks
<1>5. Unsaved' BY DEF IInv, TypeOK, Unsaved
<1>6. StoreHasCapacityInForce' BY DEF IInv, StoreHasCapacityInForce
<1>7. SessionInv' BY OwnUntouched DEF IInv
<1> QED BY <1>1, <1>2, <1>3, <1>4, <1>5, <1>6, <1>7 DEF IInv

LEMMA CloseSessionsStep ==
  ASSUME IInv, CloseSessions
  PROVE  IInv'
<1> USE ConfigReloadAssumption DEF CloseSessions, EndPoolStop, NoTasks
<1>1. TypeOK' BY DEF IInv, TypeOK
<1>2. FileWhole' BY DEF IInv, TypeOK, FileWhole
<1>3. PoolsKept' BY DEF IInv, TypeOK, PoolsKept
<1>4. TasksKept' BY DEF IInv, TypeOK, PoolsKept, TasksKept, HasTasks
<1>5. Unsaved' BY DEF IInv, TypeOK, Unsaved
<1>6. StoreHasCapacityInForce' BY DEF IInv, StoreHasCapacityInForce
<1>7. SessionInv'
  BY DEF IInv, SessionInv, SessionsAreRight, SessionMatchesConfig, SessionIsShared, RefusalHasCause,
         SessionHasMaker
<1> QED BY <1>1, <1>2, <1>3, <1>4, <1>5, <1>6, <1>7 DEF IInv

LEMMA CloseResourcesStep ==
  ASSUME IInv, CloseResources
  PROVE  IInv'
<1> USE ConfigReloadAssumption DEF CloseResources
<1>1. TypeOK' BY DEF IInv, TypeOK
<1>2. FileWhole' BY DEF IInv, TypeOK, FileWhole
<1>3. PoolsKept' BY DEF IInv, TypeOK, PoolsKept
<1>4. TasksKept' BY DEF IInv, TypeOK, PoolsKept, TasksKept, HasTasks
<1>5. Unsaved' BY DEF IInv, TypeOK, Unsaved
<1>6. StoreHasCapacityInForce' BY DEF IInv, StoreHasCapacityInForce
<1>7. SessionInv' BY OwnUntouched DEF IInv
<1> QED BY <1>1, <1>2, <1>3, <1>4, <1>5, <1>6, <1>7 DEF IInv

LEMMA StopReturnsStep ==
  ASSUME IInv, StopReturns
  PROVE  IInv'
<1> USE ConfigReloadAssumption DEF StopReturns
<1>1. TypeOK' BY DEF IInv, TypeOK
<1>2. FileWhole' BY DEF IInv, TypeOK, FileWhole
<1>3. PoolsKept' BY DEF IInv, TypeOK, PoolsKept
<1>4. TasksKept' BY DEF IInv, TypeOK, PoolsKept, TasksKept, HasTasks
<1>5. Unsaved' BY DEF IInv, TypeOK, Unsaved
<1>6. StoreHasCapacityInForce' BY DEF IInv, StoreHasCapacityInForce
<1>7. SessionInv' BY OwnUntouched DEF IInv
<1> QED BY <1>1, <1>2, <1>3, <1>4, <1>5, <1>6, <1>7 DEF IInv

LEMMA NextIInv == IInv /\ [Next]_vars => IInv'
<1> SUFFICES ASSUME IInv, [Next]_vars PROVE IInv' OBVIOUS
<1>1. CASE UNCHANGED vars
  <2>1. TypeOK' BY <1>1 DEF IInv, TypeOK
  <2>2. PoolsKept' /\ TasksKept' BY <1>1, PoolsUntouched DEF IInv
  <2>3. SessionInv' BY <1>1, OwnUntouched DEF IInv
  <2> QED BY <1>1, <2>1, <2>2, <2>3 DEF IInv, FileWhole, Unsaved, StoreHasCapacityInForce
<1>2. CASE Next
  BY <1>2, BeginSaveStep, EndSaveStep, LoadWorkerStep, RestartWorkerStep, EndWorkerStep,
     BreakPoolStep, RebuildPoolStep, BeginResolveStep, AskUpstreamStep, EndResolveStep,
     ReloadSingleStep, RejectSingleStep, FailSingleStep, BeginReloadStep, FailReloadStep,
     AbortReloadStep, SwapPoolsStep, FinishReloadStep, StopStep, CloseSessionsStep,
     CloseResourcesStep, StopReturnsStep
  DEF Next
<1> QED BY <1>1, <1>2

\* Every reachable state satisfies the inductive invariant.
THEOREM ConfigInvariant == Spec => []IInv
BY InitIInv, NextIInv, PTL DEF Spec
-----------------------------------------------------------------------------
(***************************************************************************)
(* The properties                                                          *)
(***************************************************************************)
\* Whatever reload(), stop() and the supervisors are in the middle of, worker tasks
\* have the shared memory they open unless a stop() overtook a rebuild, and nothing
\* else stays behind a reload or stop().
THEOREM PoolsAndResourcesStayTogether == Spec => []ResourceInv
<1>1. IInv => ResourceInv
  <2> SUFFICES ASSUME IInv PROVE ResourceInv OBVIOUS
  <2>1. WorkersFindTheirResources BY DEF IInv, TasksKept, HasTasks, WorkersFindTheirResources
  <2>2. NothingLeftBehind BY DEF IInv, TypeOK, PoolsKept, NothingLeftBehind
  <2> QED BY <2>1, <2>2 DEF IInv, ResourceInv
<1> QED BY <1>1, ConfigInvariant, PTL

\* The three readers of the file agree between reloads unless a save came after
\* reload()'s own read: every worker runs the configuration of the master.
THEOREM WorkersRunTheMastersConfig == Spec => []WorkersAgreeWithMaster
<1>1. IInv => WorkersAgreeWithMaster
  <2> SUFFICES ASSUME IInv, reloadPc = "idle", ~changed, NEW p \in up, NEW w \in Workers
               PROVE  runs[p][w] \in {Torn, Gone, state}
    BY DEF WorkersAgreeWithMaster
  <2>1. p = pool /\ p # 0 /\ p \in Pools BY DEF IInv, TypeOK, PoolsKept
  <2>2. state = file /\ pool \in {0, built} BY DEF IInv, Unsaved
  <2> QED BY <2>1, <2>2 DEF IInv, Unsaved
<1> QED BY <1>1, ConfigInvariant, PTL

\* The query log store has the capacity of the configuration in force unless the
\* last reload failed after it began to build.
THEOREM StoreFollowsConfig == Spec => []StoreHasCapacityInForce
<1>1. IInv => StoreHasCapacityInForce BY DEF IInv
<1> QED BY <1>1, ConfigInvariant, PTL

\* However many reloads they outlive, and during stop() too: resolutions go through
\* the session of their own configuration, share it until it is closed, and are
\* refused only because of one of another configuration.
THEOREM SessionsFollowConfig == Spec => []SessionsAreRight
<1>1. IInv => SessionsAreRight BY DEF IInv, SessionInv
<1> QED BY <1>1, ConfigInvariant, PTL
==============================================================================
