----------------------------- MODULE ConfigReload -----------------------------
(***************************************************************************)
(* Which configuration is in force and what is bound to it: the WebUI's    *)
(* save, the managers' reload() and stop(), the worker processes with the  *)
(* shared memory they open by name, and, in the process that holds the     *)
(* RuntimeState, the resolutions under way, the HTTP session they share    *)
(* and the query log store.                                                *)
(*                                                                         *)
(* In multi-process mode the file is read in three places: by reload() for *)
(* the new pool, by the inner RuntimeManager's reload() for the master's   *)
(* own state and by every worker process when its task starts or is        *)
(* restarted.  In single-process mode there is only the RuntimeManager.    *)
(* save_config truncates the file and writes it: the event loop does       *)
(* nothing else meanwhile, but the workers are other processes.            *)
(*                                                                         *)
(* A pool's stop() takes time, and a rebuild of its broken executor that   *)
(* has begun by then goes on: it may start workers after stop() is over.   *)
(***************************************************************************)
EXTENDS Naturals

CONSTANTS
  Configs,     \* configurations that pass validation
  First,       \* the one the program was started with
  Torn,        \* the content of the file in the middle of a write
  Gone,
  Signature,   \* _service_signature: listener and WebUI addresses
  Buildable,   \* the configurations whose tag files and plugins can be built
  Bootstrap,   \* bootstrap_resolver and hosts
  NoSession,
  Capacity,    \* max_entries of the query log plugin, 0 where it is disabled
  Resolves,    \* resolutions in the process of the RuntimeState
  Workers,
  MaxPools,    \* bound on the pools ever built
  MaxSaves,    \* bound on the saves
  MaxExits     \* bound on the worker tasks that end and the pools that break

ASSUME ConfigReloadAssumption ==
  /\ First \in Buildable /\ Buildable \subseteq Configs
  /\ Torn \notin Configs /\ Gone \notin Configs \cup {Torn}
  /\ \A c \in Configs : Capacity[c] \in Nat /\ Bootstrap[c] # NoSession
  /\ MaxPools \in Nat \ {0} /\ MaxSaves \in Nat /\ MaxExits \in Nat

VARIABLES
  mode,     \* which manager create_runtime_manager made
  phase,    \* where stop() is
  file,     \* what the configuration file holds
  saving,   \* the configuration being written, or Torn
  state,    \* the configuration of the RuntimeState
  pool,     \* which pool the manager holds; 0 if none
  built,    \* the pools built so far
  open,     \* the pools whose SharedTreeResources exist
  up,       \* the pools whose stop() has not begun: their supervisor restarts workers
  restarting, \* the pools in _restart_broken_pool
  runs,     \* the configuration a worker task runs, Torn before it has read one,
            \* Gone if there is no task
  reloadPc, \* where the multi-process reload() is
  resolve,  \* a resolution: where it is, its state's configuration, and the
            \* binding of the session it uses
  session,  \* _SHARED_BOOTSTRAP_RESOLVER and _SHARED_HOSTS of the open session
  store,    \* max_entries of the live query log store, 0 if there is none
  changed,  \* ghost: the file was saved since reload() last read it
  failed,   \* ghost: the last reload failed after it began to build
  overtaken, \* ghost: the pools whose stop() began while they were being rebuilt
  saves, exits

fileVars == <<file, saving, saves>>
poolVars == <<pool, built, open, up, restarting, runs, overtaken, exits>>
ownVars == <<resolve, session>>
vars == <<mode, phase, fileVars, state, poolVars, reloadPc, ownVars, store, changed, failed>>

Pools == 1 .. MaxPools
Bindings == {Bootstrap[c] : c \in Configs} \cup {NoSession}

TypeOK ==
  /\ mode \in {"single", "multi"}
  /\ phase \in {"running", "stopping", "closing", "draining", "stopped"}
  /\ file \in Configs \cup {Torn} /\ saving \in Configs \cup {Torn}
  /\ state \in Configs /\ pool \in Pools \cup {0} /\ built \in Pools \cup {0}
  /\ open \subseteq Pools /\ up \subseteq Pools
  /\ restarting \subseteq Pools /\ overtaken \subseteq Pools
  /\ runs \in [Pools -> [Workers -> Configs \cup {Torn, Gone}]]
  /\ reloadPc \in {"idle", "building", "stopping", "aborting"}
  /\ resolve \in [Resolves -> [pc : {"none", "begun", "using", "done", "refused"},
                               cfg : Configs, uses : Bindings]]
  /\ session \in Bindings /\ store \in {Capacity[c] : c \in Configs}
  /\ changed \in BOOLEAN /\ failed \in BOOLEAN
  /\ saves \in 0 .. MaxSaves /\ exits \in 0 .. MaxExits

NotYet == [w \in Workers |-> Torn]
NoTasks == [w \in Workers |-> Gone]
Idle == [pc |-> "none", cfg |-> First, uses |-> NoSession]

\* create_runtime_manager and start().
Init ==
  /\ mode \in {"single", "multi"} /\ phase = "running"
  /\ file = First /\ saving = Torn /\ state = First
  /\ pool = IF mode = "multi" THEN 1 ELSE 0
  /\ built = pool /\ open = {pool} \ {0} /\ up = {pool} \ {0}
  /\ restarting = {} /\ overtaken = {}
  /\ runs = [p \in Pools |-> IF p = pool THEN NotYet ELSE NoTasks]
  /\ reloadPc = "idle"
  /\ resolve = [q \in Resolves |-> Idle] /\ session = NoSession
  /\ store = Capacity[First]
  /\ changed = FALSE /\ failed = FALSE
  /\ saves = 0 /\ exits = 0

\* The event loop is not in the middle of save_config.
LoopFree == saving = Torn

\* Mutant of SetUpStore: a store that is there is used as it is.
SetUpStoreAsIs(c) == IF store # 0 /\ Capacity[c] # 0 THEN store ELSE Capacity[c]

\* QueryLogPlugin.setup: the store of the old state is resized, or one is made.
SetUpStore(c) == Capacity[c]

\* The same in a build that fails later: a store that is there is resized, a new
\* one is lost with the build.
Resized(c) == IF store # 0 /\ Capacity[c] # 0 THEN Capacity[c] ELSE store
-----------------------------------------------------------------------------
(***************************************************************************)
(* save_config_view                                                        *)
(***************************************************************************)
BeginSave(c) ==
  /\ LoopFree /\ phase # "stopped" /\ saves < MaxSaves
  /\ saving' = c /\ file' = Torn /\ saves' = saves + 1 /\ changed' = TRUE
  /\ UNCHANGED <<mode, phase, state, poolVars, reloadPc, ownVars, store, failed>>

EndSave ==
  /\ ~LoopFree
  /\ file' = saving /\ saving' = Torn
  /\ UNCHANGED <<mode, phase, saves, state, poolVars, reloadPc, ownVars, store, changed, failed>>
-----------------------------------------------------------------------------
(***************************************************************************)
(* A worker process and the supervisor of its pool                         *)
(***************************************************************************)
workerRest == <<mode, phase, fileVars, state, pool, built, open, up, overtaken, reloadPc, ownVars,
                store, changed, failed>>

\* What worker_entry needs: a file it can build and the shared memory by its name.
CanLoad(p) == file \in Buildable /\ p \in open

LoadWorker(p, w) ==
  /\ runs[p][w] = Torn /\ CanLoad(p)
  /\ runs' = [runs EXCEPT ![p][w] = file]
  /\ UNCHANGED <<workerRest, restarting, exits>>

\* A task ends, told to or by an error, and is submitted again by the supervisor.
\* (So is one that cannot load: it is Torn before and after.)
RestartWorker(p, w) ==
  /\ p \in up /\ runs[p][w] \in Configs /\ exits < MaxExits
  /\ runs' = [runs EXCEPT ![p][w] = Torn]
  /\ exits' = exits + 1
  /\ UNCHANGED <<workerRest, restarting>>

\* A task of a pool whose stop() has begun ends or cannot load: nobody restarts it.
EndWorker(p, w) ==
  /\ p \notin up
  /\ runs[p][w] \in Configs \/ (runs[p][w] = Torn /\ ~CanLoad(p))
  /\ runs' = [runs EXCEPT ![p][w] = Gone]
  /\ UNCHANGED <<workerRest, restarting, exits>>

\* A worker process died and the supervisor finds the executor broken.  That of a
\* new pool is still in its first sleep while reload() builds.
BreakPool(p) ==
  /\ LoopFree /\ p \in up \ restarting /\ p = pool /\ exits < MaxExits
  /\ restarting' = restarting \cup {p}
  /\ runs' = [runs EXCEPT ![p] = NoTasks]
  /\ exits' = exits + 1
  /\ UNCHANGED workerRest

\* The end of _restart_broken_pool.  It does not ask whether stop() came meanwhile.
RebuildPool(p) ==
  /\ LoopFree /\ p \in restarting
  /\ restarting' = restarting \ {p}
  /\ runs' = [runs EXCEPT ![p] = NotYet]
  /\ UNCHANGED <<workerRest, exits>>

\* MultiprocessWorkerPool.stop() up to its first wait.
BeginPoolStop(p) ==
  /\ up' = up \ {p}
  /\ overtaken' = overtaken \cup ({p} \cap restarting)

\* The rest of it: the executor it found at the beginning has no workers left.
EndPoolStop(p) ==
  runs' = IF p \in overtaken THEN runs
          ELSE [q \in Pools |-> IF q = p THEN NoTasks ELSE runs[q]]
-----------------------------------------------------------------------------
(***************************************************************************)
(* A resolution: a query of the single process, a nested resolution in the *)
(* master                                                                  *)
(***************************************************************************)
\* The master hears a pool's workers until stop() is over, and those of a rebuilt
\* pool after it: its result reader is started again.
Heard == ((IF phase \in {"running", "stopping"} THEN open ELSE {}) \cup overtaken) \ restarting

\* get_state(): the resolution keeps the pipeline and nameservers it finds.  In the
\* single process stop() has uvicorn end when it sees fit: DoH queries still begin.
BeginResolve(q) ==
  /\ LoopFree /\ phase # "stopped" /\ resolve[q].pc = "none"
  /\ mode = "single" \/ Heard # {}
  /\ resolve' = [resolve EXCEPT ![q] = [@ EXCEPT !.pc = "begun", !.cfg = state]]
  /\ UNCHANGED <<mode, phase, fileVars, state, poolVars, reloadPc, session,
                 store, changed, failed>>

\* Mutant of GetSession: a session of another configuration is replaced.
GetSessionAnew(q) ==
  /\ session' = Bootstrap[resolve[q].cfg]
  /\ resolve' = [resolve EXCEPT ![q].pc = "using", ![q].uses = session']

\* _get_shared_session: made by the first who asks, and refused to those whose
\* bootstrap resolvers or hosts differ from those it was made with.
GetSession(q) ==
  LET mine == Bootstrap[resolve[q].cfg] IN
  IF session \in {NoSession, mine}
  THEN /\ session' = mine
       /\ resolve' = [resolve EXCEPT ![q].pc = "using", ![q].uses = mine]
  ELSE /\ UNCHANGED session
       /\ resolve' = [resolve EXCEPT ![q].pc = "refused"]

AskUpstream(q) ==
  /\ LoopFree /\ resolve[q].pc = "begun" /\ phase # "stopped"
  /\ GetSession(q)
  /\ UNCHANGED <<mode, phase, fileVars, state, poolVars, reloadPc, store, changed, failed>>

\* It ends; also one whose session is closed under it, which fails.
EndResolve(q) ==
  /\ LoopFree /\ resolve[q].pc = "using" /\ phase # "stopped"
  /\ resolve' = [resolve EXCEPT ![q].pc = "done"]
  /\ UNCHANGED <<mode, phase, fileVars, state, poolVars, reloadPc, session,
                 store, changed, failed>>
-----------------------------------------------------------------------------
(***************************************************************************)
(* RuntimeManager.reload(), by itself in single-process mode: it does not  *)
(* give way between the read of the file and the swap                      *)
(***************************************************************************)
Reloads == LoopFree /\ mode = "single" /\ phase = "running"

ReloadSingle ==
  /\ Reloads /\ file \in Buildable /\ Signature[file] = Signature[state]
  /\ state' = file /\ store' = SetUpStore(file)
  /\ changed' = FALSE /\ failed' = FALSE
  /\ UNCHANGED <<mode, phase, fileVars, poolVars, reloadPc, ownVars>>

\* The addresses are compared after the new state was built.
RejectSingle ==
  /\ Reloads /\ file \in Buildable /\ Signature[file] # Signature[state]
  /\ store' = Resized(file) /\ failed' = TRUE
  /\ UNCHANGED <<mode, phase, fileVars, state, poolVars, reloadPc, ownVars, changed>>

\* The build fails before or after the query log plugin's turn.
FailSingle ==
  /\ Reloads /\ file \notin Buildable
  /\ store' \in {store, Resized(file)} /\ failed' = TRUE
  /\ UNCHANGED <<mode, phase, fileVars, state, poolVars, reloadPc, ownVars, changed>>
-----------------------------------------------------------------------------
(***************************************************************************)
(* MultiprocessRuntimeManager.reload(), under the manager's lock           *)
(***************************************************************************)
\* Up to the suspension at the inner manager's lock: the file is read, its
\* addresses compared, the resources built and the new pool started.  If the
\* addresses differ or the resources cannot be built nothing has changed.
BeginReload ==
  /\ LoopFree /\ mode = "multi" /\ phase = "running" /\ reloadPc = "idle" /\ built < MaxPools
  /\ file \in Buildable
  /\ Signature[file] = Signature[state]
  /\ built' = built + 1
  /\ open' = open \cup {built'} /\ up' = up \cup {built'}
  /\ runs' = [runs EXCEPT ![built'] = NotYet]
  /\ reloadPc' = "building" /\ changed' = FALSE
  /\ UNCHANGED <<mode, phase, fileVars, state, pool, restarting, overtaken, exits, ownVars,
                 store, failed>>

\* The inner reload() raises: the stop of the new pool begins.
FailReload ==
  /\ LoopFree /\ reloadPc = "building" /\ file \notin Buildable
  /\ BeginPoolStop(built)
  /\ store' \in {store, Resized(file)} /\ failed' = TRUE
  /\ reloadPc' = "aborting"
  /\ UNCHANGED <<mode, phase, fileVars, state, pool, built, open, restarting, runs, exits, ownVars,
                 changed>>

\* It is over and the new resources are closed.
AbortReload ==
  /\ LoopFree /\ reloadPc = "aborting"
  /\ EndPoolStop(built) /\ open' = open \ {built}
  /\ reloadPc' = "idle"
  /\ UNCHANGED <<mode, phase, fileVars, state, pool, built, up, restarting, overtaken, exits, ownVars,
                 store, changed, failed>>

\* Mutant of SwapPools: the inner manager is not told to reload.
SwapPoolsOuterOnly ==
  /\ LoopFree /\ reloadPc = "building" /\ file \in Buildable
  /\ pool' = built /\ failed' = FALSE
  /\ BeginPoolStop(pool)
  /\ reloadPc' = "stopping"
  /\ UNCHANGED <<mode, phase, fileVars, state, built, open, restarting, runs, exits, ownVars,
                 store, changed>>

\* Mutant of SwapPools: the old resources are closed before the old pool's stop().
SwapPoolsClosingFirst ==
  /\ LoopFree /\ reloadPc = "building" /\ file \in Buildable
  /\ state' = file /\ pool' = built
  /\ store' = SetUpStore(file) /\ failed' = FALSE
  /\ BeginPoolStop(pool) /\ open' = open \ {pool}
  /\ reloadPc' = "stopping"
  /\ UNCHANGED <<mode, phase, fileVars, built, restarting, runs, exits, ownVars, changed>>

\* The inner reload() reads the file once more, and does not compare addresses,
\* having no services of its own; then everything is swapped and the stop of the
\* old pool begins.
SwapPools ==
  /\ LoopFree /\ reloadPc = "building" /\ file \in Buildable
  /\ state' = file /\ pool' = built
  /\ store' = SetUpStore(file) /\ failed' = FALSE
  /\ BeginPoolStop(pool)
  /\ reloadPc' = "stopping"
  /\ UNCHANGED <<mode, phase, fileVars, built, open, restarting, runs, exits, ownVars, changed>>

\* It is over and the old resources are closed.
FinishReload ==
  /\ LoopFree /\ reloadPc = "stopping"
  /\ \E old \in open \ {pool} : EndPoolStop(old) /\ open' = open \ {old}
  /\ reloadPc' = "idle"
  /\ UNCHANGED <<mode, phase, fileVars, state, pool, built, up, restarting, overtaken, exits, ownVars,
                 store, changed, failed>>
-----------------------------------------------------------------------------
(***************************************************************************)
(* stop() of either manager                                                *)
(***************************************************************************)
\* uvicorn is asked to end, the listeners are stopped and the pool's stop() begins.
Stop ==
  /\ LoopFree /\ phase = "running" /\ reloadPc = "idle"
  /\ phase' = "stopping"
  /\ BeginPoolStop(pool)
  /\ UNCHANGED <<mode, fileVars, state, pool, built, open, restarting, runs, exits, reloadPc, ownVars,
                 store, changed, failed>>

\* It is over; close_nameserver_sessions: each kind forgets its sessions, then
\* closes them.
CloseSessions ==
  /\ LoopFree /\ phase = "stopping"
  /\ phase' = "closing"
  /\ EndPoolStop(pool) /\ pool' = 0
  /\ session' = NoSession
  /\ UNCHANGED <<mode, fileVars, state, built, open, up, restarting, overtaken, exits, reloadPc, resolve,
                 store, changed, failed>>

CloseResources ==
  /\ LoopFree /\ phase = "closing"
  /\ phase' = "draining"
  /\ open' = {}
  /\ UNCHANGED <<mode, fileVars, state, pool, built, up, restarting, overtaken, runs, exits, reloadPc,
                 ownVars, store, changed, failed>>

\* The task group has waited for the resolutions and the supervisors under way.
StopReturns ==
  /\ LoopFree /\ phase = "draining"
  /\ \A q \in Resolves : resolve[q].pc \notin {"begun", "using"}
  /\ restarting = {}
  /\ phase' = "stopped"
  /\ UNCHANGED <<mode, fileVars, state, poolVars, reloadPc, ownVars, store, changed, failed>>
-----------------------------------------------------------------------------
Next ==
  \/ \E c \in Configs : BeginSave(c)
  \/ EndSave
  \/ \E p \in Pools, w \in Workers : LoadWorker(p, w) \/ RestartWorker(p, w) \/ EndWorker(p, w)
  \/ \E p \in Pools : BreakPool(p) \/ RebuildPool(p)
  \/ \E q \in Resolves : BeginResolve(q) \/ AskUpstream(q) \/ EndResolve(q)
  \/ ReloadSingle \/ RejectSingle \/ FailSingle
  \/ BeginReload \/ FailReload \/ AbortReload \/ SwapPools \/ FinishReload
  \/ Stop \/ CloseSessions \/ CloseResources \/ StopReturns

Spec == Init /\ [][Next]_vars
-----------------------------------------------------------------------------
(***************************************************************************)
(* Properties                                                              *)
(***************************************************************************)
\* The shared memory a worker task opens by name is there as long as the task is,
\* from before its pool's start to after its stop(), unless that stop() overtook a
\* rebuild, which starts tasks when it likes.
WorkersFindTheirResources ==
  \A p \in Pools : (\E w \in Workers : runs[p][w] # Gone) => p \in open \cup overtaken

\* Between reloads the pool in use alone has resources and a supervisor: a reload,
\* finished or failed, leaves neither behind, and stop() none at all.
NothingLeftBehind ==
  /\ up \subseteq open
  /\ reloadPc = "idle" /\ phase = "running" => up = {pool} \ {0} /\ open = {pool} \ {0}
  /\ phase \in {"draining", "stopped"} => open = {}

\* Resources outlive the workers that need them, during a reload, after one that
\* failed and in stop(), and none stay behind.
ResourceInv == TypeOK /\ WorkersFindTheirResources /\ NothingLeftBehind

\* As long as nothing was saved since reload() read the file, its three readers
\* agree: between reloads every worker runs the configuration of the master.
WorkersAgreeWithMaster ==
  reloadPc = "idle" /\ ~changed =>
    \A p \in up, w \in Workers : runs[p][w] \in {Torn, Gone, state}

\* The query log keeps as many lines as the configuration in force says, unless
\* the last reload failed: it may have resized the live store by then.
StoreHasCapacityInForce == ~failed => store = Capacity[state]

\* A resolution never goes through a session made for other bootstrap resolvers
\* or hosts than those of the configuration it began with, whatever was reloaded
\* since the session was made or since the resolution began.
SessionMatchesConfig ==
  \A q \in Resolves : resolve[q].pc = "using" => resolve[q].uses = Bootstrap[resolve[q].cfg]

\* Until stop() closes it the session that resolutions share is not replaced under
\* them, by no reload and by no resolution of another configuration.
SessionIsShared ==
  phase \in {"running", "stopping"} =>
    \A q \in Resolves : resolve[q].pc = "using" => resolve[q].uses = session

\* A resolution is refused only because of one that began under a configuration
\* with other bootstrap resolvers or hosts and made the session.
RefusalHasCause ==
  \A q \in Resolves : resolve[q].pc = "refused" =>
    \E r \in Resolves : resolve[r].uses \notin {NoSession, Bootstrap[resolve[q].cfg]}

\* The session of a transport serves those it was made for, all of them, until it
\* is closed, and turns away the others only.
SessionsAreRight == SessionMatchesConfig /\ SessionIsShared /\ RefusalHasCause

\* A resolution that began with the configuration in force is not refused: reload
\* closes the shared sessions, so that what it changed takes effect
\* (docs/requirements.md:372).
ReloadTakesEffect ==
  \A q \in Resolves : resolve[q].pc = "refused" => resolve[q].cfg # state
=============================================================================
