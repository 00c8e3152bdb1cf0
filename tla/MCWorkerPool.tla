---------------------------- MODULE MCWorkerPool ----------------------------
(***************************************************************************)
(* An instance of WorkerPool for TLC, and of the two parts it takes as     *)
(* one step each, the downloads and the layers.  In an execution one of    *)
(* them runs and the others are at rest.                                   *)
(*                                                                         *)
(* "pool": a pool of two groups and three workers, where every call may    *)
(*        fail; the groups may have one runtime                            *)
(* "worker": workers by themselves, ended whatever became of their start   *)
(* "living": the same as "pool", but no process ends by itself, and what   *)
(*           is removed goes                                               *)
(* "layers": two goroutines that create the same two layers, with bad and  *)
(*           short files, failing calls and crashes                        *)
(* "cache": downloads, each over what the last one left                    *)
(***************************************************************************)
EXTENDS WorkerPool, TLC

CONSTANTS
  w1, w2, w3,                   \* the workers, in their order
  python, java,                 \* the runtimes
  l1, l2,                       \* layers
  Layers, Callers, LayerFaults, \* of Snapshots
  Files, layer,                 \* of RuntimeCache
  Versions, MaxLen,
  None

Groups(r) == <<[runtime |-> python, workers |-> <<w1, w2>>], [runtime |-> r, workers |-> <<w3>>]>>
Pools == {Groups(java), Groups(python)}

\* A kind of one runtime, a kind whose name holds two, and one that holds none.
KindsOfFunction == [python3 |-> {python}, jython |-> {python, java}, nodejs |-> {}]

TwoLayers == <<l1, l2>>

VARIABLES
  scenario,    \* fixed at the start
  \* of Snapshots
  committed, active, file, views, mounted, creating, at, failed,
  \* of RuntimeCache
  size, published, cached, downloading, unpacked, got

Making == INSTANCE Snapshots WITH
            Faults <- LayerFaults, pc <- creating

Cache == INSTANCE RuntimeCache WITH
           Layer <- layer, step <- downloading

ASSUME ScenarioAssumption == Making!SnapshotsAssumption /\ Cache!CacheAssumption

layerVars == <<committed, active, file, views, mounted, creating, at, failed>>
cacheVars == <<size, published, cached, downloading, unpacked, got>>
allVars == <<scenario, vars, layerVars, cacheVars>>

AllInit ==
  /\ scenario \in {"pool", "worker", "living", "layers", "cache"}
  /\ Init
  /\ scenario \in {"pool", "living"} \/ groups = CHOOSE gs \in Configurations : TRUE
  /\ scenario # "layers" => file = [l \in Making!LayerSet |-> "good"]
  /\ Making!Init
  /\ scenario # "cache" => size = [v \in 1 .. Versions |-> [f \in Cache!AllFiles |-> 1]]
  /\ Cache!Init

PoolNext   == scenario = "pool" /\ Next /\ UNCHANGED <<scenario, layerVars, cacheVars>>
AloneNext  ==
  scenario = "worker" /\ WorkerNext /\ UNCHANGED <<scenario, poolVars, layerVars, cacheVars>>
LivingNext == scenario = "living" /\ Next /\ Fortunate /\ UNCHANGED <<scenario, layerVars, cacheVars>>
LayersNext == scenario = "layers" /\ Making!Next /\ UNCHANGED <<scenario, vars, cacheVars>>
CacheNext  == scenario = "cache" /\ Cache!Next /\ UNCHANGED <<scenario, vars, layerVars>>

AllNext == PoolNext \/ AloneNext \/ LivingNext \/ LayersNext \/ CacheNext

AllSpec == AllInit /\ [][AllNext]_allVars

\* The fairness of WorkerPool.
PoolCloses == scenario = "pool" /\ Closes /\ UNCHANGED <<scenario, layerVars, cacheVars>>

AllFairSpec == AllSpec /\ WF_allVars(PoolCloses)

-----------------------------------------------------------------------------
\* A pool that is closed has left nothing of the workers of its schedulers behind,
\* in containerd or beside it, if no process ended by itself and no removal failed
\* (workerpool.go:160, worker.go:316).  The workers of a group whose scheduler a
\* later group of the same runtime replaced are left as they are (:108).
ClosedIsGone == scenario = "living" => NothingLeft

\* Close returns, unless the controller of a worker does not: a process that
\* died before or meanwhile holds nobody up (worker.go:316, :322).
CloseReturns ==
  scenario = "pool" /\ step = "end" ~>
    step \in {"closed", "notClosed"} \/ \E w \in Workers : At(w, "hung")

\* What is committed was unpacked without an error and stands on committed
\* layers: a bad file, a failing call and a crash leave nothing that the next
\* start would take for the layer, unless it could not be unmounted
\* (snapshot.go:150, :158, :169).  A short file gives no error.
LayersAreUnpacked == Making!CommittedIsUnpacked /\ Making!StandsOnLayers

\* When the downloads have succeeded, the layer that is used is what the store
\* answered, be it a page, and the runtime is the one that was downloaded if no
\* file of a version before was longer, whatever starts before failed half way
\* (workerpool.go:270, :284, :318).
CacheIsAnswer == Cache!LayerIsAnswer /\ Cache!RuntimeIsWhole

=============================================================================
