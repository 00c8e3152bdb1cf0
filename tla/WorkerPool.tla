----------------------------- MODULE WorkerPool -----------------------------
(***************************************************************************)
(* The life of a pool (src/invoker/workerpool/workerpool.go): a directory, *)
(* a containerd server of its own and a client of it; for each group of    *)
(* the configuration the layers, workers that are started and activated    *)
(* one after the other, and a scheduler of them, found by its runtime;     *)
(* Close ends the workers (Scheduler.End), then the server.                *)
(*                                                                         *)
(* Abstractions: the workers of a group are ended in the order they were   *)
(* started; the downloads and the layers (RuntimeCache, Snapshots) succeed *)
(* or fail as a whole; what a scheduler does is Scheduler's.               *)
(***************************************************************************)
EXTENDS Worker, Sequences

CONSTANTS
  Configurations, \* the lists of groups it may be given: [runtime, workers]
  Runtimes,   \* names of runtimes
  Contained,  \* the names of runtimes in each kind that a function may have
  PoolFaults  \* "download", "server", "connect", "layers", "client", "signal", "remove"

Kinds == DOMAIN Contained
Size(g) == Len(g.workers)

\* Each worker is in one group, once.
IsConfiguration(gs) ==
  /\ Len(gs) > 0
  /\ \A g \in DOMAIN gs : gs[g].runtime \in Runtimes /\ Size(gs[g]) > 0
  /\ \A w \in Workers : \E g \in DOMAIN gs : \E i \in 1 .. Size(gs[g]) : gs[g].workers[i] = w
  /\ \A g, h \in DOMAIN gs : \A i \in 1 .. Size(gs[g]), j \in 1 .. Size(gs[h]) :
       gs[g].workers[i] = gs[h].workers[j] => g = h /\ i = j

PoolAssumption ==
  /\ Configurations \subseteq Seq([runtime : Runtimes, workers : Seq(Workers)])
  /\ \A gs \in Configurations : IsConfiguration(gs)
  /\ Contained \in [Kinds -> SUBSET Runtimes]
  /\ PoolFaults \subseteq {"download", "server", "connect", "layers", "client", "signal", "remove"}

ASSUME PoolAssumption

VARIABLES
  runDir,     \* whether the pool's directory exists
  server,     \* the containerd server: "none" | "up" | "down"
  client,     \* its client: "none" | "open" | "closed"
  step,       \* where NewWorkerPool, the pool, or Close is
  groups,     \* the configuration: the groups, each with its workers in their order
  group,      \* the group NewWorkerPool is at
  list, cur,  \* the workers it or Close goes through, and the one it is at
  schedulers, \* the workers of the scheduler of each runtime
  left,       \* the runtimes Close has not come to
  workerErr   \* whether ending some worker failed

walkVars == <<groups, group, list, cur, schedulers, left>>
poolVars == <<runDir, server, client, step, walkVars, workerErr>>
vars == <<workerVars, poolVars>>

TypeOK ==
  /\ WorkerTypeOK
  /\ runDir \in BOOLEAN
  /\ server \in {"none", "up", "down"}
  /\ client \in {"none", "open", "closed"}
  /\ step \in {"new", "download", "server", "connect", "layers", "workers", "open", "failed",
               "next", "end", "client", "kill", "remove", "closed", "notClosed"}
  /\ groups \in Configurations
  /\ group \in DOMAIN groups
  /\ list \in Seq(Workers)
  /\ cur \in 1 .. Len(list) + 1
  /\ schedulers \in [Runtimes -> Seq(Workers)]
  /\ left \subseteq Runtimes
  /\ workerErr \in BOOLEAN

Init ==
  /\ WorkerInit
  /\ runDir = FALSE
  /\ server = "none"
  /\ client = "none"
  /\ step = "new"
  /\ groups \in Configurations
  /\ group = 1
  /\ list = <<>> /\ cur = 1
  /\ schedulers = [r \in Runtimes |-> <<>>]
  /\ left = {}
  /\ workerErr = FALSE

-----------------------------------------------------------------------------
\* One call of NewWorkerPool or Close: it is made, or the pool gives up.
Tries(from, fault, to, givesUp) ==
  /\ step = from
  /\ step' \in {to} \cup (IF fault \in PoolFaults THEN {givesUp} ELSE {})

MakeDir ==
  /\ step = "new"
  /\ runDir' = TRUE
  /\ step' = "download"
  /\ UNCHANGED <<workerVars, server, client, walkVars, workerErr>>

\* ensureRuntimes and ensureLayers.
Download ==
  /\ Tries("download", "download", "server", "failed")
  /\ UNCHANGED <<workerVars, runDir, server, client, walkVars, workerErr>>

\* The server gets a process group of its own: a signal to the invoker's
\* group does not reach it.
NewContainerdServer ==
  /\ Tries("server", "server", "connect", "failed")
  /\ server' = IF step' = "connect" THEN "up" ELSE server
  /\ UNCHANGED <<workerVars, runDir, client, walkVars, workerErr>>

Connect ==
  /\ Tries("connect", "connect", "layers", "failed")
  /\ client' = IF step' = "layers" THEN "open" ELSE client
  /\ UNCHANGED <<workerVars, runDir, server, walkVars, workerErr>>

\* NewSnapshotManager and CreateLayerFromBase, for the next group.
MakeLayers ==
  /\ Tries("layers", "layers", "workers", "failed")
  /\ list' = groups[group].workers
  /\ cur' = 1
  /\ UNCHANGED <<workerVars, runDir, server, client, groups, group, schedulers, left, workerErr>>

This == list[cur]

StartWorker ==
  /\ step = "workers" /\ cur <= Len(list)
  /\ \/ Start(This) \/ StartStep(This) \/ Activate(This)
  /\ UNCHANGED poolVars

\* Variant: a failed activation is not told from a good one.
NextWorkerAnyway ==
  /\ step = "workers" /\ cur <= Len(list)
  /\ At(This, "started")
  /\ result[This] = "error" \/ attached[This]
  /\ cur' = cur + 1
  /\ UNCHANGED <<workerVars, runDir, server, client, step, groups, group, list, schedulers, left, workerErr>>

\* The worker is started and activated: the next one's turn.
NextWorker ==
  /\ step = "workers" /\ cur <= Len(list)
  /\ At(This, "started") /\ result[This] = "ok" /\ attached[This]
  /\ cur' = cur + 1
  /\ UNCHANGED <<workerVars, runDir, server, client, step, groups, group, list, schedulers, left, workerErr>>

\* Start or Activate failed: the pool is given up as it stands.
WorkerFails ==
  /\ step = "workers" /\ cur <= Len(list)
  /\ At(This, "started") /\ result[This] = "error"
  /\ step' = "failed"
  /\ UNCHANGED <<workerVars, runDir, server, client, walkVars, workerErr>>

\* schedulers[group.Runtime] = NewScheduler(...): a second group of a runtime
\* takes the place of the first.
NewScheduler ==
  /\ step = "workers" /\ cur = Len(list) + 1
  /\ schedulers' = [schedulers EXCEPT ![groups[group].runtime] = list]
  /\ IF group = Len(groups)
     THEN step' = "open" /\ UNCHANGED group
     ELSE step' = "layers" /\ group' = group + 1
  /\ UNCHANGED <<workerVars, runDir, server, client, groups, list, cur, left, workerErr>>

Scheduled == {r \in Runtimes : schedulers[r] # <<>>}

\* WorkerPool.Run: any scheduler whose runtime is part of the function's kind.
MayRun(kind) == Contained[kind] \cap Scheduled

-----------------------------------------------------------------------------
Close ==
  /\ step = "open"
  /\ step' = "next"
  /\ left' = Scheduled
  /\ UNCHANGED <<workerVars, runDir, server, client, groups, group, list, cur, schedulers, workerErr>>

\* for _, s := range p.schedulers
NextScheduler ==
  /\ step = "next"
  /\ \E r \in left : list' = schedulers[r] /\ left' = left \ {r}
  /\ cur' = 1
  /\ step' = "end"
  /\ UNCHANGED <<workerVars, runDir, server, client, groups, group, schedulers, workerErr>>

\* Scheduler.End: every worker is ended, whatever the others returned.
EndWorker ==
  /\ step = "end" /\ cur <= Len(list)
  /\ End(This) \/ EndStep(This)
  /\ UNCHANGED poolVars

EndedTo == IF cur = Len(list) THEN "next" ELSE "end"

\* Variant: the error of the last worker alone decides.
EndedWorkerLast ==
  /\ step = "end"
  /\ At(This, "ended")
  /\ workerErr' = (result[This] = "error")
  /\ step' = EndedTo /\ cur' = cur + 1
  /\ UNCHANGED <<workerVars, runDir, server, client, groups, group, list, schedulers, left>>

EndedWorker ==
  /\ step = "end"
  /\ At(This, "ended")
  /\ workerErr' = (workerErr \/ result[This] = "error")
  /\ step' = EndedTo /\ cur' = cur + 1
  /\ UNCHANGED <<workerVars, runDir, server, client, groups, group, list, schedulers, left>>

\* An error leaves the server, which still has the workers.
WorkersEnded ==
  /\ step = "next" /\ left = {}
  /\ step' = IF workerErr THEN "notClosed" ELSE "client"
  /\ UNCHANGED <<workerVars, runDir, server, client, walkVars, workerErr>>

CloseClient ==
  /\ Tries("client", "client", "kill", "notClosed")
  /\ client' = IF step' = "kill" THEN "closed" ELSE client
  /\ UNCHANGED <<workerVars, runDir, server, walkVars, workerErr>>

KillServer ==
  /\ Tries("kill", "signal", "remove", "notClosed")
  /\ server' = IF step' = "remove" THEN "down" ELSE server
  /\ UNCHANGED <<workerVars, runDir, client, walkVars, workerErr>>

RemoveDir ==
  /\ Tries("remove", "remove", "closed", "notClosed")
  /\ runDir' = (step' # "closed")
  /\ UNCHANGED <<workerVars, server, client, walkVars, workerErr>>

-----------------------------------------------------------------------------
ProcessExits == \E w \in Workers : Exit(w) /\ UNCHANGED poolVars

NewWorkerPool ==
  MakeDir \/ Download \/ NewContainerdServer \/ Connect \/ MakeLayers \/ StartWorker
    \/ NextWorker \/ WorkerFails \/ NewScheduler

Closes == NextScheduler \/ EndWorker \/ EndedWorker \/ WorkersEnded \/ CloseClient \/ KillServer \/ RemoveDir

Next == NewWorkerPool \/ Close \/ Closes \/ ProcessExits

Spec == Init /\ [][Next]_vars

\* The goroutine of the invoker runs on; that it closes the pool is its choice.
FairSpec == Spec /\ WF_vars(Closes)

-----------------------------------------------------------------------------
(* Properties.                                                             *)

Kept(w) == \E r \in Scheduled : \E i \in DOMAIN schedulers[r] : schedulers[r][i] = w

\* The group of a worker lost its scheduler to a later group of the same runtime.
Replaced(w) ==
  \E g, h \in DOMAIN groups :
    /\ g < h /\ groups[g].runtime = groups[h].runtime
    /\ \E i \in DOMAIN groups[g].workers : groups[g].workers[i] = w

\* The server goes after the processes of all workers but the replaced ones, who
\* are nobody's and outlive it (workerpool.go:108, :169).
ServerLast ==
  server = "down" => \A w \in Workers : task[w] \in {"none", "exited"} \/ Replaced(w)

\* What End can do for a process: none runs of a worker whose End returned no
\* error, whatever failed in its Start and though End stops early when there is
\* nothing to kill (worker.go:316); a worker holds what its End has to kill and
\* delete (worker.go:174); and Close takes the server away after that.  It says
\* nothing of processes nobody calls End for: NewWorkerPool that fails drops the
\* workers it started, and their server (workerpool.go:100, :104).
EndKillsProcess == EndedIsDead /\ TaskIsHeld /\ ServerLast

\* Every variable of the pool has its type, and a pool that opens has every
\* worker, under control: one that could not be started or activated is not
\* left among them (workerpool.go:99, :103).  Each kind that a group is for has a
\* scheduler (workerpool.go:150), and every worker has one, unless two groups
\* have one runtime: then the workers of one are nobody's (workerpool.go:108).
OpensComplete ==
  /\ TypeOK
  /\ step = "open" =>
       /\ \A w \in Workers : attached[w] /\ w \in snapshot \cap container /\ held[w] = Fields
       /\ \A k \in Kinds : MayRun(k) = {groups[g].runtime : g \in DOMAIN groups} \cap Contained[k]
       /\ (\A w \in Workers : Kept(w)) <=>
            \A g, h \in DOMAIN groups : groups[g].runtime = groups[h].runtime => g = h

\* No process ends by itself in this step, and what is removed is gone after it.
Fortunate ==
  \A w \in Workers :
    /\ ~Exit(w)
    /\ DeleteContainer(w) /\ "container" \in held[w] => w \notin snapshot' \cup container'

\* A pool that is closed has left nothing behind, in containerd or beside it, of
\* the workers of its schedulers, but the temporary files with the addresses of
\* the containers (worker.go:154), if all steps were fortunate.  Of a group that
\* was replaced everything is left.
NothingLeft ==
  step = "closed" =>
    /\ ~runDir /\ server = "down" /\ client = "closed"
    /\ \A w \in Workers : ~Replaced(w) =>
         /\ w \notin snapshot \cup container
         /\ task[w] = "none" /\ "streams" \notin held[w]

=============================================================================
