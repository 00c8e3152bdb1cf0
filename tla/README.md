# A TLA+ development of refunction

refunction runs serverless functions in a fixed pool of container processes. A
process loads a function, serves requests for it, and is then *restored* to the
checkpoint taken before the function was loaded, instead of being replaced by a
new container. This directory holds TLA+ models of the program, the TLC
configurations that check them, and theorems checked by TLAPS.

## 1. The system

| Part | Source | State | Operations |
| --- | --- | --- | --- |
| Invoker main loop | `invoker/main.go` | goroutines per activation, a shared `err` | pull, consume (fetch, run, answer), shut down |
| Messages | `invoker/messages` | maps of Kafka readers and writers | `GetActivation`, `SendResult`, `SendCompletion`, pings |
| Function storage | `invoker/storage`, `invoker/types` | LRU cache before CouchDB | `GetFunction`, `StoreActivation`, `CodeString` |
| Worker pool | `invoker/workerpool/workerpool.go` | one scheduler per runtime, a containerd server, downloaded runtimes and layers | `NewWorkerPool`, `Run`, `Close` |
| Scheduler | `invoker/workerpool/scheduler.go` | lists `undeployed`, `deployed`, `running`; run time and function of each worker; one mutex | `Run`, `RunDeployedFunction`, `RunUndeployed`, `RunComplete`, `ScheduleDecommission`, `ForceDecomission`, `End` |
| Worker, snapshots | `worker` | container, task, controller; overlay snapshots | `Start`, `End`, forwards to the controller; `createLayer` |
| Controller | `controller/controller.go` | checkpoints, trace tasks, message channel, streams | `Attach`, `TakeCheckpoint`, `SendFunction`, `SendRequest`, `Restore`, `Detach`, `Stop`, `Continue`, signals |
| Trace task | `controller/ptrace/ptrace.go` | one loop goroutine per traced thread, its order and answer channels, the `SignalStop` slot | stop, continue, detach, run a system call, run a function in the stop |
| Process state | `state` | registers, mappings with their pages, program break | `NewState`, `SaveWritablePages`, `RestoreProgramBreak`, `UnmapNewLocations`, `RestoreDirtyPages`, `RestoreRegs` |
| CRI service | `cri` | map from container to controller; two gRPC servers | start of `main`, `CreateContainer`, `StartContainer`, stops and removals, gRPC `ListContainers`, `SendFunction`, `SendRequest`, `Restore`; the rest delegates |
| Language runtimes | `images/python` and others | whether a function is loaded | load loop, then serve loop |
| funk | `funk` | the file `~/.funkrc` with the address of a service | save the target, one gRPC call per command |

How they interact: the main loop starts a goroutine for each activation read
from Kafka; it fetches the function document, calls `WorkerPool.Run`, and leaves
three goroutines behind that send the result, the completion and the record.
`Run` picks a worker under the scheduler's mutex and talks to its process
through the controller: one JSON message per line on the standard streams,
answered through a channel that a reader goroutine fills. A cold call leaves a
decommission goroutine behind, which restores the worker when it has been idle.
A restore stops every thread of the process through its trace task, has system
calls run inside it, and writes back registers and dirty pages. The CRI service
offers the same controller to remote callers, concurrently.

What is hard here: many goroutines per worker with a short lock that does not
cover the use of the worker; goroutines that know a worker by its name only;
times read outside the lock; channels without timeouts, so that a lost answer
blocks for ever; errors that are dropped or that leave a worker, a thread or a
channel half way; and a restore that relies on counters and dirty bits to know
what has changed. `PROJECT.json` lists these hazards line by line.

What makes each part correct:

* Scheduler: one thread per worker process; a call is answered by its own
  function; a worker is restored between two functions; none is forgotten;
  idle workers are restored in the end; calls return.
* Process state and controller: a restored process is as it was at the first
  checkpoint; a restore that fails says so; threads are running again after it.
* Trace task: an order is answered; a stopped thread is continued; no signal is
  left pending.
* Controller messages: an answer goes to the request it answers.
* Invoker: every consumed activation is answered or found to have failed, beside
  others that fail or hang; an answer agrees with the outcome; a message reaches its
  own topic.
* Worker pool: it opens only complete; what a worker has started its `End` can end;
  what it is made of was downloaded and unpacked without an error, whatever an
  earlier start left half way.
* CRI service: a started container can be used; a list is complete; a call ends the
  service for no new cause. (The controller of a removed container stays in the map,
  so that removal makes nothing unusable but the process.)

## 2. Modules

| Module | What it is |
| --- | --- |
| `Scheduler` | The scheduler of one runtime group, with its properties |
| `WorkerLease` | Abstract specification: what any such scheduler promises |
| `SchedulerRefinement` | The mapping from `Scheduler` to `WorkerLease` |
| `ProcessMemory` | Checkpoint and restore of one traced process: mappings, pages, soft-dirty bits, registers, descriptors |
| `TraceTask` | The trace loops of the threads, and the kernel's stops and signals |
| `Controller` | The operations of a controller over `TraceTask` |
| `ControllerMessages` | The messages between a controller and its program, and the handlers that send commands |
| `Funker` | The commands of `funk` as processes, with a file, a connection and a timeout |
| `CRIService` | The CRI service, from its start to the end of its servers |
| `Invoker` | The invoker's main loop, its cache and its goroutines |
| `MessageProvider` | What the invoker sends and receives with, its start and its Close |
| `Worker`, `WorkerPool` | The life of a worker, and (extending it) of a pool of them |
| `Snapshots`, `RuntimeCache` | The layers and the downloads a pool is made of |
| `MCSchedulerRefinement`, `MCProcessMemory`, `MCController`, `MCControllerMessages`, `MCCRIService`, `MCInvoker`, `MCWorkerPool` | Instances for TLC |
| `ListLemmas`, `SchedulerProofs`, `MemoryProofs`, `ControllerProofs`, `MessagesProofs`, `CRIProofs`, `InvokerProofs`, `PoolProofs` | Lemmas and theorems, proved |

Three modules compose others: `Controller` extends `TraceTask` and takes the
callers' half of its channel operations; `WorkerPool` extends `Worker`;
`SchedulerRefinement` is an instance of `WorkerLease`. Where one module takes a
part of the system as a single step, another models that part: a run of a
worker in `Invoker` is `Scheduler`; a restore in `Scheduler` is `Controller` with
`ProcessMemory`; a send in `Invoker` is `MessageProvider`; a start of a worker in
`WorkerPool` uses `Snapshots`, and its download is `RuntimeCache`; a call of
`Funker` is a handler of `ControllerMessages` and `CRIService`.

An MC module holds several instances of one module, over the same variables,
and a variable `scenario`, fixed at the start, that says which one runs. The
scenarios are part of the properties: a property that holds only for a client
that waits for its answers says so by naming its scenario.

A definition marked "Variant:", or in a section "Deliberately wrong versions", is
used only to confirm that a property can fail: it replaces the definition it is
placed before, one at a time, and TLC then reports the property.

### Scheduler

The three lists are sequences of worker names, which are the numbers
`0 .. PoolSize - 1` as in the code. `function[w]` is `sw.function`. `recent[w]`
says that less than `decommissionTime` has passed since `sw.runTime`; the action
`Age` lets the time pass. (The code writes `runTime` and reads it in the
goroutine without a lock; `time.Since` uses one machine word of it, so the read
gives the old or the new value, as in the model.) The worker's process is
reduced to `loaded[w]`, the function it holds, and `process[w]`: `"up"`, `"dead"`
(a function raised an exception, which ends the Python runtime) or `"closed"`
(its streams were closed by `End`).

A call slot `c` stands for one call of `Run`: `pc[c]` is the next statement of
its goroutine, `at[c]` the worker name it has in hand, `cold[c]` whether it took
the undeployed branch, `answer[c]` the function that answered. `timer[c]` is the
decommission goroutine the call leaves behind, on the worker `at[c]`. One action
is one critical section of `s.mux` or one step outside it:

| `pc` / `timer` | Actions | Code |
| --- | --- | --- |
| `idle` | `Run` | an activation arrives |
| `lookup` | `RunDeployedFunction`, `NotDeployed` | line 66 |
| `claim` | `RunUndeployed`, `NoUndeployed` | lines 79-82, 101-102 |
| `load` | `CodeStringError`, `SendFunction`, `AwaitNotLoaded` | lines 84-90 |
| `mark` | `MarkRunTime` | lines 68, 93 |
| `request` | `SendRequest`, `AwaitNoResponse` | lines 72, 94 |
| `set`, `complete`, `schedule` | `SetFunction`, `RunComplete`, `ScheduleDecommission` | lines 97-99, 75 |
| `evict`, `restore`, `return` | `ForceDecomission`, `ForceRestore`, `ForceReturn` | lines 194-216 |
| `sleep` | `TimerExpired` | lines 145-146 |
| `expired` | `TimerDecommission`, `TimerStillRunning`, `TimerEvicted` | lines 147-176 |
| `restoring`, `returning` | `TimerRestore`, `TimerReturn` | lines 178-187 |
| `hung`, `done` | none: the goroutine waits for ever, or has returned | |

`Faults` names what the environment may do: unusable code, a load that fails, a
function that raises, a restore that fails, and the shutdown. What a fault does
to the process is taken from the controller and the Python runtime: a failed
load leaves the process waiting for a function, so the request that follows is
discarded and never answered; a request sent to a process whose streams are
closed fails, and the code carries on as if it had been served.

### WorkerLease and the refinement

`WorkerLease` knows neither lists nor goroutines. A worker is clean, leased to
one call, ready with a function, resetting, or lost; a call leases one worker at
a time, clean or ready with its own function, is answered by that worker, and
gives it back. `SchedulerRefinement` reads a worker's phase off the lists and
the threads. The shutdown is a part of the promise: once `Close` has taken a
worker away its process answers nothing, and a call that still holds it gives it
back without an answer, as `End` lets it.

### ProcessMemory

The process is a small address space of `NumPages` pages. `areas` are the lines
of `/proc/pid/maps`: a kind (which stands for name and permissions), a first page
and the page after the last. `page` is the content of each page, `dirty` the
pages whose soft-dirty bit is set in `/proc/pid/pagemap`, `regs` the registers of
the traced threads. `checkpoints` is the field of the controller, `saved` the
state `TakeCheckpoint` has in hand, and `pc` the next step of the method that
runs. `files` are the open descriptors, and `Init` is the moment `Activate` has attached
and is about to take its checkpoint.

| `pc` | Actions | Code |
| --- | --- | --- |
| `idle` | `TakeCheckpoint`, `Restore` | stop the threads; read state and writable pages |
| `clear` | `ClearMemRefs` | clear the soft-dirty bits, append, continue |
| `break` | `RestoreProgramBreak`, `ProgramBreakError` | run `brk` in the process |
| `count` | `UnmapNewLocations` | compare the number of mappings, run `munmap` |
| `fixup` | `FixupSyscallState` | after a system call was run in it, a thread runs up to its next one and may write a page |
| `dirty` | `RestoreDirtyPages` | write the dirty pages of saved writable mappings, in `Parallelism` batches per mapping |
| `regs`, `continue` | `RestoreRegs`, `Continue` | registers; the threads go on |

Between these steps the process moves: `Write`, `SetBreak`, `Map`, `Grow`, `Unmap`,
`Compute`, `StartThread`, `OpenOrClose`. The kernel's part of it (`MoveBreak`,
`Cut`, which bits are dirty) is not in this repository, and is modelled from what
`state.go` and `memory.go` read back and rely on. `Behaviours` says what the process
does: a run or a theorem about a well-behaved process excludes the rest. A thread
that `Attach` did not list (`stray`) is not traced, so that it runs on while the
traced ones are stopped: `"early"` if it was there before the first checkpoint had
cleared the dirty bits, `"late"` if it was started after that. An early one can
write a page that `SaveWritablePages` has read and `ClearMemRefs` then marks as
clean: what it writes is neither saved nor dirty.

Abstractions: a `brk` or `munmap` run in the process is atomic; `mprotect`, and a
`munmap` of a part of the heap, do not occur; reading `/proc` does not fail.
Mappings of the kernel's (`[vdso]` and the like) are counted and never unmapped.
Descriptors are recorded by a checkpoint and restored by nothing, as in the code;
resource limits are left out.

### TraceTask and Controller

For each thread, `thread[t]` and `pending[t]` are the kernel's state, `loop[t]` the
place of its loop goroutine, and `slot[t]` the channel `SignalStop`. The channels
`Continue`, `Detach`, `RunSyscall` and `InStopFunction` are unbuffered: loop and
caller take that step together, so an action `Obey...` of `TraceTask` is a conjunct
of an action of `Controller`. A caller has an operation `op`, a `stage` in it, and
the tasks it has still to visit (`todo`), in any order, as a Go map is ranged over.

| Code | Actions |
| --- | --- |
| `ptrace.go`, the loop | `Seize`, `WaitSignal`, `WaitSyscall`, `WaitExit`, `Publish`, `ObeyContinue`, `ObeyDetach`, `ObeySyscall`, `ObeyFunction`, `FailContinue`, `FailDetach` |
| `TraceTask.Stop` | `StopTakes`, `StopSends`, `StopWaited`, `PutBack` |
| `Attach`, `Stop`, `Detach` | `AttachTask`, `AttachDone`, `StopDone`, `DetachTask` |
| `Restore`, `TakeCheckpoint` | `RunSyscall`, `Repair`, `FixupSend`, `FixupDone`, `FunctionSend`, `FunctionRuns`, `FunctionsDone` |
| `Continue`, `ContinueWith` | `ContinueTask`, `ContinueDone` |
| `AwaitSignal`, `PauseAtSignal`, `SendSignalCont` | `TakeMain`, `ContinueTaskMain`, `SendSignal`, `DropStop` |

A Restore writes memory in `Controller` without saying what: that is
`ProcessMemory`, whose threads are stopped throughout a Restore because of
`StoppedWhileWorking` here.

### ControllerMessages and Funker

The pipes `stdin` and `stdout` are sequences of messages, `ahead` is what the
program's buffered input has read, `hand` what the reader goroutine holds and
`chan` the channel of capacity one. A message carries the handler it belongs to,
which the code does not have: with it a property can say whose answer it is. The
program is the Python runtime's load loop and serve loop; a Restore puts its
memory, `ahead` included, back, and leaves pipes, reader and channel as they are.
A handler writes its line (`Write`), drops messages of other types (`AwaitDrops`)
and returns (`AwaitReturns`). Its client may stop waiting (`Timeout`), for a restore
as well, while the handler goes on. `believed` is what the clients take for loaded.
A result may come out as what Go does not read (`"garble"`: `NaN`, or the end of a
line that a function began): the reader drops it, and the command is `lost`, with the
program alive and waiting for the next. A Restore that fails while the process lives
is not in this module; its partial effects are `Controller`'s.

`Funker` has the processes behind such clients: the target file, the connection, the
call, its ten seconds, and Close, which is reached only by a command that succeeded.
The file is truncated when it is opened and written afterwards, from its beginning:
two processes that have both opened it lay one address over the other (`Overlay`), and
`overlapped` remembers that. `served` counts how often each service has carried out
the call of each process.

### CRIService

`control[c]` says how far `StartContainer` has set up the controller of `c`, and
is `"none"` where the map of controllers has no entry. `pc`, `op` and `target` are
the handlers; `writing` are those in the middle of a write to the map: while there
is one, any other use of the map may end the program or not, which is what a Go
program with a data race on a map may do. `boot`, `server` and `exit` are `main`:
its steps, its two gRPC servers, and its end. The callers wait for nothing:
creations run beside each other and beside every other call, and commands may come
before the start of their container, or after its removal. `RemoveContainer` leaves
the controller where it is, as the code does.

### Invoker and MessageProvider

`stage[a]` is the goroutine of activation `a` in `consumeMessage`, `fn[a]` its
function and `doc[a]` the version it has fetched; `err` is the one variable all of
them assign, and `cache` the LRU list. `setting` never changes and says in which
circumstances an invoker runs: what the code of each function is stored as, how
many functions the cache holds, how many activations may be on their way at a time,
and what may fail. A run of a function may fail, and may never return (stage
`"hung"`). A goroutine returns into the shared `err` (`Return`) and looks at it in a
later step (`Check`), as the two statements are in the code: another one may return in
between, which `overwritten` remembers. `main` is the loop with its stop and `puller`
the goroutine that reads the queue.

In `MessageProvider`, `writers` is the map from topic to writer, `storing` the
goroutines in the middle of a write to it, `reader` the one reader with its entry in
a map of its own, `pinger` the loop of the health pings, and `life` the steps of
`main` that make these things and close them. A sender looks the writer up, makes and
stores one if there is none, and writes with the one it has in hand, which sends to the
topic it was made for, may be closed meanwhile, and may report an error of what did
arrive. Two variables are history: `beside` has the pairs of senders of which one
looked while the other was between its look and the end of its store, `late` those
that stored a writer when Close had come to the writers.

### Worker, WorkerPool, Snapshots and RuntimeCache

A worker has a flag for everything containerd keeps of it (snapshot, container,
task, process) and for every field of the struct; `Start` and `End` go through
their calls one by one, each of which may fail. `WorkerPool` adds `step`, the
statement of `NewWorkerPool` or `Close`, the server and its client, the map of
schedulers, and `groups`, the configuration the pool was given. `Replaced(w)` says that
the scheduler of the group of `w` was replaced in that map by a later group of the same
runtime.

`Snapshots` is `createLayer` for several creators at once, with `Crash` between any
two steps; what is committed and mounted survives. (The pool keeps its containerd in
a fresh temporary directory, `workerpool.go:41`, so that a crashed one leaves nothing
to the next; a containerd that is not the pool's own does keep it.) A layer file is
`"good"`, `"bad"` (unpacking stops with an error) or `"short"`: empty, or cut between
two entries, which the tar reader takes for the end, so that the part is committed
without an error (`"cut"`).

`RuntimeCache` unpacks one download over what another left. A file is the sequence of
the versions its parts come from. The answer of the store to a request for a layer may
be the layer, or a page of its own (`Page`): that is an error only if it is shorter
than 150 bytes, or says `AccessDenied` in them, as nothing looks at the HTTP status.
The layer's file is truncated when it is opened; a file of the runtime is written from
its beginning without that, so that one that is shorter than in the version before
keeps its old end.

## 3. What is checked

| Run | Instance | Shows |
| --- | --- | --- |
| `scheduler` | 2 workers, 2 functions, 3 calls, every fault | `ExclusiveWorker`: a worker is named once in the lists and used by one thread; `RightFunction`: a call is answered by its own function; `ProcessContents`: undeployed processes are empty and deployed ones hold what the scheduler thinks; `DeployedHasTimer`: a deployed worker has a goroutine that will restore it; `ImplementsLease` |
| `scheduler_liveness` | the same without faults | `WorkerAccounted`: no worker is forgotten; `IdleDecommissioned`; `CallReturnsUnlessStalled` |
| `memory_any` | 3 pages, every behaviour, untraced threads at any time, one descriptor | `CleanPagesAreSaved`: why writing back dirty pages is enough, but for threads that were there before the checkpoint and are not traced; `SavedPagesRestored`: a restore that no thread disturbs gives back every saved page that is still mapped |
| `memory_added` | 8 pages, break and mappings | `ReturnsToFirstCheckpoint`: what the process has mapped, written and computed is undone, restore after restore |
| `controller` | up to 3 threads, one caller, four scenarios | `SlotHonest`: a stop in `SignalStop` is one the thread is in; `StoppedWhileWorking`: memory is touched only while every thread is stopped; `NobodyLeftBehind`: undisturbed, no thread stays behind and no SIGSTOP stays pending; `OperationsReturn`; `AwaitSignalContinues` |
| `messages` | 5 commands (4 with impatient clients), 2 functions; 3 processes of funk, 2 services | `SerialIsQuiet`: nothing is left on its way between two commands; `OwnAnswer`: an answer goes to its own request; `RunsOnce`: a command runs at most once and one handler gets its answer, whoever gives up; `FunkServedWhereSaved`: funk reports success only of what the service it called did, once, at an address somebody saved unless two wrote the file at a time; `CommandsReturn`: unless the program is gone or its answer could not be read |
| `cri` | 3 containers, 2 of them in refunction pods, 4 handlers | `StartedIsActive`; `ListComplete`; `SetupAdvances`: a controller is set up in order, and what it has is not taken away while its container is there; `CrashHasCause`: a call ends the service beside a creation that writes to the map, in a list while controllers are added, or with a command before the start has returned, and in no other case |
| `invoker` | 3 activations, 2 functions, 2 senders, four scenarios | `NoPanicWithRoom`: what the cache was seen to hold is there, if it has room or activations come one at a time; `TypedAnswersAgree`: the answers are those of the outcome; `FailureIsLogged`: an error is logged unless another outcome overtook it; `EveryActivationSettled`: failing and hanging ones hold no other up; `OneWriter`: a second writer comes only of senders side by side, and Close leaves no other open; `SentToTopic`; `CloseReturns` |
| `worker_pool` | 3 workers, 2 groups, of two runtimes or of one, 2 layers, 2 creators, 2 files, five scenarios | `EndKillsProcess`: `End` leaves no process of its worker, a worker holds what its `End` needs, and the server goes after the processes of the schedulers; `OpensComplete`; `ClosedIsGone`; `CloseReturns`; `LayersAreUnpacked`: what is committed was unpacked without an error, on committed layers; `CacheIsAnswer`: what is used is what the store answered |
| `scheduler_run_again` | violated | the test "does not move if the function is run again" does not hold of every interleaving |
| `memory_grown` | violated | "leaves all memory the same as it was after restore": a saved mapping that has grown downwards is taken for a new one and unmapped |
| `invoker_evicts` | 3 activations, a cache for one function: `NeverPanics` violated | "Fetch required function": an entry evicted between `Contains` and `Get` ends the invoker |

`TypeOK` is checked in `scheduler` and `memory_any`, and within a property of most
other runs.

### The bounds

Scheduler: with three calls one deploys, one evicts or hits, and the third meets
both; the first worker can be deployed again while the goroutine of its first
deployment is still alive. A call slot is used once; that is the only bound on the
behaviours. `Quiescent` stands for the state in which no call is left, so that
TLC's deadlock check finds every other state without a successor. Calls and
functions are symmetric in the run without liveness.

Memory: eight pages are enough for a heap of one page with a page to grow into, a
mapping of three pages, which two batches divide unevenly (the code has eight
batches; the theorems hold for any number), code, a mapping of the kernel's, and
room to map, merge and split. In the three of `memory_any` a stack of two pages
loses one or both, grows back, and gives its room to the break and to mappings; in
the six of `memory_grown` each mapping has room below it. Contents and registers
have two values.

Controller: two threads are enough for one that is done while another is not, and
three for one of each kind; signals from outside and ends of threads come with two.
A signal is SIGSTOP or one other.

Messages: five commands are an activation, a load, a request, a restore and one
more, so that something of the life before a restore could reach the life after it;
four with two clients that overlap and give up. Three processes of funk are two that
write the target file beside each other and one that reads it; the address of
nothing, laid over that of one service, gives that of the other. CRI: two containers
with a controller and one without, and four calls, two of which can be setting one
up while one lists and one sends a command. Invoker: three activations of two
functions meet in a cache of two, and two in a cache of one. Two senders are the two
of one activation, or one of them and a ping; the theorems are for any number of
them. Pool: two groups, one with two workers, so that one worker is left when
another has failed; two versions of two files of up to three parts, so that one
grows and another shrinks.

### Where the system may stop

The runs of the scheduler and of memory check for deadlock. The others do not
(`CHECK_DEADLOCK FALSE`), because there the system may really stop: every command is
done, the program is dead, the service has exited, the pool is closed.

### Fairness

`scheduler_liveness`: every goroutine that can take a step takes one, and time
passes. Go runs every runnable goroutine, and its mutex hands itself to a waiter
that has waited long. A step of `ForceDecomission` is fair only while `deployed`
stays non-empty: its poll every 100 ms may miss a worker that is deployed for a
shorter time. There are no faults, because with them calls hang by design of the
code (see the hazards). The second disjunct of `CallReturnsUnlessStalled` is real: a
call finds `undeployed` empty, the goroutine of the last deployed worker decommissions
it before the call looks at `deployed`, and from then on the call reads only
`deployed`, which stays empty until another call deploys a worker.

`controller`: weak for the caller, for each loop and for a thread's next system
call; strong for the delivery of a signal, since a signal that is pending is
delivered once the thread runs, however often it is stopped in between.
`OperationsReturn` is for the scenarios without deaths: a caller that waits for a
loop that has ended waits for ever.

`messages`: weak for the program, the reader and each handler; strong for the end of
a computation, which may print any number of times before it returns, but does
return. `invoker`: weak for each goroutine, but for the run of a function, which may
end in a state without a step (`"hung"`). `worker_pool`: weak for the steps of
Close, not for the end of a process, which nobody promises.

## 4. What is proved

Every property of a passing run is also a theorem, but for liveness. A theorem is
for all values of the constants that satisfy the assumption of its module, and for
any choice of faults unless it says otherwise. An MC module holds several scenarios.
A theorem about its specification is for any size of them; the values that make a
scenario what its name says (one client that waits, one caller) are a hypothesis of
the theorem, and come from the configuration of the run. Where the component's own
specification is more general the theorem is about that one.

### Scheduler (`SchedulerProofs`, with `ListLemmas` on sequences)

* `TypeCorrect`: `Spec => []TypeOK`. `TypeOK` includes that a thread that has
  chosen a worker has a worker's name in hand; without that it would not be
  inductive, because names are appended to the lists from `at`.
* `Exclusive`: `Spec => []ExclusiveWorker`. It has four parts, and none is inductive
  alone: the lists are disjoint because a thread gives back a worker no list names
  (`RestoringIsUnlisted`) or one that it removes from `running`
  (`ServingIsRunning`); these hold because no two threads hold the same worker
  (`OneHolder`); and that holds because a thread takes a worker from a list, whose
  members no thread holds.
* `Contents`: `Spec => []ProcessContents`, and `Answers`: `Spec =>
  []RightFunction`. Both follow from `ContentsInv`, which says what a call knows
  of its worker's process at every point of `Run`.
* `HaveTimers`: `Spec => []DeployedHasTimer`. `TimerInv` adds that a worker about to
  be listed as deployed has a call that will start the goroutine.
* `Accounted`: `Spec => []WorkerAccounted`. `AccountInv` adds that a worker in no
  list is in the hands of a thread.
* `Implements`: `Spec => Lease!Spec`, the refinement with the shutdown. `LeaseInv`
  joins the invariants above, `PhasesTold` turns them into the phase of each
  worker, and each action maps to one action of `WorkerLease` or to none.

### Memory (`MemoryProofs`)

* `TypeCorrect`: mappings never overlap. Inductive with `ImagesOK`: the mappings of
  a checkpoint do not overlap either.
* `CleanPagesSaved`: `Spec => []CleanPagesAreSaved`, of executions in which no untraced
  thread was there before the checkpoint (`stray # "early"`); one that was can write
  between the reading of a page and the clearing of its bit, and TLC finds the property
  without that condition violated. Every step has the property
  `KeepsClean`: a page that is mapped and clean after it was so before, with the
  same content. What remains is that the pages read by `TakeCheckpoint` are still
  there when `ClearMemRefs` clears the bits. Threads that start later are covered: what
  they write is dirty.
* `PagesAreRestored`: `Spec => []SavedPagesRestored`, with at most one checkpoint
  and no untraced thread (`OneCheckpoint`). A dirty page is written because it is in
  a batch (`BatchesCover`: integer division with the remainder in the last batch
  leaves out no page), a clean one because of the theorem before.
* `RestoreReturns`: `Spec => []ReturnsToFirstCheckpoint`, if the process besides
  only moves its break and maps memory of its own (`OnlyAdds`). `ReturnInv` follows
  the steps of `Restore`: saved mappings but the heap are never lost; when the break
  is back the heap is the saved one; then either the number of mappings is equal,
  and a finite set with a subset of its own size is that subset, or those that are
  not new are exactly the saved ones.

### Controller (`ControllerProofs`), for any number of threads

* `TypeCorrect`, for any number of callers. The rest is for one (`OneCaller`), which
  is how the scheduler uses a controller: two callers take each other's stops, as
  section 5 says.
* `SlotsAreHonest`: `Spec => []SlotHonest`, with signals from outside and threads
  that end. `StopsAreTrue` follows a stop from the kernel through the loop's hands
  into `SignalStop` and into those of the caller that takes it.
* `StoppedThroughout`: `Spec => []StoppedWhileWorking`, however earlier operations
  failed. `StopsEverything` has two parts. The threads that `Stop` has visited are
  stopped or gone, and so are all of them from there to `Continue` (`Progress`). And
  when a `Detach` that broke off has let some threads go (`LetGo`), a thread that is
  gone, and whose loop has ended, stands in the way of every further operation.
* `LeavesNothingBehind` and, for the scenario of the run, `NobodyIsLeftBehind`
  (`NobodyLeftBehind`): when nothing else sends signals or ends threads
  (`QuietAssumption`). `InStep` pairs the loop of each thread with the place where
  the caller is; without the assumption it is false, as a stop ordered while another
  signal arrives leaves a SIGSTOP pending.

### Messages (`MessagesProofs`)

* `TypeCorrect`, and `Once` (`RunsOnce`), whoever gives up, by counting: the places
  that hold a line of one command, in the pipes, in the program's memory, with the
  reader, in the channel and among the replies, are one at most, because every step
  moves a line or loses it (`PlacesShrink`) and only its own handler adds it, once
  (`WriteOnce`).
* For a client that waits for each answer (`Serial`: one client, nobody gives up,
  streams attached in time): `Quiet` (`QuietBetweenCommands`), `Belief`
  (`BeliefIsTrue`) and `Own` (`AnswersItsOwn`). `SerialInv` says that there is one
  command, that it is in one place as the line it wrote or as its answer, that
  everything else is empty but for what functions print, and in which loop the
  program is. `ScenarioIsQuiet` and `ScenarioAnswersItsOwn` carry them over to the
  properties of the run.
* `FunkServes` (`FunkServedWhereSaved`): `FunkInv` says that an address in the file
  was saved by a process as long as no two have had the file open for writing at a
  time, that a call is on its way, or was carried out once by the one service it is
  for, and that a process which goes on to Close has its success. The file is empty
  when it has been opened, and nothing listens at an empty address. Of addresses laid
  over each other the theorem says that success was still success, of the service at
  the address that was read; not that anybody saved that one.

### CRI service (`CRIProofs`), for any number of containers and handlers

* `TypeCorrect`, `Started` (`StartedIsActive`), `Advances` (`SetupAdvances`) and
  `Lists` (`ListComplete`), whatever the callers do. `CallsInv` says of each container
  that it has one creator at most, that its controller is made only after containerd
  has it, and where its `StartContainer` is; `Listing` that a list has no more
  entries than the map had when it began.
* `CrashesHaveCauses` (`CrashHasCause`), with nothing assumed of the callers:
  `Crashing` takes the steps that can end the service one by one, and the invariant
  says of each handler in the middle of a write that it is a creation, of each list
  that the map has outgrown its slice only if a controller was added since it began,
  and of each container whose start has returned that its streams are there.

### Invoker (`InvokerProofs`), for any finite sets of activations and functions

They are finite because the code counts them: the activations on their way, and the
functions against the room in the cache.

* `AnswersAlwaysAgree` (`TypedAnswersAgree`), `FailuresAreLogged`
  (`FailureIsLogged`) and `RoomyNeverPanics` (`NoPanicWithRoom`) are theorems of
  `Invoker!Spec`, for any setting. One invariant carries them, `InvokerInv`. An
  activation is in one place (`QueueInv`: the queue is injective), or a second
  goroutine would answer it again. The cache names no function twice (`CacheInv`),
  so that it has no more entries than there are functions, by the pigeonhole
  principle (`RoomForAll`), and evicts nothing if it has room for them. Of an
  activation at `check` `ErrInv` says that `err` has what it has left there, or that
  it is among the `overwritten`, for any number of activations beside each other.
  When they come one at a time (`AloneInv`), no other evicts what one has seen in
  the cache (`RoomInv`).
* `SendsToTopic` (`SentToTopic`) and `HasOneWriter` (`OneWriter`) are theorems of
  `Provider!Spec`, for any number of senders beside each other. `SendersInv` says that
  a writer in the map, or in a sender's hands, was made by one that had the same topic.
  `MakersInv`: once a writer is stored its topic always has one, so that only those that
  looked before make another. `CloseInv`: Close finds every writer but those that were
  replaced or stored late.
* `ScenariosAreExecutions`: every scenario of the runs is an execution of both.

### Worker pool (`PoolProofs`), for any groups and workers, layers, creators, files

* `LayersStayUnpacked` (`LayersAreUnpacked`). `OneMaker`: a snapshot in the making
  belongs to one creator, by containerd's keys; `StillMounted`: what is committed
  and was not unpacked without an error is mounted still, by a creator that is past
  it; `StandsInv`: layers are committed from below. It says nothing of what a short
  file held.
* `DownloadsAreAnswers` (`CacheIsAnswer`). The layer's file is what the store
  answered, be it a page. For the runtime `NothingSticksOut`: if files only grow
  (`Grows`, a hypothesis in the property), none in the cache is longer than in the
  version that is unpacked over it; `UnpackedIsWhole`: what has been unpacked by now
  is of that version.
* `EndKillsProcesses` (`EndKillsProcess`) and `PoolOpensComplete` (`OpensComplete`).
  `WorkerInv` says of each worker what containerd and the struct hold of it at every
  point of `Start` and `End`. `Opens` that the workers of the groups that were made
  are started, and under control, and that a scheduler is that of the last such group
  of its runtime; from which a worker is in a scheduler or replaced (`KeptOrReplaced`).
  `Ends` says that the workers of the schedulers Close has
  passed are ended. The server goes down only after a walk without an error, in
  which every worker of a scheduler was therefore ended. Of the workers that a failed
  `NewWorkerPool` drops (`workerpool.go:100`, `:104`) the theorem says that they hold
  their tasks, and no more: they run on, and nobody calls `End` for them.
* `ClosedPoolIsGone` (`ClosedIsGone`): if no process ends by itself and what is
  removed goes, and of the workers that no group of the same runtime has replaced.
  `FortunateInv` says that then a worker keeps its container and task
  until `End` removes them.

The assumption on groups (`PoolAssumption`) is what a sensible configuration gives: a
worker is made by one group, and no group is empty. The second is not enforced:
`GroupConfig.Size` is an integer nobody looks at, and a group of size zero gets a
scheduler without workers, every call of which waits for ever.

### What stays with TLC

Liveness: `IdleDecommissioned`, `CallReturnsUnlessStalled`, `OperationsReturn`,
`AwaitSignalContinues`, `CommandsReturn`, `EveryActivationSettled` and the two
`CloseReturns`, because liveness under fairness is out of the prover's reach. The
three properties that a run shows violated have no theorem, of course. Nothing else
is only model-checked.

## 5. What is not modelled

* Generated protobuf stubs, counterfeiter fakes, cJSON, the images and helpers of
  the tests, and the worker that runs without containerd (`localworker.go`): no
  logic of this system.
* The other language runtimes: the same two loops as the Python runtime's.
* CRI requests that only ask, and those passed on to containerd without touching a
  controller; the configuration of the containerd server.
* The defaults and JSON fields of the documents, the answer built of them
  (`GenerateResponse`), the list `funk` prints, and the text of the strace output:
  data that no property reads.
* Resource limits, which a checkpoint records and nothing restores, and the counting
  and printing of pages, which is for the tests.

Some behaviour of the code is modelled, and is no property of a run, because nothing
in the repository says that it should be otherwise or because a property is stated
for the case without it:

* Memory: descriptors opened after the checkpoint stay open; after a second
  checkpoint the pages written between the two are not restored; a thread that
  `Attach` did not list runs, and writes, during a restore, and during the checkpoint.
* Scheduler: a goroutine of an earlier deployment meets a worker again that is being
  evicted, where a comment says "Must still be running"; a stale goroutine restores
  the next deployment.
* Controller: a caller waits for ever for a loop that has ended; two callers of one
  controller take each other's stops; a stop ordered while another signal arrives
  leaves a SIGSTOP that a later detach passes on.
* Messages: with clients that give up, a late handler takes the answer of another; a
  program that prints "started" before its streams are attached is never activated; a
  response that Go cannot read leaves its command waiting; two commands `funk target`
  beside each other leave an address that neither gave.
* CRI: a write to the map beside another use of it, an entry added during a list, and a
  command before the start end the service; a removed container stays in the map.
* Invoker: two first messages on a topic make two writers, one of which stays open;
  a goroutine's error is replaced by the outcome of another; an activation whose
  function hangs stays for ever; a cached function stays at the version it was
  fetched at; a stop drops what is in flight; a connection stays open when a topic
  cannot be made, as one of `funk` does when its call fails.
* Pool: with two groups of one runtime the workers of the first are never used, nor
  ended; the workers and the server of a `NewWorkerPool` that fails run on; a page
  of the store is taken for a layer, and a short layer file for a whole one; the
  temporary file with a container's address is never removed.

A function that prints a JSON object of its own on its standard output can be taken for
an answer: what functions print is no message in `ControllerMessages`, but for the end
of a line that spoils one.
