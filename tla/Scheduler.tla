----------------------------- MODULE Scheduler -----------------------------
(***************************************************************************)
(* The scheduler of one runtime group of the invoker                       *)
(* (src/invoker/workerpool/scheduler.go).  A fixed pool of worker          *)
(* processes serves calls; a worker that has run a function keeps it       *)
(* loaded until it has been idle for decommissionTime, or until a call for *)
(* another function needs its place, and is then restored to its clean     *)
(* checkpoint.                                                             *)
(*                                                                         *)
(* Three kinds of threads share the three worker lists: the goroutine of   *)
(* each call (Run), the decommission goroutine a cold call leaves behind   *)
(* (ScheduleDecommission), and the shutdown (End).  One action is one      *)
(* critical section of s.mux, or one step taken outside it: everything     *)
(* between two of them can be interleaved with any other thread.           *)
(*                                                                         *)
(* Abstractions: a call slot is used once; runTime is reduced to whether   *)
(* less than decommissionTime has passed since it was set; the worker      *)
(* process (src/images/python/refunction.py behind the controller) is      *)
(* reduced to the function it holds and to whether it still answers.       *)
(***************************************************************************)
EXTENDS Naturals, Sequences, SequencesExt

CONSTANTS
  PoolSize,   \* number of workers of the group (GroupConfig.Size)
  Functions,  \* function documents, named by their ID
  Calls,      \* call slots: each is one activation handed to Run
  None,       \* the ID of no function
  Faults      \* the failures the environment may inject, see FaultKinds

\* "code": the document's code is unusable    "load": the code does not load
\* "raise": the function raises an exception  "restore": a restore fails
\* "end": the invoker shuts down
FaultKinds == {"code", "load", "raise", "restore", "end"}

ASSUME ConstantsAssumption ==
  /\ PoolSize \in Nat
  /\ None \notin Functions \cup Calls
  /\ Faults \subseteq FaultKinds

\* Worker IDs are the decimal indices 0 .. Size-1 (workerpool.go).
Workers == 0 .. PoolSize - 1

VARIABLES
  undeployed, deployed, running,  \* the lists of worker names, under s.mux
  function,                       \* sw.function of each worker
  recent,                         \* time.Since(sw.runTime) < decommissionTime
  loaded,                         \* the function in the worker's process
  process,                        \* "up" | "dead" | "closed"
  pc,                             \* where the goroutine of each call is
  fn,                             \* the function the call is for
  at,                             \* the worker name the call has in hand
  cold,                           \* the call took the undeployed branch
  answer,                         \* the function that answered the call
  timer                           \* the decommission goroutine of the call

lists   == <<undeployed, deployed, running>>
workers == <<function, recent>>
procs   == <<loaded, process>>
locals  == <<fn, at, cold, answer>>
vars    == <<lists, workers, procs, pc, locals, timer>>

TypeOK ==
  /\ undeployed \in Seq(Workers)
  /\ deployed \in Seq(Workers)
  /\ running \in Seq(Workers)
  /\ function \in [Workers -> Functions \cup {None}]
  /\ recent \in [Workers -> BOOLEAN]
  /\ loaded \in [Workers -> Functions \cup {None}]
  /\ process \in [Workers -> {"up", "dead", "closed"}]
  /\ pc \in [Calls -> {"idle", "lookup", "claim", "load", "mark", "request",
                       "set", "complete", "schedule", "evict", "restore",
                       "return", "hung", "done"}]
  /\ fn \in [Calls -> Functions \cup {None}]
  /\ at \in [Calls -> Workers \cup {PoolSize}]   \* PoolSize: no worker yet
  /\ cold \in [Calls -> BOOLEAN]
  /\ answer \in [Calls -> Functions \cup {None}]
  /\ timer \in [Calls -> {"none", "sleep", "expired", "restoring",
                          "returning", "gone"}]
  /\ \A c \in Calls :
       /\ timer[c] # "none" => pc[c] = "done"
       /\ \/ pc[c] \in {"load", "mark", "request", "set", "complete",
                      "schedule", "restore", "return", "hung"}
          \/ timer[c] # "none"
          => at[c] \in Workers

\* NewScheduler: every worker undeployed, in the order of the group.
Init ==
  /\ undeployed = [i \in 1 .. PoolSize |-> i - 1]
  /\ deployed = << >>
  /\ running = << >>
  /\ function = [w \in Workers |-> None]
  /\ recent = [w \in Workers |-> FALSE]
  /\ loaded = [w \in Workers |-> None]
  /\ process = [w \in Workers |-> "up"]
  /\ pc = [c \in Calls |-> "idle"]
  /\ fn = [c \in Calls |-> None]
  /\ at = [c \in Calls |-> PoolSize]
  /\ cold = [c \in Calls |-> FALSE]
  /\ answer = [c \in Calls |-> None]
  /\ timer = [c \in Calls |-> "none"]

----------------------------------------------------------------------------
(* Helpers *)

Goto(c, from, to) ==
  /\ pc[c] = from
  /\ pc' = [pc EXCEPT ![c] = to]

TimerGoto(c, from, to) ==
  /\ timer[c] = from
  /\ timer' = [timer EXCEPT ![c] = to]

----------------------------------------------------------------------------
(* Deliberately wrong versions of definitions below.  No specification uses *)
(* them: each is put in place of the definition it is named after to show   *)
(* that a property can fail.                                                *)

\* The first deployed worker is taken, whatever function it holds.
FindsFunctionAny(f, i) == i = 1

\* The comparison with decommissionTime the wrong way round.
DecommissionDueInverted(w) == recent[w]

\* Decomission always takes the early return it has for tests.
DecomissionOKNoRestore(w) ==
  /\ process[w] = "up"
  /\ UNCHANGED loaded

\* The worker's name is stored instead of the function's ID.
SetFunctionToName(c) ==
  /\ Goto(c, "set", "complete")
  /\ function' = [function EXCEPT ![at[c]] = at[c]]
  /\ UNCHANGED <<lists, recent, procs, locals, timer>>

\* The search of running ends with the default index.
RunCompleteFirst(c) ==
  /\ Goto(c, "complete", IF cold[c] THEN "schedule" ELSE "done")
  /\ running' = Tail(running)
  /\ deployed' = Append(deployed, at[c])
  /\ UNCHANGED <<undeployed, workers, procs, locals, timer>>

\* The worker to evict is read from deployed and left there.
ForceDecomissionKeeps(c) ==
  /\ Goto(c, "evict", "restore")
  /\ deployed # << >>
  /\ at' = [at EXCEPT ![c] = Head(deployed)]
  /\ UNCHANGED <<lists, workers, procs, fn, cold, answer, timer>>

\* The evicted worker is not given back.
ForceReturnForgets(c) ==
  /\ Goto(c, "return", "lookup")
  /\ UNCHANGED <<lists, workers, procs, locals, timer>>

\* The goroutine returns although its worker is still running.
TimerStillRunningReturns(c) ==
  /\ TimerGoto(c, "expired", "gone")
  /\ at[c] \notin ToSet(deployed)
  /\ at[c] \notin ToSet(undeployed)
  /\ UNCHANGED <<lists, workers, procs, pc, locals>>

----------------------------------------------------------------------------
(* What the loops and conditions of the code find *)

\* A loop over a list that stops at the first entry naming w stops at i.
Finds(s, w, i) == s[i] = w /\ \A j \in 1 .. i - 1 : s[j] # w

\* The loop of RunDeployedFunction stops at position i for function f.
FindsFunction(f, i) ==
  /\ function[deployed[i]] = f
  /\ \A j \in 1 .. i - 1 : function[deployed[j]] # f

\* The condition on which the decommission goroutine stops sleeping.
DecommissionDue(w) == ~ recent[w]

\* Decomission: Restore puts the process back before the function was loaded.
\* It fails on a process that is gone, and can fail on its own account.
DecomissionOK(w) ==
  /\ process[w] = "up"
  /\ loaded' = [loaded EXCEPT ![w] = None]

DecomissionError(w) ==
  /\ process[w] # "up" \/ "restore" \in Faults
  /\ UNCHANGED loaded

----------------------------------------------------------------------------
(* The goroutine of a call *)

\* An activation for function f reaches Run.
Run(c, f) ==
  /\ Goto(c, "idle", "lookup")
  /\ fn' = [fn EXCEPT ![c] = f]
  /\ UNCHANGED <<lists, workers, procs, at, cold, answer, timer>>

\* RunDeployedFunction finds a deployed worker with the function and moves it
\* to running, in one critical section.
RunDeployedFunction(c) ==
  /\ Goto(c, "lookup", "mark")
  /\ \E i \in DOMAIN deployed :
       /\ FindsFunction(fn[c], i)
       /\ deployed' = RemoveAt(deployed, i)
       /\ running' = Append(running, deployed[i])
       /\ at' = [at EXCEPT ![c] = deployed[i]]
  /\ cold' = [cold EXCEPT ![c] = FALSE]
  /\ UNCHANGED <<undeployed, workers, procs, fn, answer, timer>>

\* RunDeployedFunction finds none: the lock is released before Run takes it
\* again to look at undeployed.
NotDeployed(c) ==
  /\ Goto(c, "lookup", "claim")
  /\ \A i \in DOMAIN deployed : function[deployed[i]] # fn[c]
  /\ UNCHANGED <<lists, workers, procs, locals, timer>>

\* RunUndeployed: the head of undeployed moves to running.
RunUndeployed(c) ==
  /\ Goto(c, "claim", "load")
  /\ undeployed # << >>
  /\ undeployed' = Tail(undeployed)
  /\ running' = Append(running, Head(undeployed))
  /\ at' = [at EXCEPT ![c] = Head(undeployed)]
  /\ cold' = [cold EXCEPT ![c] = TRUE]
  /\ UNCHANGED <<deployed, workers, procs, fn, answer, timer>>

\* Nothing undeployed: Run gives up the lock and calls ForceDecomission.
NoUndeployed(c) ==
  /\ Goto(c, "claim", "evict")
  /\ undeployed = << >>
  /\ UNCHANGED <<lists, workers, procs, locals, timer>>

\* CodeString fails: Run returns, and the worker stays in running.
CodeStringError(c) ==
  /\ "code" \in Faults
  /\ Goto(c, "load", "done")
  /\ UNCHANGED <<lists, workers, procs, locals, timer>>

\* SendFunction, whose error Run ignores: a process in its load loop loads the
\* function, or reports that it does not load and waits for another; closed
\* streams give an error.
SendFunction(c) ==
  LET w == at[c] IN
  /\ Goto(c, "load", "mark")
  /\ \/ /\ process[w] = "up" /\ loaded[w] = None
        /\ loaded' = [loaded EXCEPT ![w] = fn[c]]
     \/ /\ process[w] = "up" /\ loaded[w] = None /\ "load" \in Faults
        /\ UNCHANGED loaded
     \/ /\ process[w] = "closed"
        /\ UNCHANGED loaded
  /\ UNCHANGED <<lists, workers, process, locals, timer>>

\* SendFunction never returns: a process that already serves a function
\* ignores the message, and a process that ended after the write is silent.
AwaitNotLoaded(c) ==
  /\ Goto(c, "load", "hung")
  /\ process[at[c]] # "up" \/ loaded[at[c]] # None
  /\ UNCHANGED <<lists, workers, procs, locals, timer>>

\* MarkRunTime, outside the lock.
MarkRunTime(c) ==
  /\ Goto(c, "mark", "request")
  /\ recent' = [recent EXCEPT ![at[c]] = TRUE]
  /\ UNCHANGED <<lists, function, procs, locals, timer>>

\* SendRequest returns: with the answer of the function the process holds, or
\* with an error when the streams are closed.
SendRequest(c) ==
  LET w == at[c] IN
  /\ Goto(c, "request", IF cold[c] THEN "set" ELSE "complete")
  /\ \/ /\ process[w] = "up"
        /\ loaded[w] # None
        /\ answer' = [answer EXCEPT ![c] = loaded[w]]
     \/ /\ process[w] = "closed"
        /\ UNCHANGED answer
  /\ UNCHANGED <<lists, workers, procs, fn, at, cold, timer>>

\* SendRequest never returns: the process holds no function and discards the
\* request, the function raises and takes the process with it, or the streams
\* closed after the request was written.
AwaitNoResponse(c) ==
  LET w == at[c] IN
  /\ Goto(c, "request", "hung")
  /\ \/ /\ process[w] = "up"
        /\ loaded[w] = None
        /\ UNCHANGED process
     \/ /\ process[w] = "up"
        /\ loaded[w] # None
        /\ "raise" \in Faults
        /\ process' = [process EXCEPT ![w] = "dead"]
     \/ /\ process[w] # "up"
        /\ UNCHANGED process
  /\ UNCHANGED <<lists, workers, loaded, locals, timer>>

\* SetFunction on the cold path, before the worker can be found as deployed.
SetFunction(c) ==
  /\ Goto(c, "set", "complete")
  /\ function' = [function EXCEPT ![at[c]] = fn[c]]
  /\ UNCHANGED <<lists, recent, procs, locals, timer>>

\* RunComplete removes the worker from running (its first entry there; the
\* first entry of the list if the name is not found) and appends it to
\* deployed.
RunComplete(c) ==
  /\ Goto(c, "complete", IF cold[c] THEN "schedule" ELSE "done")
  /\ \E i \in DOMAIN running :
       /\ IF at[c] \in ToSet(running) THEN Finds(running, at[c], i) ELSE i = 1
       /\ running' = RemoveAt(running, i)
  /\ deployed' = Append(deployed, at[c])
  /\ UNCHANGED <<undeployed, workers, procs, locals, timer>>

\* ScheduleDecommission starts the goroutine of the worker and Run returns.
ScheduleDecommission(c) ==
  /\ Goto(c, "schedule", "done")
  /\ TimerGoto(c, "none", "sleep")
  /\ UNCHANGED <<lists, workers, procs, locals>>

\* ForceDecomission takes the head of deployed.  While deployed is empty it
\* polls it again every 100 ms, and looks at nothing else.
ForceDecomission(c) ==
  /\ Goto(c, "evict", "restore")
  /\ deployed # << >>
  /\ deployed' = Tail(deployed)
  /\ at' = [at EXCEPT ![c] = Head(deployed)]
  /\ UNCHANGED <<undeployed, running, workers, procs, fn, cold, answer, timer>>

\* The restore of a forced decommission, outside the lock.  On an error the
\* worker is in no list any more, and Run starts over.
ForceRestore(c) ==
  /\ \/ /\ Goto(c, "restore", "return")
        /\ DecomissionOK(at[c])
     \/ /\ Goto(c, "restore", "lookup")
        /\ DecomissionError(at[c])
  /\ UNCHANGED <<lists, workers, process, locals, timer>>

\* The restored worker is appended to undeployed, and Run starts over.
ForceReturn(c) ==
  /\ Goto(c, "return", "lookup")
  /\ undeployed' = Append(undeployed, at[c])
  /\ UNCHANGED <<deployed, running, workers, procs, locals, timer>>

----------------------------------------------------------------------------
(* The decommission goroutine a cold call started, on the worker at[c] *)

\* It wakes and finds the last run old enough.  This is decided before the
\* lock is taken.  (Waking too early only sends it back to sleep.)
TimerExpired(c) ==
  /\ TimerGoto(c, "sleep", "expired")
  /\ DecommissionDue(at[c])
  /\ UNCHANGED <<lists, workers, procs, pc, locals>>

\* Under the lock: the worker is taken out of deployed.
TimerDecommission(c) ==
  /\ TimerGoto(c, "expired", "restoring")
  /\ \E i \in DOMAIN deployed :
       /\ Finds(deployed, at[c], i)
       /\ deployed' = RemoveAt(deployed, i)
  /\ UNCHANGED <<undeployed, running, workers, procs, pc, locals>>

\* Under the lock: neither deployed nor undeployed, so the goroutine sleeps on.
TimerStillRunning(c) ==
  /\ TimerGoto(c, "expired", "sleep")
  /\ at[c] \notin ToSet(deployed)
  /\ at[c] \notin ToSet(undeployed)
  /\ UNCHANGED <<lists, workers, procs, pc, locals>>

\* Under the lock: the worker is undeployed already, the goroutine returns.
TimerEvicted(c) ==
  /\ TimerGoto(c, "expired", "gone")
  /\ at[c] \notin ToSet(deployed)
  /\ at[c] \in ToSet(undeployed)
  /\ UNCHANGED <<lists, workers, procs, pc, locals>>

\* The restore of a timed decommission, outside the lock.  On an error the
\* goroutine returns and the worker is in no list any more.
TimerRestore(c) ==
  /\ \/ /\ TimerGoto(c, "restoring", "returning")
        /\ DecomissionOK(at[c])
     \/ /\ TimerGoto(c, "restoring", "gone")
        /\ DecomissionError(at[c])
  /\ UNCHANGED <<lists, workers, process, pc, locals>>

\* The restored worker is appended to undeployed, and the goroutine returns.
TimerReturn(c) ==
  /\ TimerGoto(c, "returning", "gone")
  /\ undeployed' = Append(undeployed, at[c])
  /\ UNCHANGED <<deployed, running, workers, procs, pc, locals>>

----------------------------------------------------------------------------
(* Time and shutdown *)

\* decommissionTime passes since the last MarkRunTime of w.
Age(w) ==
  /\ recent[w]
  /\ recent' = [recent EXCEPT ![w] = FALSE]
  /\ UNCHANGED <<lists, function, procs, pc, locals, timer>>

\* End ends the workers in the order of a map, and takes no lock: the lists
\* keep them, and the goroutines of calls and timers go on.
End(w) ==
  /\ "end" \in Faults
  /\ process[w] # "closed"
  /\ process' = [process EXCEPT ![w] = "closed"]
  /\ UNCHANGED <<lists, workers, loaded, pc, locals, timer>>

\* Every call slot is used up and no thread has anything left to do.
Quiescent ==
  /\ \A c \in Calls : /\ pc[c] \in {"done", "hung", "evict"}
                      /\ timer[c] \in {"none", "gone"}
  /\ UNCHANGED vars

CallStep(c) ==
  \/ RunDeployedFunction(c) \/ NotDeployed(c)
  \/ RunUndeployed(c) \/ NoUndeployed(c)
  \/ CodeStringError(c) \/ SendFunction(c) \/ AwaitNotLoaded(c)
  \/ MarkRunTime(c) \/ SendRequest(c) \/ AwaitNoResponse(c)
  \/ SetFunction(c) \/ RunComplete(c) \/ ScheduleDecommission(c)
  \/ ForceDecomission(c) \/ ForceRestore(c) \/ ForceReturn(c)

TimerStep(c) ==
  \/ TimerExpired(c) \/ TimerDecommission(c) \/ TimerStillRunning(c)
  \/ TimerEvicted(c) \/ TimerRestore(c) \/ TimerReturn(c)

Next ==
  \/ \E c \in Calls, f \in Functions : Run(c, f)
  \/ \E c \in Calls : CallStep(c) \/ TimerStep(c)
  \/ \E w \in Workers : Age(w) \/ End(w)
  \/ Quiescent

Spec == Init /\ [][Next]_vars

\* Goroutines are scheduled and time passes; nothing obliges the invoker to
\* receive calls or to shut down.
Fairness ==
  /\ \A c \in Calls : WF_vars(CallStep(c)) /\ WF_vars(TimerStep(c))
  /\ \A w \in Workers : WF_vars(Age(w))

FairSpec == Spec /\ Fairness

----------------------------------------------------------------------------
(* Safety *)

CallServes(c) ==
  pc[c] \in {"load", "mark", "request", "set", "complete", "hung"}
CallRestores(c) == pc[c] \in {"restore", "return"}
TimerRestores(c) == timer[c] \in {"restoring", "returning"}

\* Some thread of slot c has worker at[c] to itself.
Holds(c) == CallServes(c) \/ CallRestores(c) \/ TimerRestores(c)

Listed == ToSet(undeployed) \cup ToSet(deployed) \cup ToSet(running)

\* A worker is named at most once in the three lists together.
ListsDisjoint ==
  /\ IsInjective(undeployed) /\ IsInjective(deployed)
  /\ IsInjective(running)
  /\ ToSet(undeployed) \cap ToSet(deployed) = {}
  /\ ToSet(undeployed) \cap ToSet(running) = {}
  /\ ToSet(deployed) \cap ToSet(running) = {}

\* A worker serving a call is in running: RunComplete always finds it, and the
\* default index 0 of its search never removes another worker.
ServingIsRunning == \A c \in Calls : CallServes(c) => at[c] \in ToSet(running)

\* A worker being restored, by a call or by a timer, is out of every list.
RestoringIsUnlisted ==
  \A c \in Calls : CallRestores(c) \/ TimerRestores(c) => at[c] \notin Listed

\* No two threads hold the same worker.
OneHolder ==
  \A c, d \in Calls : Holds(c) /\ Holds(d) /\ c # d => at[c] # at[d]

\* The mutual exclusion the lists implement: whatever the interleaving of
\* calls, eviction and timers (also timers left over from an earlier life of
\* the worker), a process is used by one thread at a time, and the lists say
\* so.  scheduler.go keeps this by three lists and no per-worker lock.
ExclusiveWorker ==
  /\ ListsDisjoint
  /\ ServingIsRunning
  /\ RestoringIsUnlisted
  /\ OneHolder

\* What the lists promise about the processes: an undeployed worker is in its
\* load loop, a deployed one holds exactly the function sw.function names, and
\* SendFunction always meets a process that is still waiting for a function.
ProcessContents ==
  /\ \A w \in ToSet(undeployed) : process[w] # "closed" =>
       process[w] = "up" /\ loaded[w] = None
  /\ \A w \in ToSet(deployed) : process[w] # "closed" =>
       process[w] = "up" /\ loaded[w] = function[w] /\ loaded[w] # None
  /\ \A c \in Calls : pc[c] = "load" /\ process[at[c]] # "closed" =>
       loaded[at[c]] = None

\* A call is never answered by another function than the one it asked for,
\* although its worker was chosen by a name written without the lock
\* (SetFunction) and may have served others before (Run, scheduler.go:66-100).
RightFunction == \A c \in Calls : answer[c] \in {None, fn[c]}

\* No worker is forgotten: unless restores or code documents fail, or the pool is
\* closed, a worker is deployed, undeployed, or in the hands of a thread.
WorkerAccounted ==
  Faults \cap {"code", "restore", "end"} = {} =>
    \A w \in Workers :
      \/ w \in ToSet(undeployed) \cup ToSet(deployed)
      \/ \E c \in Calls : Holds(c) /\ at[c] = w

\* A deployed worker always has a decommission goroutine that has not returned
\* (or a call about to start it): the goroutine of an earlier deployment may
\* return or act early, but a worker is never left deployed without one.
DeployedHasTimer ==
  \A w \in ToSet(deployed) : \E c \in Calls :
    at[c] = w /\ (timer[c] \in {"sleep", "expired"} \/ pc[c] = "schedule")

\* scheduler_test.go:87 "does not move if the function is run again": the
\* goroutine never decommissions a worker run less than decommissionTime ago.
NotMovedIfRunAgain ==
  [][\A c \in Calls : TimerDecommission(c) => DecommissionDue(at[c])]_vars

----------------------------------------------------------------------------
(* Liveness, of FairSpec with Faults = {} *)

\* A deployed worker that is left alone is restored and undeployed in the end.
IdleDecommissioned ==
  \A w \in Workers :
    w \in ToSet(deployed) ~> w \in ToSet(undeployed)

\* Every call returns, except in one way: it entered ForceDecomission when no
\* worker was undeployed, and polls an empty deployed list for ever while
\* restored workers wait in undeployed (scheduler.go:197-202).
CallReturnsUnlessStalled ==
  \A c \in Calls :
    pc[c] = "lookup" ~>
      \/ pc[c] = "done"
      \/ [](pc[c] = "evict" /\ deployed = << >> /\ undeployed # << >>)
=============================================================================
