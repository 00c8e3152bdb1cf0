----------------------------- MODULE Controller -----------------------------
(***************************************************************************)
(* The operations of the controller that stop, inspect, repair and         *)
(* continue a worker process (src/controller/controller.go and             *)
(* src/state/state.go), over the trace loops of TraceTask.                 *)
(*                                                                         *)
(* Nothing in the controller is locked.  An operation is a sequence of     *)
(* stages, most of which visit every trace task in the order of a Go map,  *)
(* that is, in any order; one action is one channel operation or one       *)
(* system call, so the loops, the process, and other callers come in       *)
(* between any two of them.                                                *)
(*                                                                         *)
(* Abstractions: the pages, mappings and registers an operation reads and  *)
(* writes are ProcessMemory's; the system calls one Restore makes in the   *)
(* process stand as one; the signal waited for and sent is always USR.     *)
(* Streams and messages are ControllerMessages'.                           *)
(***************************************************************************)
EXTENDS TraceTask

CONSTANTS
  Callers,     \* goroutines that use the controller
  Operations   \* the operations they call, see OperationKinds

OperationKinds == {"activate", "attach", "checkpoint", "restore", "detach",
                   "stop", "continue", "await", "pause", "signal"}

OperationsAssumption ==
  Operations \subseteq OperationKinds /\ None \notin OperationKinds

VARIABLES
  op,        \* the operation of each caller; when idle, the last that succeeded
  stage,     \* where in it the caller is
  todo,      \* the tasks the stage has yet to visit
  at,        \* the task it is visiting
  sig,       \* the stop it has taken, or the signal it continues with
  jobs,      \* tasks that run, or will run, a function it waits for
  known,     \* c.traceTasks
  attached,  \* c.attached
  saved      \* c.checkpoints is not empty

callVars == <<op, stage, todo, at, sig, jobs>>
ctlVars  == <<known, attached, saved>>
vars     == <<taskVars, callVars, ctlVars>>

Stages == {"idle", "attach", "stop", "stopwait", "putback", "detach",
           "repair", "fixup", "fixupwait", "function", "continue",
           "signal", "drop", "take", "hung"}

TypeOK ==
  /\ TaskTypeOK
  /\ op \in [Callers -> OperationKinds \cup {None}]
  /\ stage \in [Callers -> Stages]
  /\ todo \in [Callers -> SUBSET Tasks]
  /\ at \in [Callers -> Tasks]
  /\ sig \in [Callers -> Causes \cup {None}]
  /\ jobs \in [Callers -> SUBSET Tasks]
  /\ known \subseteq Tasks
  /\ attached \in BOOLEAN
  /\ saved \in BOOLEAN

Init ==
  /\ TaskInit
  /\ op = [c \in Callers |-> None]
  /\ stage = [c \in Callers |-> "idle"]
  /\ todo = [c \in Callers |-> {}]
  /\ at = [c \in Callers |-> Main]
  /\ sig = [c \in Callers |-> None]
  /\ jobs = [c \in Callers |-> {}]
  /\ known = {}
  /\ attached = FALSE
  /\ saved = FALSE

-----------------------------------------------------------------------------
(* Moving a caller through its operation.                                  *)

\* Enter a stage that visits the tasks ts.
Visit(c, p, ts) ==
  /\ stage' = [stage EXCEPT ![c] = p]
  /\ todo' = [todo EXCEPT ![c] = ts]

\* Stay in the stage; t has been visited.
Visited(c, t) == Visit(c, stage[c], todo[c] \ {t})

Goto(c, p) == stage' = [stage EXCEPT ![c] = p] /\ UNCHANGED todo

Succeed(c) == Goto(c, "idle") /\ UNCHANGED op

\* The operation returns an error; what it has stopped stays stopped.
Fail(c) ==
  /\ Visit(c, "idle", {})
  /\ op' = [op EXCEPT ![c] = None]

\* How the callers use the interface: Attach comes first, once; Continue
\* follows a Stop, or an operation that failed with the process stopped.
Legal(o) ==
  /\ o \in {"activate", "attach"} => known = {}
  /\ o \notin {"activate", "attach", "signal"} => attached
  /\ o = "continue" => \A t \in known : loop[t] = "orders"

FirstStage(o) ==
  IF o \in {"activate", "attach"} THEN "attach"
  ELSE IF o \in {"await", "pause"} THEN "take"
  ELSE IF o \in {"continue", "signal"} THEN o
  ELSE "stop"

\* Attach reads the list of threads of the process.
Begin(c) ==
  /\ stage[c] = "idle"
  /\ \E o \in Operations :
       /\ Legal(o)
       /\ op' = [op EXCEPT ![c] = o]
       /\ Visit(c, FirstStage(o), IF FirstStage(o) = "attach"
                                  THEN {t \in Tasks : thread[t] # "exited"}
                                  ELSE known)
  /\ sig' = [sig EXCEPT ![c] = None]
  /\ UNCHANGED <<taskVars, at, jobs, ctlVars>>

-----------------------------------------------------------------------------
(* Attach.                                                                 *)

AttachTask(c) ==
  /\ stage[c] = "attach"
  /\ \E t \in todo[c] :
       \/ /\ Seize(t)
          /\ known' = known \cup {t}
          /\ Visited(c, t)
          /\ UNCHANGED op
       \/ /\ ~CanSeize(t)
          /\ Fail(c)
          /\ UNCHANGED <<taskVars, known>>
  /\ UNCHANGED <<at, sig, jobs, attached, saved>>

\* Activate goes on with TakeCheckpoint, which begins with Stop.
AttachDone(c) ==
  /\ stage[c] = "attach"
  /\ todo[c] = {}
  /\ attached' = TRUE
  /\ \/ op[c] = "attach" /\ Succeed(c)
     \/ op[c] = "activate" /\ Visit(c, "stop", known) /\ UNCHANGED op
  /\ UNCHANGED <<taskVars, at, sig, jobs, known, saved>>

-----------------------------------------------------------------------------
(* Stop, of every task in turn, and Detach.                                *)

Take(c, t) ==
  /\ slot[t] # None
  /\ slot' = [slot EXCEPT ![t] = None]
  /\ sig' = [sig EXCEPT ![c] = slot[t]]
  /\ UNCHANGED <<kernel, loop>>

\* The task is stopped already: Stop takes the stop out and puts it back.
StopTakes(c) ==
  /\ stage[c] = "stop"
  /\ \E t \in todo[c] :
       /\ Take(c, t)
       /\ at' = [at EXCEPT ![c] = t]
  /\ Goto(c, "putback")
  /\ UNCHANGED <<op, jobs, ctlVars>>

\* A variant that does not wait for the stop.
StopSendsOnly(c) ==
  /\ stage[c] = "stop"
  /\ \E t \in todo[c] :
       /\ slot[t] = None
       /\ thread[t] # "exited"
       /\ pending' = [pending EXCEPT ![t] = @ \cup {"STOP"}]
       /\ Visited(c, t)
  /\ UNCHANGED <<thread, mode, cause, loop, slot, op, at, sig, jobs, ctlVars>>

\* SIGSTOP by tgkill.  It succeeds on a thread that has exited and was not
\* waited for; the first thread may stay, for its parent, even after that.
StopSends(c) ==
  /\ stage[c] = "stop"
  /\ \E t \in todo[c] :
       /\ slot[t] = None
       /\ \/ /\ thread[t] = "exited" => loop[t] # "ended" \/ t = Main
             /\ pending' = [pending EXCEPT ![t] = @ \cup {"STOP"}]
             /\ at' = [at EXCEPT ![c] = t]
             /\ Goto(c, "stopwait")
             /\ UNCHANGED op
          \/ /\ thread[t] = "exited" /\ loop[t] = "ended"
             /\ Fail(c)
             /\ UNCHANGED <<pending, at>>
  /\ UNCHANGED <<thread, mode, cause, loop, slot, sig, jobs, ctlVars>>

StopWaited(c) ==
  /\ stage[c] = "stopwait"
  /\ Take(c, at[c])
  /\ Goto(c, "putback")
  /\ UNCHANGED <<op, at, jobs, ctlVars>>

\* A variant in which Stop takes the stop for itself.
PutBackForgets(c) ==
  /\ stage[c] = "putback"
  /\ sig' = [sig EXCEPT ![c] = None]
  /\ \/ op[c] = "detach" /\ Goto(c, "detach")
     \/ op[c] # "detach" /\ Visit(c, "stop", todo[c] \ {at[c]})
  /\ UNCHANGED <<taskVars, op, at, jobs, ctlVars>>

\* t.SignalStop <- stop, in Stop and at the end of PauseAtSignal.
PutBack(c) ==
  /\ stage[c] = "putback"
  /\ slot[at[c]] = None
  /\ slot' = [slot EXCEPT ![at[c]] = sig[c]]
  /\ sig' = [sig EXCEPT ![c] = None]
  /\ \/ op[c] = "pause" /\ Visit(c, "idle", {})
     \/ op[c] = "detach" /\ Goto(c, "detach")
     \/ op[c] \notin {"pause", "detach"} /\ Visit(c, "stop", todo[c] \ {at[c]})
  /\ UNCHANGED <<kernel, loop, op, at, jobs, ctlVars>>

\* Detach has stopped the task at[c] and orders its loop to let go of it.
DetachTask(c) ==
  /\ stage[c] = "detach"
  /\ \/ ObeyDetach(at[c]) /\ Visit(c, "stop", todo[c] \ {at[c]})
     \/ FailDetach(at[c]) /\ Goto(c, "hung")
  /\ UNCHANGED <<op, at, sig, jobs, ctlVars>>

\* All tasks are stopped: on to what the process was stopped for.
StopDone(c) ==
  /\ stage[c] = "stop"
  /\ todo[c] = {}
  /\ \/ op[c] \in {"stop", "detach"} /\ Succeed(c)
     \/ op[c] \in {"activate", "checkpoint"} /\ Visit(c, "function", known)
                                             /\ UNCHANGED op
     \/ op[c] = "restore" /\ saved /\ Goto(c, "repair") /\ UNCHANGED op
     \/ op[c] = "restore" /\ ~saved /\ Fail(c)
  /\ attached' = (attached /\ op[c] # "detach")
  /\ UNCHANGED <<taskVars, at, sig, jobs, known, saved>>

-----------------------------------------------------------------------------
(* Between Stop and Continue: the registers, the memory, the repairs.      *)

\* A system call in the process, made by any of its threads.
RunSyscall(c) ==
  \E t \in known :
    /\ ObeySyscall(t)
    /\ \/ SyscallMade(t) /\ Goto(c, "fixup") /\ UNCHANGED op
       \/ ~SyscallMade(t) /\ Fail(c)

\* Restore has compared the mappings with those of the checkpoint.  It makes
\* system calls in the process only if they differ; it fails if the process
\* is gone, or if a system call does not return what it should.
Repair(c) ==
  /\ stage[c] = "repair"
  /\ \/ /\ thread[Main] # "exited"
        /\ Visit(c, "function", known)
        /\ UNCHANGED <<taskVars, op>>
     \/ /\ thread[Main] = "exited"
        /\ Fail(c)
        /\ UNCHANGED taskVars
     \/ /\ thread[Main] # "exited"
        /\ RunSyscall(c)
  /\ UNCHANGED <<at, sig, jobs, ctlVars>>

\* FixupSyscallState lets a thread run to its next system call.  If ptrace
\* fails the function sends its error, and is stuck with what it sends next.
FixupSend(c) ==
  /\ stage[c] = "fixup"
  /\ \E t \in known :
       /\ loop[t] = "orders"
       /\ \/ /\ thread[t] = "held"
             /\ thread' = [thread EXCEPT ![t] = "runs"]
             /\ mode' = [mode EXCEPT ![t] = "syscall"]
             /\ LoopGoto(t, "fixup")
             /\ at' = [at EXCEPT ![c] = t]
             /\ Goto(c, "fixupwait")
             /\ UNCHANGED op
          \/ /\ thread[t] # "held"
             /\ LoopGoto(t, "stuck")
             /\ Fail(c)
             /\ UNCHANGED <<thread, mode, at>>
  /\ UNCHANGED <<pending, cause, slot, sig, jobs, ctlVars>>

\* Whatever stops it counts: a system call, a signal, its exit.
FixupDone(c) ==
  /\ stage[c] = "fixupwait"
  /\ loop[at[c]] = "fixup"
  /\ thread[at[c]] \in {"stopped", "exited"}
  /\ thread' = [thread EXCEPT ![at[c]] = IF @ = "exited" THEN @ ELSE "held"]
  /\ LoopGoto(at[c], "orders")
  /\ Visit(c, "function", known)
  /\ UNCHANGED <<pending, mode, cause, slot, op, at, sig, jobs, ctlVars>>

\* NewState and RestoreRegs send a function to every task, ...
FunctionSend(c) ==
  /\ stage[c] = "function"
  /\ \E t \in todo[c] :
       /\ ObeyFunction(t)
       /\ jobs' = [jobs EXCEPT ![c] = @ \cup {t}]
       /\ Visited(c, t)
  /\ UNCHANGED <<op, at, sig, ctlVars>>

\* ... which the loop runs.  An error is sent on a channel that is read only
\* when all functions are done: this one never is.
FunctionRuns(t) ==
  /\ loop[t] = "function"
  /\ \/ /\ thread[t] = "held"
        /\ LoopGoto(t, "orders")
        /\ \E c \in Callers : /\ t \in jobs[c]
                              /\ jobs' = [jobs EXCEPT ![c] = @ \ {t}]
     \/ /\ thread[t] # "held"
        /\ LoopGoto(t, "stuck")
        /\ UNCHANGED jobs
  /\ UNCHANGED <<kernel, slot, op, stage, todo, at, sig, ctlVars>>

\* wg.Wait returns.  The files of /proc of a process that is gone do not open.
FunctionsDone(c) ==
  /\ stage[c] = "function"
  /\ todo[c] = {}
  /\ jobs[c] = {}
  /\ \/ /\ Visit(c, "continue", known)
        /\ saved' = TRUE
        /\ UNCHANGED op
     \/ /\ op[c] # "restore"
        /\ thread[Main] = "exited"
        /\ Fail(c)
        /\ UNCHANGED saved
  /\ UNCHANGED <<taskVars, at, sig, jobs, known, attached>>

-----------------------------------------------------------------------------
(* Continue, of every task in turn, and the operations on signals.         *)

\* A variant that continues the first thread only.
ContinueTaskMain(c) ==
  /\ stage[c] = "continue"
  /\ ObeyContinue(Main, sig[c])
  /\ Visit(c, "continue", {})
  /\ UNCHANGED <<op, at, sig, jobs, ctlVars>>

ContinueTask(c) ==
  /\ stage[c] = "continue"
  /\ \E t \in todo[c] :
       \/ ObeyContinue(t, sig[c]) /\ Visited(c, t)
       \/ FailContinue(t, sig[c]) /\ Goto(c, "hung")
  /\ UNCHANGED <<op, at, sig, jobs, ctlVars>>

\* AwaitSignal returns after it has forwarded the signal it waits for.
ContinueDone(c) ==
  /\ stage[c] = "continue"
  /\ todo[c] = {}
  /\ \/ /\ op[c] = "pause" \/ (op[c] = "await" /\ sig[c] # "USR")
        /\ Goto(c, "take")
     \/ /\ op[c] # "pause" /\ ~(op[c] = "await" /\ sig[c] # "USR")
        /\ Goto(c, "idle")
  /\ UNCHANGED <<taskVars, op, at, sig, jobs, ctlVars>>

\* AwaitSignal and PauseAtSignal look at the stops of the first thread only,
\* and forward what they see to every thread.
TakeMain(c) ==
  /\ stage[c] = "take"
  /\ Take(c, Main)
  /\ at' = [at EXCEPT ![c] = Main]
  /\ \/ op[c] = "pause" /\ slot[Main] = "USR" /\ Goto(c, "putback")
     \/ ~(op[c] = "pause" /\ slot[Main] = "USR") /\ Visit(c, "continue", known)
  /\ UNCHANGED <<op, jobs, ctlVars>>

\* SendSignal, and SendSignalCont when the process is not attached.
SendSignal(c) ==
  /\ stage[c] = "signal"
  /\ \/ /\ thread[Main] # "exited"
        /\ pending' = [pending EXCEPT ![Main] = @ \cup {"USR"}]
        /\ Visit(c, IF attached THEN "drop" ELSE "idle", {})
        /\ UNCHANGED op
     \/ /\ thread[Main] = "exited"
        /\ Fail(c)
        /\ UNCHANGED pending
  /\ UNCHANGED <<thread, mode, cause, loop, slot, at, sig, jobs, ctlVars>>

\* SendSignalCont: <-c.traceTasks[c.pid].SignalStop
DropStop(c) ==
  /\ stage[c] = "drop"
  /\ slot[Main] # None
  /\ slot' = [slot EXCEPT ![Main] = None]
  /\ sig' = [sig EXCEPT ![c] = "USR"]
  /\ Visit(c, "continue", known)
  /\ UNCHANGED <<kernel, loop, op, at, jobs, ctlVars>>

-----------------------------------------------------------------------------
CallerStep(c) ==
  \/ AttachTask(c)   \/ AttachDone(c)
  \/ StopTakes(c)    \/ StopSends(c)    \/ StopWaited(c)  \/ PutBack(c)
  \/ DetachTask(c)   \/ StopDone(c)
  \/ Repair(c)       \/ FixupSend(c)    \/ FixupDone(c)
  \/ FunctionSend(c) \/ FunctionsDone(c)
  \/ ContinueTask(c) \/ ContinueDone(c)
  \/ TakeMain(c)     \/ SendSignal(c)   \/ DropStop(c)

LoopStep(t) ==
  \/ /\ WaitSignal(t) \/ WaitSyscall(t) \/ WaitExit(t) \/ Publish(t)
     /\ UNCHANGED <<callVars, ctlVars>>
  \/ FunctionRuns(t)

SignalStep(t) ==
  /\ SignalStops(t) \/ SignalActs(t)
  /\ UNCHANGED <<callVars, ctlVars>>

SyscallStep(t) == SyscallStops(t) /\ UNCHANGED <<callVars, ctlVars>>

Environment ==
  /\ \/ \E t \in Tasks : OutsideSignal(t) \/ ThreadExits(t)
     \/ ProcessExits
  /\ UNCHANGED <<callVars, ctlVars>>

Next ==
  \/ \E c \in Callers : Begin(c) \/ CallerStep(c)
  \/ \E t \in Tasks : LoopStep(t) \/ SignalStep(t) \/ SyscallStep(t)
  \/ Environment

Spec == Init /\ [][Next]_vars

\* The goroutines are scheduled; a signal that is pending is delivered, however
\* often the thread stops at system calls before (the kernel looks for signals
\* whenever it returns to the program); and a thread reaches a system call.  Nobody has to begin an
\* operation, to send a signal, or to die.
Fairness ==
  /\ \A c \in Callers : WF_vars(CallerStep(c))
  /\ \A t \in Tasks : /\ WF_vars(LoopStep(t))
                     /\ SF_vars(SignalStep(t))
                     /\ WF_vars(SyscallStep(t))

FairSpec == Spec /\ Fairness

-----------------------------------------------------------------------------
(* Properties.                                                             *)

\* A stop that is in SignalStop is one the thread is in: Stop believes it
\* without looking (ptrace.go:341).  Only while FixupSyscallState lets the
\* thread run, and after Detach, which does not empty the channel, it is not.
SlotHonest ==
  \A t \in known : slot[t] # None /\ mode[t] # "free" /\ loop[t] # "fixup" =>
                     thread[t] \in {"held", "exited"}

\* "Caller must ensure tasks are stopped" (controller.go:457): while an
\* operation reads or writes registers and memory, every thread is stopped
\* and its loop serves the operation's orders.
StoppedWhileWorking ==
  \A c \in Callers :
    stage[c] \in {"repair", "fixup", "function"} =>
      \A t \in known : thread[t] \in {"held", "exited"}

\* Every SIGSTOP of Stop is used up by the Stop that sent it: none is left to
\* stop the process after the operation (ptrace.go:351).
NoStrayStop ==
  \A t \in Tasks : "STOP" \in pending[t] =>
    \/ thread[t] = "exited"
    \/ \E c \in Callers : stage[c] = "stopwait" /\ at[c] = t

\* An operation that ends with Continue leaves no thread behind: all run, or
\* are at a system call the trace is about to print (controller.go:424).
LeavesItRunning ==
  \A c \in Callers :
    stage[c] = "idle" /\ op[c] \in {"activate", "checkpoint", "restore"} =>
      \A t \in known : \/ thread[t] \in {"runs", "exited"}
                       \/ thread[t] = "stopped" /\ cause[t] = "SYSCALL"

=============================================================================
