----------------------------- MODULE TraceTask -----------------------------
(***************************************************************************)
(* The trace loops of the threads of a worker process                      *)
(* (src/controller/ptrace/ptrace.go): one goroutine per thread, the only   *)
(* one that may issue ptrace requests for it.  It waits for its thread to  *)
(* stop, publishes the stop in SignalStop, a channel of capacity one, and  *)
(* then serves orders until one of them lets the thread go.                *)
(*                                                                         *)
(* The channels Continue, Detach, RunSyscall and InStopFunction are        *)
(* unbuffered: an order is a step the loop and its caller take together.   *)
(* The actions here are the loop's half of these steps; Controller has the *)
(* callers' half.                                                          *)
(*                                                                         *)
(* The kernel's side (signals, stops, exits) is external and is modelled   *)
(* from what the code asks of ptrace, tgkill and wait4.                    *)
(*                                                                         *)
(* Abstractions: two signals, the SIGSTOP Stop sends and one other, USR,   *)
(* which the process handles; registers and memory are ProcessMemory's;    *)
(* the strace output is left out.                                          *)
(***************************************************************************)
EXTENDS Naturals, FiniteSets

CONSTANTS
  Tasks,       \* the threads of the process
  Main,        \* its first thread, whose tid is the pid
  None,        \* no stop
  Behaviours   \* what the environment may do, see BehaviourKinds

\* "signal": somebody sends USR to a thread     "exit": the process dies
\* "thread": a thread other than the first ends
\* "strace": the loops stop at system calls     "writer": the strace output fails
BehaviourKinds == {"signal", "exit", "thread", "strace", "writer"}

\* What stops a thread: a signal, a group stop, or a system call.
Causes == {"STOP", "USR", "GROUP", "SYSCALL"}

TasksAssumption ==
  /\ Main \in Tasks
  /\ None \notin Causes
  /\ Behaviours \subseteq BehaviourKinds

VARIABLES
  thread,    \* the kernel's state of each thread
  pending,   \* the stops that wait for the thread to run
  mode,      \* whether it is traced, and was last continued to a system call
  cause,     \* why it stopped last
  loop,      \* where its trace loop is
  slot       \* the channel SignalStop

\* "runs"   "stopped": in a ptrace-stop wait4 has not reported yet
\* "held": in a reported ptrace-stop    "halted": stopped, and traced by nobody
\* "exited"
ThreadStates == {"runs", "stopped", "held", "halted", "exited"}

\* "none": no task yet      "wait": in wait4      "publish": sends on SignalStop
\* "orders": in awaitContinueOrders       "function": runs an InStopFunction
\* "fixup": in the wait4 of FixupSyscallState
\* "stuck": sends on a channel nobody reads       "ended"
LoopStates == {"none", "wait", "publish", "orders", "function", "fixup",
               "stuck", "ended"}

kernel    == <<thread, pending, mode, cause>>
taskVars  == <<kernel, loop, slot>>

TaskTypeOK ==
  /\ thread \in [Tasks -> ThreadStates]
  /\ pending \in [Tasks -> SUBSET {"STOP", "USR", "GROUP"}]
  /\ mode \in [Tasks -> {"free", "seized", "syscall"}]
  /\ cause \in [Tasks -> Causes \cup {None}]
  /\ loop \in [Tasks -> LoopStates]
  /\ slot \in [Tasks -> Causes \cup {None}]

TaskInit ==
  /\ thread = [t \in Tasks |-> "runs"]
  /\ pending = [t \in Tasks |-> {}]
  /\ mode = [t \in Tasks |-> "free"]
  /\ cause = [t \in Tasks |-> None]
  /\ loop = [t \in Tasks |-> "none"]
  /\ slot = [t \in Tasks |-> None]

LoopGoto(t, p) == loop' = [loop EXCEPT ![t] = p]

-----------------------------------------------------------------------------
(* The kernel.                                                             *)

\* A signal from outside: another process, or the worker itself.
OutsideSignal(t) ==
  /\ "signal" \in Behaviours
  /\ thread[t] # "exited"
  /\ pending' = [pending EXCEPT ![t] = @ \cup {"USR"}]
  /\ UNCHANGED <<thread, mode, cause, loop, slot>>

\* A traced thread stops when a signal is delivered to it; the kernel takes
\* the lower number first, and SIGUSR1 and SIGUSR2 come before SIGSTOP.
NextSignal(t, s) ==
  /\ s \in pending[t]
  /\ s = "USR" => "GROUP" \notin pending[t]
  /\ s = "STOP" => pending[t] = {"STOP"}

SignalStops(t) ==
  /\ thread[t] = "runs"
  /\ mode[t] # "free"
  /\ \E s \in Causes :
       /\ NextSignal(t, s)
       /\ cause' = [cause EXCEPT ![t] = s]
       /\ pending' = [pending EXCEPT ![t] = @ \ {s}]
  /\ thread' = [thread EXCEPT ![t] = "stopped"]
  /\ UNCHANGED <<mode, loop, slot>>

\* Without a tracer USR goes to its handler, and SIGSTOP stops the thread (and
\* all others that nobody traces) until somebody sends SIGCONT.
SignalActs(t) ==
  /\ thread[t] = "runs"
  /\ mode[t] = "free"
  /\ \E s \in Causes :
       /\ NextSignal(t, s)
       /\ pending' = [pending EXCEPT ![t] = @ \ {s}]
       /\ thread' = IF s = "USR" THEN thread
                    ELSE [u \in Tasks |->
                            IF u = t \/ (mode[u] = "free" /\ thread[u] = "runs")
                            THEN "halted" ELSE thread[u]]
  /\ UNCHANGED <<mode, cause, loop, slot>>

\* A thread continued by PTRACE_SYSCALL stops at its next system call.
SyscallStops(t) ==
  /\ thread[t] = "runs"
  /\ mode[t] = "syscall"
  /\ thread' = [thread EXCEPT ![t] = "stopped"]
  /\ cause' = [cause EXCEPT ![t] = "SYSCALL"]
  /\ UNCHANGED <<pending, mode, loop, slot>>

\* The process dies: SIGKILL, a crash, or the exit of its program.
ProcessExits ==
  /\ "exit" \in Behaviours
  /\ \E t \in Tasks : thread[t] # "exited"
  /\ thread' = [t \in Tasks |-> "exited"]
  /\ UNCHANGED <<pending, mode, cause, loop, slot>>

\* A thread ends while the process goes on.
ThreadExits(t) ==
  /\ "thread" \in Behaviours
  /\ t # Main
  /\ thread[t] = "runs"
  /\ thread' = [thread EXCEPT ![t] = "exited"]
  /\ UNCHANGED <<pending, mode, cause, loop, slot>>

-----------------------------------------------------------------------------
(* The loop on its own.                                                    *)

\* ptraceLoop up to its first wait4: PTRACE_SEIZE does not stop the thread (one
\* that SIGSTOP has stopped before reports a group stop).
\* It fails on a thread somebody traces already, or that is gone.
CanSeize(t) == mode[t] = "free" /\ thread[t] # "exited"

Seize(t) ==
  /\ CanSeize(t)
  /\ mode' = [mode EXCEPT ![t] = "seized"]
  /\ LoopGoto(t, "wait")
  /\ slot' = [slot EXCEPT ![t] = None]
  /\ \/ /\ thread[t] = "halted"
        /\ thread' = [thread EXCEPT ![t] = "stopped"]
        /\ cause' = [cause EXCEPT ![t] = "GROUP"]
     \/ /\ thread[t] # "halted"
        /\ UNCHANGED <<thread, cause>>
  /\ UNCHANGED pending

\* wait4 reports a stop that is to be published: a signal or a group stop.
WaitSignal(t) ==
  /\ loop[t] = "wait"
  /\ thread[t] = "stopped"
  /\ cause[t] # "SYSCALL"
  /\ thread' = [thread EXCEPT ![t] = "held"]
  /\ LoopGoto(t, "publish")
  /\ UNCHANGED <<pending, mode, cause, slot>>

\* wait4 reports a system call: its name is printed, and the thread goes on.
\* When the output fails the loop ends and the thread stays where it is.
WaitSyscall(t) ==
  /\ loop[t] = "wait"
  /\ thread[t] = "stopped"
  /\ cause[t] = "SYSCALL"
  /\ \/ /\ thread' = [thread EXCEPT ![t] = "runs"]
        /\ UNCHANGED loop
     \/ /\ "writer" \in Behaviours
        /\ thread' = [thread EXCEPT ![t] = "held"]
        /\ LoopGoto(t, "ended")
  /\ UNCHANGED <<pending, mode, cause, slot>>

\* wait4 reports the exit: nobody is told.
WaitExit(t) ==
  /\ loop[t] = "wait"
  /\ thread[t] = "exited"
  /\ LoopGoto(t, "ended")
  /\ UNCHANGED <<kernel, slot>>

\* A variant that publishes the stop and waits on, without taking orders.
PublishGoesOn(t) ==
  /\ loop[t] = "publish"
  /\ slot[t] = None
  /\ slot' = [slot EXCEPT ![t] = cause[t]]
  /\ LoopGoto(t, "wait")
  /\ UNCHANGED kernel

\* t.SignalStop <- waitStat
Publish(t) ==
  /\ loop[t] = "publish"
  /\ slot[t] = None
  /\ slot' = [slot EXCEPT ![t] = cause[t]]
  /\ LoopGoto(t, "orders")
  /\ UNCHANGED kernel

-----------------------------------------------------------------------------
(* The loop's half of an order.                                            *)

\* The signal an order to continue names: no signal, one to inject, or, for
\* the stop of a group stop, -1, which ptrace refuses.
CanContinue(t, s) == thread[t] = "held" /\ s # "GROUP"

\* A SIGSTOP that is injected stops all threads of the process: each stops
\* again, with the event of a group stop, as soon as it runs.
AfterInject(s) ==
  [t \in Tasks |-> IF s = "STOP" /\ thread[t] # "exited"
                   THEN pending[t] \cup {"GROUP"} ELSE pending[t]]

\* The stop the loop has published is taken back, if nobody took it.
PopWait(t) == slot' = [slot EXCEPT ![t] = None]

\* A variant that forgets popWait.
ObeyContinueKeepsStop(t, s) ==
  /\ loop[t] = "orders"
  /\ CanContinue(t, s)
  /\ thread' = [thread EXCEPT ![t] = "runs"]
  /\ mode' = [mode EXCEPT ![t] = "seized"]
  /\ pending' = AfterInject(s)
  /\ LoopGoto(t, "wait")
  /\ UNCHANGED <<cause, slot>>

\* case continueSignal := <-t.Continue, up to the answer
ObeyContinue(t, s) ==
  /\ loop[t] = "orders"
  /\ CanContinue(t, s)
  /\ PopWait(t)
  /\ thread' = [thread EXCEPT ![t] = "runs"]
  /\ mode' = [mode EXCEPT ![t] = IF "strace" \in Behaviours THEN "syscall"
                                 ELSE "seized"]
  /\ pending' = AfterInject(s)
  /\ LoopGoto(t, "wait")
  /\ UNCHANGED cause

\* The same order when ptrace fails: the loop ends without an answer.
FailContinue(t, s) ==
  /\ loop[t] = "orders"
  /\ ~CanContinue(t, s)
  /\ PopWait(t)
  /\ LoopGoto(t, "ended")
  /\ UNCHANGED kernel

\* case <-t.Detach: the signal of the stop is suppressed, the stop stays in
\* the channel.
ObeyDetach(t) ==
  /\ loop[t] = "orders"
  /\ thread[t] = "held"
  /\ thread' = [thread EXCEPT ![t] = "runs"]
  /\ mode' = [mode EXCEPT ![t] = "free"]
  /\ LoopGoto(t, "ended")
  /\ UNCHANGED <<pending, cause, slot>>

FailDetach(t) ==
  /\ loop[t] = "orders"
  /\ thread[t] # "held"
  /\ LoopGoto(t, "ended")
  /\ UNCHANGED <<kernel, slot>>

\* case regs := <-t.RunSyscall: the thread makes one step on a system call
\* instruction.  A signal that is pending is delivered first: the step is
\* spent on it, and the result is not the one of the system call.
SyscallMade(t) == thread[t] = "held" /\ pending[t] = {}

ObeySyscall(t) ==
  /\ loop[t] = "orders"
  /\ \/ /\ thread[t] = "held" /\ pending[t] # {}
        /\ \E s \in Causes : /\ NextSignal(t, s)
                             /\ pending' = [pending EXCEPT ![t] = @ \ {s}]
     \/ /\ thread[t] # "held" \/ pending[t] = {}
        /\ UNCHANGED pending
  /\ UNCHANGED <<thread, mode, cause, loop, slot>>

\* case f := <-t.InStopFunction, up to the call of f
ObeyFunction(t) ==
  /\ loop[t] = "orders"
  /\ LoopGoto(t, "function")
  /\ UNCHANGED <<kernel, slot>>

=============================================================================
