---------------------------- MODULE MCController ----------------------------
(***************************************************************************)
(* Instances of Controller for TLC.  An execution is one of four           *)
(* scenarios, which differ in the threads of the process, the operations   *)
(* called and what else happens; all run over the same variables, in which *)
(* a thread a scenario does not have is one that runs on unseen.           *)
(*                                                                         *)
(* "quiet": three threads whose system calls are traced, and nothing       *)
(*          disturbs them                                                  *)
(* "signals": two threads that also get signals from outside               *)
(* "dies": two threads that may end, and a trace output that may fail      *)
(* "await": one thread, and the operations the tests use on its signals    *)
(***************************************************************************)
EXTENDS Controller

VARIABLE scenario    \* fixed at the start

\* One goroutine at a time uses the controller of a worker, because the invoker
\* hands a worker to one function at a time.  (Requests to the CRI service for
\* one container may overlap, and then take each other's stops.)  The
\* configuration has one caller, and three threads.
Caller == CHOOSE c \in Callers : TRUE

\* Two of the threads, the first among them.
Pair == CHOOSE p \in SUBSET Tasks : Main \in p /\ Cardinality(p) = 2

\* What the tests do with the signals of a process.
SignalOperations == {"attach", "detach", "await", "pause", "signal"}

\* "quiet" is Controller itself; Operations is then what the invoker and the
\* CRI service do with a worker process, and the operations of Worker that
\* take it apart.
Signals == INSTANCE Controller WITH
             Tasks <- Pair, Behaviours <- {"signal"}

Dies == INSTANCE Controller WITH
          Tasks <- Pair,
          Behaviours <- {"exit", "thread", "strace", "writer"}

Await == INSTANCE Controller WITH
           Tasks <- {Main},
           Operations <- SignalOperations, Behaviours <- {"signal"}

ASSUME ScenarioAssumption ==
  /\ Caller \in Callers
  /\ TasksAssumption         /\ OperationsAssumption
  /\ Signals!TasksAssumption /\ Signals!OperationsAssumption
  /\ Dies!TasksAssumption    /\ Dies!OperationsAssumption
  /\ Await!TasksAssumption   /\ Await!OperationsAssumption

mcVars == <<scenario, vars>>

MCInit ==
  \/ scenario = "quiet"   /\ Init
  \/ scenario = "signals" /\ Signals!Init
  \/ scenario = "dies"    /\ Dies!Init
  \/ scenario = "await"   /\ Await!Init

QuietNext   == scenario = "quiet"   /\ Next         /\ UNCHANGED scenario
SignalsNext == scenario = "signals" /\ Signals!Next /\ UNCHANGED scenario
DiesNext    == scenario = "dies"    /\ Dies!Next    /\ UNCHANGED scenario
AwaitNext   == scenario = "await"   /\ Await!Next   /\ UNCHANGED scenario

MCNext == QuietNext \/ SignalsNext \/ DiesNext \/ AwaitNext

MCSpec == MCInit /\ [][MCNext]_mcVars

\* The fairness of Controller, step by step, in the scenario at hand.
CallerGoesOn ==
  /\ \/ scenario = "quiet"   /\ CallerStep(Caller)
     \/ scenario = "signals" /\ Signals!CallerStep(Caller)
     \/ scenario = "dies"    /\ Dies!CallerStep(Caller)
     \/ scenario = "await"   /\ Await!CallerStep(Caller)
  /\ UNCHANGED scenario

LoopGoesOn(t) ==
  /\ \/ scenario = "quiet" /\ LoopStep(t)
     \/ scenario = "signals" /\ t \in Pair /\ Signals!LoopStep(t)
     \/ scenario = "dies" /\ t \in Pair /\ Dies!LoopStep(t)
     \/ scenario = "await" /\ t = Main /\ Await!LoopStep(t)
  /\ UNCHANGED scenario

SignalArrives(t) ==
  /\ \/ scenario = "quiet" /\ SignalStep(t)
     \/ scenario = "signals" /\ t \in Pair /\ Signals!SignalStep(t)
     \/ scenario = "dies" /\ t \in Pair /\ Dies!SignalStep(t)
     \/ scenario = "await" /\ t = Main /\ Await!SignalStep(t)
  /\ UNCHANGED scenario

SyscallArrives(t) ==
  /\ \/ scenario = "quiet" /\ SyscallStep(t)
     \/ scenario = "signals" /\ t \in Pair /\ Signals!SyscallStep(t)
     \/ scenario = "dies" /\ t \in Pair /\ Dies!SyscallStep(t)
     \/ scenario = "await" /\ t = Main /\ Await!SyscallStep(t)
  /\ UNCHANGED scenario

MCFairness ==
  /\ WF_mcVars(CallerGoesOn)
  /\ \A t \in Tasks : /\ WF_mcVars(LoopGoesOn(t))
                     /\ SF_mcVars(SignalArrives(t))
                     /\ WF_mcVars(SyscallArrives(t))

MCFairSpec == MCSpec /\ MCFairness

-----------------------------------------------------------------------------
(* The properties that are about some scenarios; SlotHonest and            *)
(* StoppedWhileWorking, of Controller, hold in all of them.                *)

\* An operation that ends with Continue leaves no thread behind and no SIGSTOP
\* that would stop one later (controller.go:424, ptrace.go:351), as long as
\* nobody else sends signals.
NobodyLeftBehind ==
  scenario = "quiet" => TypeOK /\ LeavesItRunning /\ NoStrayStop

\* Every operation the invoker calls returns, with system calls that are
\* traced and with signals from outside (controller.go:340, ptrace.go:334).
OperationsReturn ==
  stage[Caller] # "idle" /\ scenario \in {"quiet", "signals"}
    ~> stage[Caller] = "idle"

\* AwaitSignal "Allows the process to continue after the signal is caught"
\* (controller.go:300), when the process has one thread.
AwaitSignalContinues ==
  (scenario = "await" /\ op[Caller] = "await" /\ stage[Caller] = "continue")
    ~> stage[Caller] \in {"take", "idle"}

=============================================================================
