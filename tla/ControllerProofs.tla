-------------------------- MODULE ControllerProofs --------------------------
(***************************************************************************)
(* Theorems about Controller, for every process and every set of threads   *)
(* and of callers.                                                         *)
(***************************************************************************)
EXTENDS MCController, TLAPS

-----------------------------------------------------------------------------
(* Types.                                                                  *)

\* Each variable has its type after one step of a caller.
LEMMA TypesCaller ==
  ASSUME TasksAssumption, OperationsAssumption, TypeOK, NEW c \in Callers,
         Begin(c) \/ CallerStep(c)
  PROVE  TypeOK'
<1> USE DEF TasksAssumption, OperationKinds, Causes, Stages, LoopStates,
            ThreadStates
<1>1. CASE Begin(c)
  BY <1>1, SMT DEF OperationsAssumption, TypeOK, TaskTypeOK, Begin, Legal,
     FirstStage, Visit, taskVars, kernel, ctlVars
<1>2. CASE AttachTask(c)
  <2>1. PICK t \in todo[c] :
          \/ Seize(t) /\ known' = known \cup {t} /\ Visited(c, t) /\ UNCHANGED op
          \/ Fail(c) /\ UNCHANGED <<taskVars, known>>
    BY <1>2 DEF AttachTask
  <2>2. t \in Tasks
    BY DEF TypeOK
  <2>3. TaskTypeOK'
    BY <2>1, <2>2, SMTT(60) DEF TypeOK, TaskTypeOK, Seize, CanSeize, LoopGoto,
       taskVars, kernel
  <2> QED
    BY <1>2, <2>1, <2>2, <2>3, SMT DEF TypeOK, AttachTask, Visited, Visit, Fail
<1>3. CASE AttachDone(c)
  BY <1>3, SMT DEF TypeOK, TaskTypeOK, AttachDone, Succeed, Goto, Visit,
     taskVars, kernel
<1>4. CASE StopTakes(c)
  BY <1>4, SMT DEF TypeOK, TaskTypeOK, StopTakes, Take, Goto, kernel, ctlVars
<1>5. CASE StopSends(c)
  BY <1>5, SMT DEF TypeOK, TaskTypeOK, StopSends, Fail, Visit, Goto, kernel,
     ctlVars
<1>6. CASE StopWaited(c)
  BY <1>6, SMT DEF TypeOK, TaskTypeOK, StopWaited, Take, Goto, kernel, ctlVars
<1>7. CASE PutBack(c)
  BY <1>7, SMT DEF TypeOK, TaskTypeOK, PutBack, Visit, Goto, kernel, ctlVars
<1>8. CASE DetachTask(c)
  BY <1>8, SMT DEF TypeOK, TaskTypeOK, DetachTask, ObeyDetach, FailDetach,
     LoopGoto, Visit, Goto, kernel, ctlVars
<1>9. CASE StopDone(c)
  BY <1>9, SMT DEF TypeOK, TaskTypeOK, StopDone, Succeed, Fail, Visit, Goto,
     taskVars, kernel
<1>10. CASE Repair(c)
  BY <1>10, SMT DEF TypeOK, TaskTypeOK, Repair, RunSyscall, ObeySyscall,
     NextSignal, Fail, Visit, Goto, taskVars, kernel, ctlVars
<1>11. CASE FixupSend(c)
  BY <1>11, SMTT(60) DEF TypeOK, TaskTypeOK, FixupSend, LoopGoto, Fail, Visit,
     Goto, ctlVars
<1>12. CASE FixupDone(c)
  BY <1>12, SMT DEF TypeOK, TaskTypeOK, FixupDone, LoopGoto, Visit, ctlVars
<1>13. CASE FunctionSend(c)
  BY <1>13, SMT DEF TypeOK, TaskTypeOK, FunctionSend, ObeyFunction, LoopGoto,
     Visited, Visit, kernel, ctlVars
<1>14. CASE FunctionsDone(c)
  <2>1. saved' \in BOOLEAN
    BY <1>14 DEF TypeOK, FunctionsDone
  <2>2. UNCHANGED <<taskVars, at, sig, jobs, known, attached>>
    BY <1>14 DEF FunctionsDone
  <2>3. \/ Visit(c, "continue", known) /\ UNCHANGED op
        \/ Fail(c)
    BY <1>14 DEF FunctionsDone
  <2> QED
    BY <2>1, <2>2, <2>3, SMT DEF TypeOK, TaskTypeOK, Fail, Visit, taskVars,
       kernel
<1>15. CASE ContinueTask(c)
  <2>1. PICK t \in todo[c] :
          \/ ObeyContinue(t, sig[c]) /\ Visited(c, t)
          \/ FailContinue(t, sig[c]) /\ Goto(c, "hung")
    BY <1>15 DEF ContinueTask
  <2>2. t \in Tasks
    BY DEF TypeOK
  <2>3. TaskTypeOK'
    BY <2>1, <2>2, SMTT(60) DEF TypeOK, TaskTypeOK, ObeyContinue, FailContinue,
       PopWait, AfterInject, LoopGoto, kernel
  <2> QED
    BY <1>15, <2>1, <2>2, <2>3, SMT DEF TypeOK, ContinueTask, Visited, Visit,
       Goto, ctlVars
<1>16. CASE ContinueDone(c)
  BY <1>16, SMT DEF TypeOK, TaskTypeOK, ContinueDone, Goto, taskVars, kernel,
     ctlVars
<1>17. CASE TakeMain(c)
  BY <1>17, SMTT(60) DEF TypeOK, TaskTypeOK, TakeMain, Take, Goto, Visit,
     kernel, ctlVars
<1>18. CASE SendSignal(c)
  BY <1>18, SMT DEF TypeOK, TaskTypeOK, SendSignal, Fail, Visit, ctlVars
<1>19. CASE DropStop(c)
  BY <1>19, SMT DEF TypeOK, TaskTypeOK, DropStop, Visit, kernel, ctlVars
<1> QED
  BY <1>1, <1>2, <1>3, <1>4, <1>5, <1>6, <1>7, <1>8, <1>9, <1>10, <1>11, <1>12,
     <1>13, <1>14, <1>15, <1>16, <1>17, <1>18, <1>19 DEF CallerStep

\* ... and after one step of a loop, of the kernel or from outside.
LEMMA TypesTask ==
  ASSUME TasksAssumption, TypeOK, NEW t \in Tasks,
         LoopStep(t) \/ SignalStep(t) \/ SyscallStep(t)
  PROVE  TypeOK'
<1> USE DEF TasksAssumption, Causes, LoopStates, ThreadStates
<1>1. CASE FunctionRuns(t)
  BY <1>1, SMT DEF TypeOK, TaskTypeOK, FunctionRuns, LoopGoto, kernel, ctlVars
<1>2. CASE /\ WaitSignal(t) \/ WaitSyscall(t) \/ WaitExit(t) \/ Publish(t)
           /\ UNCHANGED <<callVars, ctlVars>>
  BY <1>2, SMT DEF TypeOK, TaskTypeOK, WaitSignal, WaitSyscall, WaitExit,
     Publish, LoopGoto, kernel, callVars, ctlVars
<1>3. CASE SignalStep(t)
  <2>1. CASE SignalStops(t)
    BY <1>3, <2>1, SMT DEF TypeOK, TaskTypeOK, SignalStep, SignalStops,
       NextSignal, callVars, ctlVars
  <2>2. CASE SignalActs(t)
    BY <1>3, <2>2, SMT DEF TypeOK, TaskTypeOK, SignalStep, SignalActs,
       NextSignal, callVars, ctlVars
  <2> QED
    BY <1>3, <2>1, <2>2 DEF SignalStep
<1>4. CASE SyscallStep(t)
  BY <1>4, SMT DEF TypeOK, TaskTypeOK, SyscallStep, SyscallStops, callVars,
     ctlVars
<1> QED
  BY <1>1, <1>2, <1>3, <1>4 DEF LoopStep

LEMMA TypesEnvironment ==
  ASSUME TypeOK, Environment
  PROVE  TypeOK'
<1> USE DEF ThreadStates
<1>1. CASE \E t \in Tasks : OutsideSignal(t) \/ ThreadExits(t)
  BY <1>1, SMT DEF Environment, TypeOK, TaskTypeOK, OutsideSignal, ThreadExits,
     callVars, ctlVars
<1>2. CASE ProcessExits
  BY <1>2, SMT DEF Environment, TypeOK, TaskTypeOK, ProcessExits, callVars,
     ctlVars
<1> QED
  BY <1>1, <1>2 DEF Environment

LEMMA TypesStep ==
  ASSUME TasksAssumption, OperationsAssumption, TypeOK, [Next]_vars
  PROVE  TypeOK'
<1>1. CASE UNCHANGED vars
  BY <1>1 DEF vars, taskVars, kernel, callVars, ctlVars, TypeOK, TaskTypeOK
<1> QED
  BY <1>1, TypesCaller, TypesTask, TypesEnvironment DEF Next

LEMMA TypesFirst ==
  ASSUME TasksAssumption
  PROVE  Init => TypeOK
<1> SUFFICES ASSUME Init PROVE TypeOK
  OBVIOUS
<1>1. TaskTypeOK
  BY SMT DEF Init, TaskInit, TaskTypeOK, LoopStates, ThreadStates
<1>2. attached \in BOOLEAN /\ saved \in BOOLEAN
  BY DEF Init
<1> QED
  BY <1>1, <1>2, SMT DEF TasksAssumption, Init, TypeOK, Stages

\* Each variable has its type, whatever the process does, whoever calls, and in
\* whatever order (controller.go, ptrace.go).
THEOREM TypeCorrect ==
  ASSUME TasksAssumption, OperationsAssumption
  PROVE  Spec => []TypeOK
<1>1. Init => TypeOK
  BY TypesFirst
<1>2. TypeOK /\ [Next]_vars => TypeOK'
  BY TypesStep
<1> QED
  BY <1>1, <1>2, PTL DEF Spec

-----------------------------------------------------------------------------
(* One goroutine uses the controller.                                      *)

\* A thread that is in a stop its loop knows of, or is gone.
Firm(t) == thread[t] \in {"held", "exited"}

\* Every stop on its way through SignalStop is one the thread is in: at the
\* loop that publishes it, in the channel, and with the caller that has taken
\* it out and will put it back.
Honest(t) ==
  /\ loop[t] = "publish" => Firm(t)
  /\ loop[t] = "fixup" => \E c \in Callers : stage[c] = "fixupwait" /\ at[c] = t
  /\ slot[t] # None /\ mode[t] # "free" /\ loop[t] # "fixup" => Firm(t)

Taken(c) ==
  /\ stage[c] = "putback"
  /\ mode[at[c]] # "free"
  /\ loop[at[c]] # "fixup"
  => Firm(at[c])

StopsAreTrue ==
  /\ \A t \in Tasks : Honest(t)
  /\ \A c \in Callers : Taken(c)

\* No task known to the controller has been let go.
AllTraced == \A t \in known : mode[t] # "free"

\* The stages of Stop and Detach.
Stopping(c) == stage[c] \in {"stop", "stopwait", "putback", "detach"}

\* A thread whose loop has ended, and that will never be stopped again: no
\* operation gets past it.
Obstacle(d) ==
  /\ thread[d] = "exited" /\ loop[d] = "ended" /\ slot[d] = None
  /\ \A c \in Callers :
       /\ Stopping(c) /\ op[c] # "pause" => d \in todo[c]
       /\ stage[c] \in {"putback", "detach"} => at[c] # d

\* When a task was let go, the process is being let go, or has been, or a
\* thread that is gone stands in the way of all further operations.
LetGo ==
  \/ AllTraced
  \/ ~attached
  \/ \E c \in Callers : /\ op[c] = "detach"
                        /\ Stopping(c) \/ stage[c] = "hung"
  \/ \E d \in known : Obstacle(d)

\* Stop has stopped the tasks it has visited.
Progress(c) ==
  /\ stage[c] \notin {"idle", "attach", "signal"} => attached
  /\ stage[c] = "attach" => AllTraced
  /\ stage[c] = "detach" => op[c] = "detach"
  /\ Stopping(c) \/ stage[c] = "take" => todo[c] \subseteq known
  /\ /\ stage[c] \in {"stop", "stopwait", "putback"}
     /\ op[c] \notin {"pause", "detach"}
     /\ AllTraced
     => \A t \in known \ todo[c] : Firm(t)
  /\ stage[c] \in {"repair", "fixup", "fixupwait", "function"} =>
       /\ AllTraced
       /\ \A t \in known : Firm(t) \/ (stage[c] = "fixupwait" /\ at[c] = t)

StopsEverything == LetGo /\ \A c \in Callers : Progress(c)

\* The invoker hands a worker to one function at a time; the controller itself
\* has no lock.
OneCaller == \A c, d \in Callers : c = d

LEMMA StopsAreTrueCaller ==
  ASSUME TasksAssumption, OneCaller, TypeOK, StopsAreTrue,
         NEW c \in Callers, Begin(c) \/ CallerStep(c)
  PROVE  StopsAreTrue'
<1> SUFFICES ASSUME NEW t, NEW d
             PROVE  (t \in Tasks => Honest(t)') /\ (d \in Callers => Taken(d)')
  BY DEF StopsAreTrue
<1>0. d \in Callers => d = c
  BY DEF OneCaller
<1> USE DEF TypeOK, TaskTypeOK, StopsAreTrue, Honest, Taken, Firm, taskVars,
           kernel, ctlVars, TasksAssumption
<1>1. CASE Begin(c)
  BY <1>1, <1>0, SMT DEF Begin, Legal, FirstStage, Visit
<1>2. CASE AttachTask(c)
  BY <1>2, <1>0, SMT DEF AttachTask, Seize, CanSeize, LoopGoto, Visited, Visit,
     Fail
<1>3. CASE AttachDone(c)
  BY <1>3, <1>0, SMT DEF AttachDone, Succeed, Goto, Visit
<1>4. CASE StopTakes(c)
  BY <1>4, <1>0, SMT DEF StopTakes, Take, Goto
<1>5. CASE StopSends(c)
  BY <1>5, <1>0, SMT DEF StopSends, Fail, Visit, Goto
<1>6. CASE StopWaited(c)
  BY <1>6, <1>0, SMT DEF StopWaited, Take, Goto
<1>7. CASE PutBack(c)
  BY <1>7, <1>0, SMT DEF PutBack, Visit, Goto
<1>8. CASE DetachTask(c)
  BY <1>8, <1>0, SMT DEF DetachTask, ObeyDetach, FailDetach, LoopGoto, Visit,
     Goto
<1>9. CASE StopDone(c)
  BY <1>9, <1>0, SMT DEF StopDone, Succeed, Fail, Visit, Goto
<1>10. CASE Repair(c)
  BY <1>10, <1>0, SMT DEF Repair, RunSyscall, ObeySyscall, Fail, Visit, Goto
<1>11. CASE FixupSend(c)
  BY <1>11, <1>0, SMT DEF FixupSend, LoopGoto, Fail, Visit, Goto
<1>12. CASE FixupDone(c)
  BY <1>12, <1>0, SMT DEF FixupDone, LoopGoto, Visit
<1>13. CASE FunctionSend(c)
  BY <1>13, <1>0, SMT DEF FunctionSend, ObeyFunction, LoopGoto, Visited, Visit
<1>14. CASE FunctionsDone(c)
  BY <1>14, <1>0, SMT DEF FunctionsDone, Fail, Visit
<1>15. CASE ContinueTask(c)
  BY <1>15, <1>0, SMT DEF ContinueTask, ObeyContinue, FailContinue,
     CanContinue, PopWait, LoopGoto, Visited, Visit, Goto
<1>16. CASE ContinueDone(c)
  BY <1>16, <1>0, SMT DEF ContinueDone, Goto
<1>17. CASE TakeMain(c)
  BY <1>17, <1>0, SMT DEF TakeMain, Take, Goto, Visit
<1>18. CASE SendSignal(c)
  BY <1>18, <1>0, SMT DEF SendSignal, Fail, Visit
<1>19. CASE DropStop(c)
  BY <1>19, <1>0, SMT DEF DropStop, Visit
<1> QED
  BY <1>1, <1>2, <1>3, <1>4, <1>5, <1>6, <1>7, <1>8, <1>9, <1>10, <1>11, <1>12,
     <1>13, <1>14, <1>15, <1>16, <1>17, <1>18, <1>19 DEF CallerStep

LEMMA StopsAreTrueTask ==
  ASSUME TypeOK, StopsAreTrue, NEW t \in Tasks,
         LoopStep(t) \/ SignalStep(t) \/ SyscallStep(t)
  PROVE  StopsAreTrue'
<1> SUFFICES ASSUME NEW u, NEW d
             PROVE  (u \in Tasks => Honest(u)') /\ (d \in Callers => Taken(d)')
  BY DEF StopsAreTrue
<1> USE DEF TypeOK, TaskTypeOK, StopsAreTrue, Honest, Taken, Firm, kernel,
           ctlVars, callVars
<1>1. CASE FunctionRuns(t)
  BY <1>1, SMT DEF FunctionRuns, LoopGoto
<1>2. CASE /\ WaitSignal(t) \/ WaitSyscall(t) \/ WaitExit(t) \/ Publish(t)
           /\ UNCHANGED <<callVars, ctlVars>>
  BY <1>2, SMT DEF WaitSignal, WaitSyscall, WaitExit, Publish, LoopGoto
<1>3. CASE SignalStep(t)
  BY <1>3, SMT DEF SignalStep, SignalStops, SignalActs
<1>4. CASE SyscallStep(t)
  BY <1>4, SMT DEF SyscallStep, SyscallStops
<1> QED
  BY <1>1, <1>2, <1>3, <1>4 DEF LoopStep

LEMMA StopsAreTrueEnvironment ==
  ASSUME TypeOK, StopsAreTrue, Environment
  PROVE  StopsAreTrue'
<1> SUFFICES ASSUME NEW u, NEW d
             PROVE  (u \in Tasks => Honest(u)') /\ (d \in Callers => Taken(d)')
  BY DEF StopsAreTrue
<1> QED
  BY SMT DEF Environment, OutsideSignal, ThreadExits, ProcessExits, callVars,
             ctlVars, TypeOK, TaskTypeOK, StopsAreTrue, Honest, Taken, Firm

LEMMA StopsAreTrueStep ==
  ASSUME TasksAssumption, OneCaller, TypeOK, StopsAreTrue, [Next]_vars
  PROVE  StopsAreTrue'
<1>1. CASE UNCHANGED vars
  BY <1>1 DEF vars, taskVars, kernel, callVars, ctlVars, StopsAreTrue, Honest,
     Taken, Firm
<1> QED
  BY <1>1, StopsAreTrueCaller, StopsAreTrueTask,
     StopsAreTrueEnvironment DEF Next

\* A stop that is in SignalStop is one the thread is in, with signals from
\* outside, threads that end and a process that dies: Stop, which believes it
\* without looking, is right to (ptrace.go:341).
THEOREM SlotsAreHonest ==
  ASSUME TasksAssumption, OperationsAssumption, OneCaller
  PROVE  Spec => []SlotHonest
<1>1. Init => StopsAreTrue
  BY DEF Init, TaskInit, StopsAreTrue, Honest, Taken
<1>2. TypeOK /\ StopsAreTrue /\ [Next]_vars => StopsAreTrue'
  BY StopsAreTrueStep
<1>3. TypeOK /\ StopsAreTrue => SlotHonest
  BY DEF TypeOK, StopsAreTrue, Honest, Firm, SlotHonest
<1> QED
  BY <1>1, <1>2, <1>3, TypeCorrect, PTL DEF Spec

LEMMA StopsEverythingCaller ==
  ASSUME TasksAssumption, OneCaller, TypeOK, StopsAreTrue, StopsEverything,
         NEW c \in Callers, Begin(c) \/ CallerStep(c)
  PROVE  StopsEverything'
<1>0. \A d \in Callers : d = c
  BY DEF OneCaller
<1> SUFFICES LetGo' /\ Progress(c)'
  BY <1>0 DEF StopsEverything
<1> USE DEF TypeOK, TaskTypeOK, StopsAreTrue, Honest, Taken, Firm,
           StopsEverything, LetGo, AllTraced, Obstacle, Progress, Stopping,
           taskVars, kernel, ctlVars, TasksAssumption
<1>1. CASE Begin(c)
  <2>1. LetGo'
    BY <1>0, <1>1, SMT DEF Begin, Legal, FirstStage, Visit
  <2>2. Progress(c)'
    BY <1>0, <1>1, SMT DEF Begin, Legal, FirstStage, Visit
  <2> QED
    BY <2>1, <2>2
<1>2. CASE AttachTask(c)
  <2>1. LetGo'
    BY <1>0, <1>2, SMT DEF AttachTask, Seize, CanSeize, LoopGoto, Visited,
       Visit, Fail
  <2>2. Progress(c)'
    BY <1>0, <1>2, SMT DEF AttachTask, Seize, CanSeize, LoopGoto, Visited,
       Visit, Fail
  <2> QED
    BY <2>1, <2>2
<1>3. CASE AttachDone(c)
  <2>1. LetGo'
    BY <1>0, <1>3, SMT DEF AttachDone, Succeed, Goto, Visit
  <2>2. Progress(c)'
    BY <1>0, <1>3, SMT DEF AttachDone, Succeed, Goto, Visit
  <2> QED
    BY <2>1, <2>2
<1>4. CASE StopTakes(c)
  <2>1. LetGo'
    BY <1>0, <1>4, SMT DEF StopTakes, Take, Goto
  <2>2. Progress(c)'
    BY <1>0, <1>4, SMT DEF StopTakes, Take, Goto
  <2> QED
    BY <2>1, <2>2
<1>5. CASE StopSends(c)
  <2>1. LetGo'
    BY <1>0, <1>5, SMT DEF StopSends, Fail, Visit, Goto
  <2>2. Progress(c)'
    BY <1>0, <1>5, SMT DEF StopSends, Fail, Visit, Goto
  <2> QED
    BY <2>1, <2>2
<1>6. CASE StopWaited(c)
  <2>1. LetGo'
    BY <1>0, <1>6, SMT DEF StopWaited, Take, Goto
  <2>2. Progress(c)'
    BY <1>0, <1>6, SMT DEF StopWaited, Take, Goto
  <2> QED
    BY <2>1, <2>2
<1>7. CASE PutBack(c)
  <2>1. LetGo'
    BY <1>0, <1>7, SMT DEF PutBack, Visit, Goto
  <2>2. Progress(c)'
    BY <1>0, <1>7, SMT DEF PutBack, Visit, Goto
  <2> QED
    BY <2>1, <2>2
<1>8. CASE DetachTask(c)
  <2>1. LetGo'
    BY <1>0, <1>8, SMT DEF DetachTask, ObeyDetach, FailDetach, LoopGoto, Visit,
       Goto
  <2>2. Progress(c)'
    BY <1>0, <1>8, SMT DEF DetachTask, ObeyDetach, FailDetach, LoopGoto, Visit,
       Goto
  <2> QED
    BY <2>1, <2>2
<1>9. CASE StopDone(c)
  <2>1. LetGo'
    <3>1. CASE op[c] = "detach"
      BY <1>9, <3>1 DEF StopDone, LetGo
    <3>2. CASE op[c] # "detach" /\ AllTraced
      BY <1>9, <3>2 DEF StopDone, LetGo, AllTraced
    <3>3. CASE op[c] # "detach" /\ ~AllTraced
      BY <1>0, <1>9, <3>3, SMT DEF StopDone
    <3> QED
      BY <3>1, <3>2, <3>3
  <2>2. Progress(c)'
    BY <1>0, <1>9, SMT DEF StopDone, Succeed, Fail, Visit, Goto
  <2> QED
    BY <2>1, <2>2
<1>10. CASE Repair(c)
  <2>1. LetGo'
    BY <1>0, <1>10, SMT DEF Repair, RunSyscall, ObeySyscall, Fail, Visit, Goto
  <2>2. Progress(c)'
    BY <1>0, <1>10, SMT DEF Repair, RunSyscall, ObeySyscall, Fail, Visit, Goto
  <2> QED
    BY <2>1, <2>2
<1>11. CASE FixupSend(c)
  <2>1. LetGo'
    BY <1>0, <1>11, SMT DEF FixupSend, LoopGoto, Fail, Visit, Goto
  <2>2. Progress(c)'
    BY <1>0, <1>11, SMT DEF FixupSend, LoopGoto, Fail, Visit, Goto
  <2> QED
    BY <2>1, <2>2
<1>12. CASE FixupDone(c)
  <2>1. LetGo'
    BY <1>0, <1>12, SMT DEF FixupDone, LoopGoto, Visit
  <2>2. Progress(c)'
    BY <1>0, <1>12, SMT DEF FixupDone, LoopGoto, Visit
  <2> QED
    BY <2>1, <2>2
<1>13. CASE FunctionSend(c)
  <2>1. LetGo'
    BY <1>0, <1>13, SMT DEF FunctionSend, ObeyFunction, LoopGoto, Visited,
       Visit
  <2>2. Progress(c)'
    BY <1>0, <1>13, SMT DEF FunctionSend, ObeyFunction, LoopGoto, Visited,
       Visit
  <2> QED
    BY <2>1, <2>2
<1>14. CASE FunctionsDone(c)
  <2>1. LetGo'
    BY <1>0, <1>14, SMT DEF FunctionsDone, Fail, Visit
  <2>2. Progress(c)'
    BY <1>0, <1>14, SMT DEF FunctionsDone, Fail, Visit
  <2> QED
    BY <2>1, <2>2
<1>15. CASE ContinueTask(c)
  <2>1. LetGo'
    BY <1>0, <1>15, SMT DEF ContinueTask, ObeyContinue, FailContinue,
       CanContinue, PopWait, LoopGoto, Visited, Visit, Goto
  <2>2. Progress(c)'
    BY <1>0, <1>15, SMT DEF ContinueTask, ObeyContinue, FailContinue,
       CanContinue, PopWait, LoopGoto, Visited, Visit, Goto
  <2> QED
    BY <2>1, <2>2
<1>16. CASE ContinueDone(c)
  <2>1. LetGo'
    BY <1>0, <1>16, SMT DEF ContinueDone, Goto
  <2>2. Progress(c)'
    BY <1>0, <1>16, SMT DEF ContinueDone, Goto
  <2> QED
    BY <2>1, <2>2
<1>17. CASE TakeMain(c)
  <2>1. LetGo'
    BY <1>0, <1>17, SMT DEF TakeMain, Take, Goto, Visit
  <2>2. Progress(c)'
    BY <1>0, <1>17, SMT DEF TakeMain, Take, Goto, Visit
  <2> QED
    BY <2>1, <2>2
<1>18. CASE SendSignal(c)
  <2>1. LetGo'
    BY <1>0, <1>18, SMT DEF SendSignal, Fail, Visit
  <2>2. Progress(c)'
    BY <1>0, <1>18, SMT DEF SendSignal, Fail, Visit
  <2> QED
    BY <2>1, <2>2
<1>19. CASE DropStop(c)
  <2>1. LetGo'
    BY <1>0, <1>19, SMT DEF DropStop, Visit
  <2>2. Progress(c)'
    BY <1>0, <1>19, SMT DEF DropStop, Visit
  <2> QED
    BY <2>1, <2>2
<1> QED
  BY <1>1, <1>2, <1>3, <1>4, <1>5, <1>6, <1>7, <1>8, <1>9, <1>10, <1>11, <1>12,
     <1>13, <1>14, <1>15, <1>16, <1>17, <1>18, <1>19 DEF CallerStep

LEMMA StopsEverythingTask ==
  ASSUME TypeOK, StopsAreTrue, StopsEverything, NEW t \in Tasks,
         LoopStep(t) \/ SignalStep(t) \/ SyscallStep(t)
  PROVE  StopsEverything'
<1> SUFFICES ASSUME NEW d
             PROVE  LetGo' /\ (d \in Callers => Progress(d)')
  BY DEF StopsEverything
<1> USE DEF TypeOK, TaskTypeOK, StopsAreTrue, Honest, Firm, StopsEverything,
           LetGo, AllTraced, Obstacle, Progress, Stopping, kernel, ctlVars,
           callVars
<1>1. CASE FunctionRuns(t)
  BY <1>1, SMT DEF FunctionRuns, LoopGoto
<1>2. CASE /\ WaitSignal(t) \/ WaitSyscall(t) \/ WaitExit(t) \/ Publish(t)
           /\ UNCHANGED <<callVars, ctlVars>>
  BY <1>2, SMT DEF WaitSignal, WaitSyscall, WaitExit, Publish, LoopGoto
<1>3. CASE SignalStep(t)
  BY <1>3, SMT DEF SignalStep, SignalStops, SignalActs
<1>4. CASE SyscallStep(t)
  BY <1>4, SMT DEF SyscallStep, SyscallStops
<1> QED
  BY <1>1, <1>2, <1>3, <1>4 DEF LoopStep

LEMMA StopsEverythingEnvironment ==
  ASSUME TypeOK, StopsEverything, Environment
  PROVE  StopsEverything'
<1> SUFFICES ASSUME NEW d
             PROVE  LetGo' /\ (d \in Callers => Progress(d)')
  BY DEF StopsEverything
<1> QED
  BY SMT DEF Environment, OutsideSignal, ThreadExits, ProcessExits, callVars,
             ctlVars, TypeOK, TaskTypeOK, StopsEverything, LetGo, AllTraced,
             Obstacle, Progress, Stopping, Firm

LEMMA StopsEverythingStep ==
  ASSUME TasksAssumption, OneCaller, TypeOK, StopsAreTrue, StopsEverything,
         [Next]_vars
  PROVE  StopsEverything'
<1>1. CASE UNCHANGED vars
  BY <1>1 DEF vars, taskVars, kernel, callVars, ctlVars, StopsEverything,
              LetGo, AllTraced, Obstacle, Progress, Stopping, Firm
<1> QED
  BY <1>1, StopsEverythingCaller, StopsEverythingTask,
     StopsEverythingEnvironment DEF Next

\* While an operation reads or writes registers and memory every thread is
\* stopped, though threads end and signals come at any time, and operations
\* fail half way, Detach among them (controller.go:457).
THEOREM StoppedThroughout ==
  ASSUME TasksAssumption, OperationsAssumption, OneCaller
  PROVE  Spec => []StoppedWhileWorking
<1>1. Init => StopsAreTrue /\ StopsEverything
  BY DEF Init, TaskInit, StopsAreTrue, Honest, Taken, StopsEverything, LetGo,
         Progress, Stopping
<1>2. /\ TypeOK /\ StopsAreTrue /\ StopsEverything /\ [Next]_vars
      => StopsAreTrue' /\ StopsEverything'
  BY StopsAreTrueStep, StopsEverythingStep
<1>3. StopsEverything => StoppedWhileWorking
  BY DEF StopsEverything, Progress, Firm, StoppedWhileWorking
<1> QED
  BY <1>1, <1>2, <1>3, TypeCorrect, PTL DEF Spec

-----------------------------------------------------------------------------
(* One caller, and nothing else disturbs the process.                      *)

\* The operations of the invoker and of the CRI service; no signals but those
\* of Stop, no deaths, and a trace output that works.
QuietAssumption ==
  /\ Operations \subseteq {"activate", "attach", "checkpoint", "restore",
                           "detach", "stop", "continue"}
  /\ Behaviours \subseteq {"strace"}

\* A task nobody knows; one that goes on, between system calls that are traced;
\* one whose loop serves orders, its stop in SignalStop.
Fresh(t) ==
  /\ thread[t] = "runs" /\ mode[t] = "free" /\ loop[t] = "none"
  /\ slot[t] = None /\ pending[t] = {}

Goes(t) ==
  /\ \/ thread[t] = "runs"
     \/ thread[t] = "stopped" /\ cause[t] = "SYSCALL"
  /\ mode[t] # "free" /\ loop[t] = "wait"
  /\ slot[t] = None /\ pending[t] = {}

Serves(t) ==
  /\ thread[t] = "held" /\ mode[t] # "free" /\ loop[t] \in {"orders", "function"}
  /\ pending[t] = {}

Parked(t) == Serves(t) /\ slot[t] # None

\* One that Stop has sent a SIGSTOP to, and waits for: the signal is pending,
\* or the thread is in the stop, or the loop has seen it.
Halting(t) ==
  /\ \E c \in Callers : stage[c] = "stopwait" /\ at[c] = t
  /\ mode[t] # "free" /\ slot[t] = None
  /\ \/ /\ pending[t] = {"STOP"} /\ loop[t] = "wait"
        /\ \/ thread[t] = "runs"
           \/ thread[t] = "stopped" /\ cause[t] = "SYSCALL"
     \/ /\ pending[t] = {} /\ cause[t] = "STOP"
        /\ \/ thread[t] = "stopped" /\ loop[t] = "wait"
           \/ thread[t] = "held" /\ loop[t] = "publish"

\* One whose stop Stop has taken out; one that runs to its next system call
\* for FixupSyscallState; one that Detach has let go.
InHand(t) ==
  /\ \E c \in Callers : stage[c] = "putback" /\ at[c] = t
  /\ Serves(t) /\ slot[t] = None

Fixing(t) ==
  /\ \E c \in Callers : stage[c] = "fixupwait" /\ at[c] = t
  /\ thread[t] \in {"runs", "stopped"} /\ mode[t] # "free" /\ loop[t] = "fixup"
  /\ slot[t] # None /\ pending[t] = {}

Gone(t) ==
  /\ \A c \in Callers :
       \/ stage[c] = "idle" /\ ~attached
       \/ Stopping(c) /\ op[c] = "detach" /\ t \notin todo[c]
  /\ thread[t] = "runs" /\ mode[t] = "free" /\ loop[t] = "ended"
  /\ pending[t] = {}

TaskInStep(t) ==
  IF t \in known
  THEN Goes(t) \/ Parked(t) \/ Halting(t) \/ InHand(t) \/ Fixing(t) \/ Gone(t)
  ELSE Fresh(t)

\* What the caller may count on at each stage.
CallerInStep(c) ==
  /\ op[c] \in Operations \cup {None}
  /\ stage[c] \notin {"signal", "drop", "take"}
  /\ stage[c] # "putback" => sig[c] = None
  /\ stage[c] = "putback" => InHand(at[c]) /\ sig[c] # None
  /\ stage[c] = "detach" => Parked(at[c]) /\ op[c] = "detach"
  /\ stage[c] \in {"stopwait", "putback", "detach"} => at[c] \in known
  /\ stage[c] = "stopwait" => at[c] \in todo[c]
  /\ Stopping(c) => todo[c] \subseteq known
  /\ stage[c] = "continue" => \A t \in known \ todo[c] : Goes(t)
  /\ stage[c] = "idle" /\ op[c] \in {"activate", "checkpoint", "restore"} =>
       \A t \in known : Goes(t)

InStep ==
  /\ \A t \in Tasks : TaskInStep(t)
  /\ \A c \in Callers : CallerInStep(c)

LEMMA InStepCaller ==
  ASSUME TasksAssumption, OperationsAssumption, OneCaller, QuietAssumption, TypeOK, InStep,
         NEW c \in Callers, Begin(c) \/ CallerStep(c)
  PROVE  InStep'
<1>0. \A d \in Callers : d = c
  BY DEF OneCaller
<1> SUFFICES ASSUME NEW u \in Tasks
             PROVE  TaskInStep(u)' /\ CallerInStep(c)'
  BY <1>0 DEF InStep, TasksAssumption
<1> USE DEF TypeOK, TaskTypeOK, InStep, TaskInStep, CallerInStep, Fresh, Goes,
           Serves, Parked, Halting, InHand, Fixing, Gone, Stopping, taskVars,
           kernel, ctlVars, TasksAssumption, OperationsAssumption,
           OperationKinds, QuietAssumption, Causes
<1>1. CASE Begin(c)
  <2>1. TaskInStep(u)'
    BY <1>0, <1>1, SMT DEF Begin, Legal, FirstStage, Visit
  <2>2. CallerInStep(c)'
    BY <1>0, <1>1, SMT DEF Begin, Legal, FirstStage, Visit
  <2> QED
    BY <2>1, <2>2
<1>2. CASE AttachTask(c)
  <2>1. TaskInStep(u)'
    BY <1>0, <1>2, SMT DEF AttachTask, Seize, CanSeize, LoopGoto, Visited,
       Visit, Fail
  <2>2. CallerInStep(c)'
    BY <1>0, <1>2, SMT DEF AttachTask, Seize, CanSeize, LoopGoto, Visited,
       Visit, Fail
  <2> QED
    BY <2>1, <2>2
<1>3. CASE AttachDone(c)
  <2>1. TaskInStep(u)'
    BY <1>0, <1>3, SMT DEF AttachDone, Succeed, Goto, Visit
  <2>2. CallerInStep(c)'
    BY <1>0, <1>3, SMT DEF AttachDone, Succeed, Goto, Visit
  <2> QED
    BY <2>1, <2>2
<1>4. CASE StopTakes(c)
  <2>1. TaskInStep(u)'
    BY <1>0, <1>4, SMT DEF StopTakes, Take, Goto
  <2>2. CallerInStep(c)'
    BY <1>0, <1>4, SMT DEF StopTakes, Take, Goto
  <2> QED
    BY <2>1, <2>2
<1>5. CASE StopSends(c)
  <2>1. TaskInStep(u)'
    BY <1>0, <1>5, SMT DEF StopSends, Fail, Visit, Goto
  <2>2. CallerInStep(c)'
    BY <1>0, <1>5, SMT DEF StopSends, Fail, Visit, Goto
  <2> QED
    BY <2>1, <2>2
<1>6. CASE StopWaited(c)
  <2>1. TaskInStep(u)'
    BY <1>0, <1>6, SMT DEF StopWaited, Take, Goto
  <2>2. CallerInStep(c)'
    BY <1>0, <1>6, SMT DEF StopWaited, Take, Goto
  <2> QED
    BY <2>1, <2>2
<1>7. CASE PutBack(c)
  <2>1. TaskInStep(u)'
    BY <1>0, <1>7, SMT DEF PutBack, Visit, Goto
  <2>2. CallerInStep(c)'
    BY <1>0, <1>7, SMT DEF PutBack, Visit, Goto
  <2> QED
    BY <2>1, <2>2
<1>8. CASE DetachTask(c)
  <2>1. TaskInStep(u)'
    BY <1>0, <1>8, SMT DEF DetachTask, ObeyDetach, FailDetach, LoopGoto, Visit,
       Goto
  <2>2. CallerInStep(c)'
    BY <1>0, <1>8, SMT DEF DetachTask, ObeyDetach, FailDetach, LoopGoto, Visit,
       Goto
  <2> QED
    BY <2>1, <2>2
<1>9. CASE StopDone(c)
  <2>1. TaskInStep(u)'
    <3>1. op[c] = "detach" => ~attached' /\ stage' = [stage EXCEPT ![c] = "idle"]
      BY <1>9 DEF StopDone, Succeed, Goto
    <3>2. stage[c] = "stop" /\ stage'[c] \in {"idle", "function", "repair"}
      BY <1>9 DEF StopDone, Succeed, Fail, Visit, Goto
    <3>3. UNCHANGED <<taskVars, known, at>>
      BY <1>9 DEF StopDone
    <3>4. CASE op[c] = "detach"
      BY <1>0, <3>1, <3>2, <3>3, <3>4, SMT
    <3>5. CASE op[c] # "detach"
      BY <1>0, <3>2, <3>3, <3>5, SMT
    <3> QED
      BY <3>4, <3>5
  <2>2. CallerInStep(c)'
    BY <1>0, <1>9, SMT DEF StopDone, Succeed, Fail, Visit, Goto
  <2> QED
    BY <2>1, <2>2
<1>10. CASE Repair(c)
  <2>1. TaskInStep(u)'
    BY <1>0, <1>10, SMT DEF Repair, RunSyscall, ObeySyscall, Fail, Visit, Goto,
       SyscallMade
  <2>2. CallerInStep(c)'
    BY <1>0, <1>10, SMT DEF Repair, RunSyscall, ObeySyscall, Fail, Visit, Goto,
       SyscallMade
  <2> QED
    BY <2>1, <2>2
<1>11. CASE FixupSend(c)
  <2>1. TaskInStep(u)'
    BY <1>0, <1>11, SMT DEF FixupSend, LoopGoto, Fail, Visit, Goto
  <2>2. CallerInStep(c)'
    BY <1>0, <1>11, SMT DEF FixupSend, LoopGoto, Fail, Visit, Goto
  <2> QED
    BY <2>1, <2>2
<1>12. CASE FixupDone(c)
  <2>1. TaskInStep(u)'
    BY <1>0, <1>12, SMT DEF FixupDone, LoopGoto, Visit
  <2>2. CallerInStep(c)'
    BY <1>0, <1>12, SMT DEF FixupDone, LoopGoto, Visit
  <2> QED
    BY <2>1, <2>2
<1>13. CASE FunctionSend(c)
  <2>1. TaskInStep(u)'
    BY <1>0, <1>13, SMT DEF FunctionSend, ObeyFunction, LoopGoto, Visited,
       Visit
  <2>2. CallerInStep(c)'
    BY <1>0, <1>13, SMT DEF FunctionSend, ObeyFunction, LoopGoto, Visited,
       Visit
  <2> QED
    BY <2>1, <2>2
<1>14. CASE FunctionsDone(c)
  <2>1. TaskInStep(u)'
    BY <1>0, <1>14, SMT DEF FunctionsDone, Fail, Visit
  <2>2. CallerInStep(c)'
    BY <1>0, <1>14, SMT DEF FunctionsDone, Fail, Visit
  <2> QED
    BY <2>1, <2>2
<1>15. CASE ContinueTask(c)
  <2>1. TaskInStep(u)'
    BY <1>0, <1>15, SMT DEF ContinueTask, ObeyContinue, FailContinue,
       CanContinue, PopWait, LoopGoto, Visited, Visit, Goto, AfterInject
  <2>2. CallerInStep(c)'
    BY <1>0, <1>15, SMTT(60) DEF ContinueTask, ObeyContinue, FailContinue,
       CanContinue, PopWait, LoopGoto, Visited, Visit, Goto, AfterInject
  <2> QED
    BY <2>1, <2>2
<1>16. CASE ContinueDone(c)
  <2>1. TaskInStep(u)'
    BY <1>0, <1>16, SMT DEF ContinueDone, Goto
  <2>2. CallerInStep(c)'
    BY <1>0, <1>16, SMT DEF ContinueDone, Goto
  <2> QED
    BY <2>1, <2>2
<1>17. CASE TakeMain(c)
  <2>1. TaskInStep(u)'
    BY <1>0, <1>17, SMT DEF TakeMain, Take, Goto, Visit
  <2>2. CallerInStep(c)'
    BY <1>0, <1>17, SMT DEF TakeMain, Take, Goto, Visit
  <2> QED
    BY <2>1, <2>2
<1>18. CASE SendSignal(c)
  <2>1. TaskInStep(u)'
    BY <1>0, <1>18, SMT DEF SendSignal, Fail, Visit
  <2>2. CallerInStep(c)'
    BY <1>0, <1>18, SMT DEF SendSignal, Fail, Visit
  <2> QED
    BY <2>1, <2>2
<1>19. CASE DropStop(c)
  <2>1. TaskInStep(u)'
    BY <1>0, <1>19, SMT DEF DropStop, Visit
  <2>2. CallerInStep(c)'
    BY <1>0, <1>19, SMT DEF DropStop, Visit
  <2> QED
    BY <2>1, <2>2
<1> QED
  BY <1>1, <1>2, <1>3, <1>4, <1>5, <1>6, <1>7, <1>8, <1>9, <1>10, <1>11, <1>12,
     <1>13, <1>14, <1>15, <1>16, <1>17, <1>18, <1>19 DEF CallerStep

LEMMA InStepTask ==
  ASSUME TasksAssumption, OneCaller, QuietAssumption, TypeOK, InStep,
         NEW t \in Tasks, LoopStep(t) \/ SignalStep(t) \/ SyscallStep(t)
  PROVE  InStep'
<1> SUFFICES ASSUME NEW u, NEW d
             PROVE  /\ u \in Tasks => TaskInStep(u)'
                    /\ d \in Callers => CallerInStep(d)'
  BY DEF InStep
<1> USE DEF TypeOK, TaskTypeOK, InStep, TaskInStep, CallerInStep, Fresh, Goes,
           Serves, Parked, Halting, InHand, Fixing, Gone, Stopping, kernel,
           ctlVars, callVars, OneCaller, TasksAssumption, QuietAssumption,
           Causes
<1>1. CASE FunctionRuns(t)
  BY <1>1, SMT DEF FunctionRuns, LoopGoto
<1>2. CASE /\ WaitSignal(t) \/ WaitSyscall(t) \/ WaitExit(t) \/ Publish(t)
           /\ UNCHANGED <<callVars, ctlVars>>
  <2>1. CASE WaitSignal(t)
    BY <1>2, <2>1, SMT DEF WaitSignal, LoopGoto
  <2>2. CASE WaitSyscall(t)
    BY <1>2, <2>2, SMT DEF WaitSyscall, LoopGoto
  <2>3. CASE WaitExit(t)
    BY <1>2, <2>3, SMT DEF WaitExit, LoopGoto
  <2>4. CASE Publish(t)
    BY <1>2, <2>4, SMT DEF Publish, LoopGoto
  <2> QED
    BY <1>2, <2>1, <2>2, <2>3, <2>4
<1>3. CASE SignalStep(t)
  BY <1>3, SMT DEF SignalStep, SignalStops, SignalActs, NextSignal
<1>4. CASE SyscallStep(t)
  BY <1>4, SMT DEF SyscallStep, SyscallStops
<1> QED
  BY <1>1, <1>2, <1>3, <1>4 DEF LoopStep

LEMMA InStepStep ==
  ASSUME TasksAssumption, OperationsAssumption, OneCaller, QuietAssumption,
         TypeOK, InStep, [Next]_vars
  PROVE  InStep'
<1>1. CASE UNCHANGED vars
  BY <1>1 DEF vars, taskVars, kernel, callVars, ctlVars, InStep, TaskInStep,
              CallerInStep, Fresh, Goes, Serves, Parked, Halting, InHand,
              Fixing, Gone, Stopping
<1>2. ~Environment
  BY DEF Environment, OutsideSignal, ThreadExits, ProcessExits, QuietAssumption
<1> QED
  BY <1>1, <1>2, InStepCaller, InStepTask DEF Next

LEMMA InStepFirst ==
  ASSUME TasksAssumption, OperationsAssumption
  PROVE  Init => InStep
BY DEF TasksAssumption, OperationsAssumption, OperationKinds, Init, TaskInit,
       InStep, TaskInStep, CallerInStep, Fresh, Stopping

LEMMA InStepShows ==
  ASSUME TasksAssumption, OneCaller, TypeOK, InStep
  PROVE  LeavesItRunning /\ NoStrayStop
<1>1. LeavesItRunning
  BY DEF TypeOK, InStep, CallerInStep, Goes, LeavesItRunning
<1>2. NoStrayStop
  BY DEF InStep, TaskInStep, Fresh, Goes, Serves, Parked, Halting, InHand,
         Fixing, Gone, NoStrayStop
<1> QED
  BY <1>1, <1>2

\* However many threads the process has, and however the operations follow
\* each other: a SIGSTOP is used up by the Stop that sent it, and when
\* Activate, TakeCheckpoint or Restore has returned all threads run, or are at
\* a system call that is traced (ptrace.go:351, controller.go:424).
THEOREM LeavesNothingBehind ==
  ASSUME TasksAssumption, OperationsAssumption, OneCaller, QuietAssumption
  PROVE  Spec => [](LeavesItRunning /\ NoStrayStop)
<1>1. Init => InStep
  BY InStepFirst
<1>2. TypeOK /\ InStep /\ [Next]_vars => InStep'
  BY InStepStep
<1>3. TypeOK /\ InStep => LeavesItRunning /\ NoStrayStop
  BY InStepShows
<1> QED
  BY <1>1, <1>2, <1>3, TypeCorrect, PTL DEF Spec

\* The same of the first of the scenarios that are model-checked, with any
\* number of threads.
THEOREM NobodyIsLeftBehind ==
  ASSUME TasksAssumption, OperationsAssumption, OneCaller, QuietAssumption
  PROVE  MCSpec => []NobodyLeftBehind
<1> DEFINE I == scenario = "quiet" => TypeOK /\ InStep
<1>1. MCInit => I
  <2>1. Init => TypeOK
    BY TypesFirst
  <2> QED
    BY <2>1, InStepFirst DEF MCInit
<1>2. I /\ [MCNext]_mcVars => I'
  <2> SUFFICES ASSUME I, [MCNext]_mcVars, scenario' = "quiet"
               PROVE  TypeOK' /\ InStep'
    OBVIOUS
  <2>1. scenario = "quiet" /\ [Next]_vars
    BY DEF MCNext, QuietNext, SignalsNext, DiesNext, AwaitNext, mcVars
  <2> QED
    BY <2>1, TypesStep, InStepStep
<1>3. I => NobodyLeftBehind
  BY InStepShows DEF NobodyLeftBehind
<1> QED
  BY <1>1, <1>2, <1>3, PTL DEF MCSpec

=============================================================================
