------------------------------- MODULE Worker -------------------------------
(***************************************************************************)
(* The life of a worker (src/worker/worker.go): Start makes a snapshot, a  *)
(* container and a task and runs its process, Activate takes the process   *)
(* under control, every other operation is its controller's, End kills it  *)
(* and removes what Start made.                                            *)
(*                                                                         *)
(* Abstractions: what containerd keeps of a worker is a flag per resource; *)
(* the operations of the controller, which Controller models, succeed or   *)
(* fail as a whole; the process may end at any moment.                     *)
(***************************************************************************)
EXTENDS Naturals, FiniteSets

CONSTANTS
  Workers,  \* the workers
  Faults    \* calls that may fail, see FaultKinds

FaultKinds == {"snapshot", "container", "task", "wait", "run", "ip", "exit",
               "activate", "kill", "delete", "remove"}

ASSUME WorkerAssumption == Faults \subseteq FaultKinds

VARIABLES
  snapshot,   \* workers whose snapshot containerd has
  container,  \* workers whose container it has
  task,       \* the task it has of each: "none" | "created" | "running" | "exited"
  held,       \* which of Fields the Worker has set, its pipes included
  attached,   \* whether its controller traces the process
  pc,         \* where each worker is in Start or End
  result      \* what the last call returned: "none" | "ok" | "error"

workerVars == <<snapshot, container, task, held, attached, pc, result>>

Fields == {"container", "streams", "task", "exitChan"}

WorkerTypeOK ==
  /\ snapshot \subseteq Workers
  /\ container \subseteq Workers
  /\ task \in [Workers -> {"none", "created", "running", "exited"}]
  /\ held \in [Workers -> SUBSET Fields]
  /\ attached \in [Workers -> BOOLEAN]
  /\ pc \in [Workers -> {"new", "snapshot", "container", "task", "wait", "run", "pid", "started",
                         "end", "kill", "exit", "delete", "remove", "ended", "hung"}]
  /\ result \in [Workers -> {"none", "ok", "error"}]

WorkerInit ==
  /\ snapshot = {}
  /\ container = {}
  /\ task = [w \in Workers |-> "none"]
  /\ held = [w \in Workers |-> {}]
  /\ attached = [w \in Workers |-> FALSE]
  /\ pc = [w \in Workers |-> "new"]
  /\ result = [w \in Workers |-> "none"]

-----------------------------------------------------------------------------
At(w, p) == pc[w] = p
Goto(w, p) == pc' = [pc EXCEPT ![w] = p] /\ UNCHANGED result
Return(w, p, r) == pc' = [pc EXCEPT ![w] = p] /\ result' = [result EXCEPT ![w] = r]

\* A call that is made, or returns an error.
Call(w, fault, next, p) ==
  \/ next /\ Goto(w, p)
  \/ fault \in Faults /\ Return(w, "started", "error") /\ UNCHANGED <<snapshot, container, task, held>>

Hold(w, field) == held' = [held EXCEPT ![w] = @ \cup {field}]
SetTask(w, s) == task' = [task EXCEPT ![w] = s]

Start(w) ==
  /\ At(w, "new")
  /\ Goto(w, "snapshot")
  /\ UNCHANGED <<snapshot, container, task, held, attached>>

GetRwMounts(w) ==
  /\ At(w, "snapshot")
  /\ Call(w, "snapshot", snapshot' = snapshot \cup {w} /\ UNCHANGED <<container, task, held>>, "container")
  /\ UNCHANGED attached

NewContainer(w) ==
  /\ At(w, "container")
  /\ Call(w, "container",
          container' = container \cup {w} /\ Hold(w, "container") /\ UNCHANGED <<snapshot, task>>, "task")
  /\ UNCHANGED attached

\* connectStdPipes: the pipes are the controller's, and goroutines read them,
\* whether or not there will be a process at their other end.
ConnectStdPipes(w) == held[w] \cup {"streams"}

NewTask(w) ==
  /\ At(w, "task")
  /\ \/ /\ SetTask(w, "created")
        /\ held' = [held EXCEPT ![w] = ConnectStdPipes(w) \cup {"task"}]
        /\ Goto(w, "wait")
     \/ /\ "task" \in Faults
        /\ held' = [held EXCEPT ![w] = ConnectStdPipes(w)]
        /\ Return(w, "started", "error")
        /\ UNCHANGED task
  /\ UNCHANGED <<snapshot, container, attached>>

\* The channel is made before the process runs: no exit goes unseen.
Wait(w) ==
  /\ At(w, "wait")
  /\ Call(w, "wait", Hold(w, "exitChan") /\ UNCHANGED <<snapshot, container, task>>, "run")
  /\ UNCHANGED attached

StartTask(w) ==
  /\ At(w, "run")
  /\ Call(w, "run", SetTask(w, "running") /\ UNCHANGED <<snapshot, container, held>>, "pid")
  /\ UNCHANGED attached

\* The address of the container is read and the controller gets the pid.
SetPid(w) ==
  /\ At(w, "pid")
  /\ \/ Return(w, "started", "ok")
     \/ "ip" \in Faults /\ Return(w, "started", "error")
  /\ UNCHANGED <<snapshot, container, task, held, attached>>

\* Activate awaits the first message, attaches and takes a checkpoint.  It may
\* fail after attaching, and a process that has ended may have it wait for ever.
Activate(w) ==
  /\ At(w, "started") /\ result[w] = "ok" /\ ~attached[w]
  /\ \/ /\ task[w] = "running"
        /\ attached' = [attached EXCEPT ![w] = TRUE]
        /\ UNCHANGED result
        /\ UNCHANGED pc
     \/ /\ task[w] = "exited" \/ "activate" \in Faults
        /\ attached' \in {attached, [attached EXCEPT ![w] = TRUE]}
        /\ result' = [result EXCEPT ![w] = "error"]
        /\ UNCHANGED pc
     \/ /\ task[w] = "exited"
        /\ Goto(w, "hung")
        /\ UNCHANGED attached
  /\ UNCHANGED <<snapshot, container, task, held>>

\* Attach, Detach and all the other operations that are handed on.  Detach lets
\* the process go for good; of a process that has ended any may wait for ever.
CallController(w) ==
  /\ At(w, "started") /\ result[w] = "ok"
  /\ \/ attached' \in {[attached EXCEPT ![w] = b] : b \in BOOLEAN} /\ UNCHANGED <<pc, result>>
     \/ task[w] = "exited" /\ Goto(w, "hung") /\ UNCHANGED attached
  /\ UNCHANGED <<snapshot, container, task, held>>

\* The process ends by itself.
Exit(w) ==
  /\ "exit" \in Faults
  /\ task[w] = "running"
  /\ SetTask(w, "exited")
  /\ UNCHANGED <<snapshot, container, held, attached, pc, result>>

-----------------------------------------------------------------------------
End(w) ==
  /\ At(w, "started")
  /\ pc' = [pc EXCEPT ![w] = IF "task" \in held[w] THEN "end" ELSE "remove"]
  /\ result' = [result EXCEPT ![w] = "none"]
  /\ UNCHANGED <<snapshot, container, task, held, attached>>

\* The controller lets the process go and closes the pipes.  With a process
\* that has ended it fails, an error nobody sees, or waits for ever before it
\* has closed anything (ptrace.go:179).
EndController(w) ==
  /\ At(w, "end")
  /\ \/ /\ attached[w] /\ task[w] = "exited"
        /\ Goto(w, "hung")
        /\ UNCHANGED <<held, attached>>
     \/ /\ Goto(w, "kill")
        /\ held' = [held EXCEPT ![w] = @ \ {"streams"}]
        /\ attached' = [attached EXCEPT ![w] = attached[w] /\ task[w] = "exited"]
  /\ UNCHANGED <<snapshot, container, task>>

\* Variant: an error of Kill is not looked at, and the exit awaited.
KillWaits(w) ==
  /\ At(w, "kill")
  /\ \/ SetTask(w, "exited")
     \/ "kill" \in Faults /\ UNCHANGED task
  /\ Goto(w, "exit")
  /\ UNCHANGED <<snapshot, container, held, attached>>

\* Kill of a process that is gone is an error, at which End is content.
Kill(w) ==
  /\ At(w, "kill")
  /\ \/ /\ task[w] \in {"created", "running"}
        /\ SetTask(w, "exited")
        /\ Goto(w, "exit")
     \/ /\ task[w] = "exited"
        /\ Return(w, "ended", "ok")
        /\ UNCHANGED task
     \/ /\ "kill" \in Faults
        /\ Return(w, "ended", "error")
        /\ UNCHANGED task
  /\ UNCHANGED <<snapshot, container, held, attached>>

\* A channel that was never made is nil: receiving from it blocks for ever.
AwaitExit(w) ==
  /\ At(w, "exit")
  /\ "exitChan" \in held[w] /\ task[w] = "exited"
  /\ Goto(w, "delete")
  /\ UNCHANGED <<snapshot, container, task, held, attached>>

\* Variant: the task is left to the container's deletion.
DeleteTaskNot(w) ==
  /\ At(w, "delete")
  /\ Goto(w, "remove")
  /\ UNCHANGED <<snapshot, container, task, held, attached>>

DeleteTask(w) ==
  /\ At(w, "delete")
  /\ \/ SetTask(w, "none") /\ Goto(w, "remove")
     \/ "delete" \in Faults /\ Return(w, "ended", "error") /\ UNCHANGED task
  /\ UNCHANGED <<snapshot, container, held, attached>>

\* Delete with WithSnapshotCleanup, whose error is dropped: the snapshot goes
\* first, so that either may be all that is removed.
DeleteContainer(w) ==
  /\ At(w, "remove")
  /\ IF "container" \in held[w]
     THEN \/ snapshot' = snapshot \ {w} /\ container' = container \ {w}
          \/ "remove" \in Faults /\ snapshot' \in {snapshot, snapshot \ {w}} /\ UNCHANGED container
     ELSE UNCHANGED <<snapshot, container>>
  /\ Return(w, "ended", "ok")
  /\ UNCHANGED <<task, held, attached>>

-----------------------------------------------------------------------------
StartStep(w) ==
  GetRwMounts(w) \/ NewContainer(w) \/ NewTask(w) \/ Wait(w) \/ StartTask(w) \/ SetPid(w)

EndStep(w) ==
  EndController(w) \/ Kill(w) \/ AwaitExit(w) \/ DeleteTask(w) \/ DeleteContainer(w)

\* Each worker by itself: whoever starts it ends it, whether or not Start or
\* Activate failed.
WorkerNext ==
  \E w \in Workers :
    \/ Start(w) \/ StartStep(w) \/ Activate(w) \/ CallController(w) \/ Exit(w)
    \/ End(w) \/ EndStep(w)

WorkerSpec == WorkerInit /\ [][WorkerNext]_workerVars

-----------------------------------------------------------------------------
(* Properties.                                                             *)

\* When End returned no error no process of the worker runs, whatever failed
\* in Start, and though End stops early when there is nothing to kill
\* (worker.go:316).
EndedIsDead ==
  \A w \in Workers : At(w, "ended") /\ result[w] = "ok" => task[w] \in {"none", "exited"}

\* A task has its container, and the worker holds what it must end
\* (worker.go:174, :180): a failing Start leaves no task that End cannot find.
TaskIsHeld ==
  \A w \in Workers : task[w] # "none" => w \in container /\ {"task", "container"} \subseteq held[w]

=============================================================================
