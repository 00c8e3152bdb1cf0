----------------------------- MODULE CRIService -----------------------------
(***************************************************************************)
(* The CRI service (src/cri): it stands between the kubelet and            *)
(* containerd, keeps a controller for every container of a refunction pod, *)
(* activates it when the container starts, and serves the refunction       *)
(* commands of funk beside the kubelet's, from two gRPC servers.           *)
(*                                                                         *)
(* Every call is served by a goroutine of its own.  The map of controllers *)
(* has no lock: a Go program that reads or writes a map while another      *)
(* goroutine writes to it may be ended by the runtime ("concurrent map     *)
(* ..."), or may not.  A panic in a handler ends the service as well.      *)
(*                                                                         *)
(* Abstractions: what a controller does is Controller's and                *)
(* ControllerMessages'; here it is how far StartContainer has set it up.   *)
(* A sandbox holds one container, so that a call for it is one for the     *)
(* container.  Calls that only ask are left out, since they pass through   *)
(* to containerd and change nothing.                                       *)
(***************************************************************************)
EXTENDS Naturals, Sequences, FiniteSets

CONSTANTS
  Containers,  \* container ids containerd will give
  Refunction,  \* those whose pod has the annotation
  Handlers,    \* goroutines that serve a call
  None         \* no container, no handler

Ops == {"create", "start", "stop", "remove", "list", "command", "restore"}

CRIAssumption ==
  /\ IsFiniteSet(Containers)
  /\ Refunction \subseteq Containers
  /\ None \notin Containers \cup Handlers \cup Ops

VARIABLES
  container,  \* containerd: "none" | "created" | "running" | "exited" | "removed"
  control,    \* the controllers: "none" | "new" | "pid" | "streams" | "active"
  writing,    \* handlers in the middle of a write to the map
  known,      \* ids the kubelet has been given
  pc, op, target,  \* the call of each handler
  size,       \* ListContainers: the length of ids
  listed,     \* ListContainers: ids written so far
  before,     \* the controllers that were there when the list began
  crashed,    \* the handler that brought the service down
  boot,       \* where startCRIService is, see Boots
  server,     \* the gRPC servers: "serving" | "failed" | "done"
  exit        \* main has ended, with an error

callVars   == <<pc, op, target, size, listed, before>>
mainVars   == <<boot, server, exit>>
vars       == <<container, control, writing, known, callVars, crashed, mainVars>>

Servers == {"cri", "refunction"}

\* The socket of the last run is removed, containerd is looked for, the kubelet's
\* socket opened, containerd's client and CRI service are made, the refunction
\* port opened.
Boots == <<"remove", "look", "socket", "client", "service", "port", "serve">>
Keys == {c \in Containers : control[c] # "none"}

TypeOK ==
  /\ container \in [Containers -> {"none", "created", "running", "exited", "removed"}]
  /\ control \in [Containers -> {"none", "new", "pid", "streams", "active"}]
  /\ Keys \subseteq Refunction
  /\ writing \subseteq Handlers
  /\ known \subseteq Containers
  /\ pc \in [Handlers -> {"idle", "containerd", "store", "storing", "lookup", "pid",
                          "streams", "activate", "use", "length", "range", "ok", "error"}]
  /\ op \in [Handlers -> Ops \cup {None}]
  /\ target \in [Handlers -> Containers \cup {None}]
  /\ size \in [Handlers -> 0 .. Cardinality(Containers)]
  /\ listed \in [Handlers -> SUBSET Containers]
  /\ before \in [Handlers -> SUBSET Containers]
  /\ crashed \in Handlers \cup {None}
  /\ boot \in 1 .. Len(Boots)
  /\ server \in [Servers -> {"serving", "failed", "done"}]
  /\ exit \in BOOLEAN

Init ==
  /\ container = [c \in Containers |-> "none"]
  /\ control = [c \in Containers |-> "none"]
  /\ writing = {}
  /\ known = {}
  /\ pc = [h \in Handlers |-> "idle"]
  /\ op = [h \in Handlers |-> None]
  /\ target = [h \in Handlers |-> None]
  /\ size = [h \in Handlers |-> 0]
  /\ listed = [h \in Handlers |-> {}]
  /\ before = [h \in Handlers |-> {}]
  /\ crashed = None
  /\ boot = 1
  /\ server = [s \in Servers |-> "serving"]
  /\ exit = FALSE

-----------------------------------------------------------------------------
Up == crashed = None /\ ~exit /\ Boots[boot] = "serve"
Busy(h) == pc[h] \notin {"idle", "ok", "error"}
At(h, p) == Up /\ pc[h] = p
Goto(h, p) == pc' = [pc EXCEPT ![h] = p]
Crash(h) == crashed' = h
Race(h) == writing \ {h} # {}

Only(A) ==
  /\ "container" \notin A => UNCHANGED container
  /\ "control" \notin A => UNCHANGED control
  /\ "writing" \notin A => UNCHANGED writing
  /\ "known" \notin A => UNCHANGED known
  /\ "list" \notin A => UNCHANGED <<size, listed, before>>
  /\ "crashed" \notin A => UNCHANGED crashed
  /\ UNCHANGED <<op, target, mainVars>>

ServerOf(o) == IF o \in {"list", "command", "restore"} THEN "refunction" ELSE "cri"

First(o) == IF o = "list" THEN "length"
            ELSE IF o \in {"command", "restore"} THEN "lookup"
            ELSE "containerd"

\* What the kubelet and the users of funk call, beside each other: containerd
\* gives an id once; any call but a list names a container that was created,
\* and may come before it is started, again, or after it was removed.
Legal(o, c) ==
  /\ o = "create" =>
       /\ container[c] = "none"
       /\ \A h \in Handlers : Busy(h) /\ op[h] = "create" => target[h] # c
  /\ o \notin {"create", "list"} => c \in known

Call(h) ==
  /\ Up
  /\ pc[h] = "idle"
  /\ \E o \in Ops, c \in Containers :
       /\ server[ServerOf(o)] = "serving"
       /\ Legal(o, c)
       /\ op' = [op EXCEPT ![h] = o]
       /\ target' = [target EXCEPT ![h] = IF o = "list" THEN None ELSE c]
       /\ Goto(h, First(o))
  /\ UNCHANGED <<container, control, writing, known, size, listed, before, crashed, mainVars>>

-----------------------------------------------------------------------------
(* The kubelet's calls.                                                    *)

\* Variant: the id is given to the kubelet before the controller is stored.
CreateContainerFirst(h) ==
  /\ At(h, "containerd") /\ op[h] = "create"
  /\ container' = [container EXCEPT ![target[h]] = "created"]
  /\ known' = known \cup {target[h]}
  /\ Goto(h, IF target[h] \in Refunction THEN "store" ELSE "ok")
  /\ Only({"container", "known"})

\* A container of a refunction pod gets a controller once containerd has it.
CreateContainer(h) ==
  /\ At(h, "containerd") /\ op[h] = "create"
  /\ LET c == target[h] IN
       \/ Goto(h, "error") /\ Only({})
       \/ /\ container' = [container EXCEPT ![c] = "created"]
          /\ IF c \in Refunction
             THEN Goto(h, "store") /\ Only({"container"})
             ELSE Goto(h, "ok") /\ known' = known \cup {c} /\ Only({"container", "known"})

\* s.controllers[id] = ...: the write to the map begins, and ends.
CreateController(h) ==
  \/ /\ At(h, "store")
     /\ \/ Race(h) /\ Crash(h) /\ UNCHANGED pc /\ Only({"crashed"})
        \/ writing' = writing \cup {h} /\ Goto(h, "storing") /\ Only({"writing"})
  \/ /\ At(h, "storing")
     /\ control' = [control EXCEPT ![target[h]] = "new"]
     /\ writing' = writing \ {h}
     /\ known' = known \cup {target[h]}
     /\ Goto(h, "ok")
     /\ Only({"control", "writing", "known"})

\* Variant: the error of containerd is not looked at.
StartContainerGoesOn(h) ==
  /\ At(h, "containerd") /\ op[h] = "start"
  /\ Goto(h, "lookup")
  /\ \/ container' = [container EXCEPT ![target[h]] = IF @ = "created" THEN "running" ELSE @]
     \/ UNCHANGED container
  /\ Only({"container"})

\* containerd starts a container once, and refuses it when it has been started.
StartContainer(h) ==
  /\ At(h, "containerd") /\ op[h] = "start"
  /\ \/ Goto(h, "error") /\ Only({})
     \/ /\ container[target[h]] = "created"
        /\ container' = [container EXCEPT ![target[h]] = "running"]
        /\ Goto(h, "lookup")
        /\ Only({"container"})

\* Variant: the kubelet gets its answer before the controller is set up.
LookUpReturns(h) ==
  /\ At(h, "lookup")
  /\ Goto(h, IF op[h] = "start" THEN "ok" ELSE IF target[h] \in Keys THEN "use" ELSE "error")
  /\ Only({})

\* Controller(id), and the same lookup in the refunction calls.
LookUp(h) ==
  /\ At(h, "lookup")
  /\ \/ Race(h) /\ Crash(h) /\ UNCHANGED pc /\ Only({"crashed"})
     \/ /\ Goto(h, IF op[h] = "start" THEN (IF target[h] \in Keys THEN "pid" ELSE "ok")
                   ELSE IF target[h] \in Keys THEN "use" ELSE "error")
        /\ Only({})

\* containerd knows the status of a container that has ended, too.
SetControllerPid(h) ==
  /\ At(h, "pid")
  /\ LET c == target[h] IN
       \/ Goto(h, "error") /\ Only({})
       \/ /\ container[c] # "removed"
          /\ control' = [control EXCEPT ![c] = "pid"]
          /\ Goto(h, "streams")
          /\ Only({"control"})

SetControllerStreams(h) ==
  /\ At(h, "streams")
  /\ LET c == target[h] IN
       \/ Goto(h, "error") /\ Only({})
       \/ /\ container[c] = "running"
          /\ control' = [control EXCEPT ![c] = "streams"]
          /\ Goto(h, "activate")
          /\ Only({"control"})

\* Activate waits for the program, attaches and takes the checkpoint.
Activate(h) ==
  /\ At(h, "activate")
  /\ LET c == target[h] IN
       \/ /\ container[c] = "running"
          /\ control' = [control EXCEPT ![c] = "active"]
          /\ Goto(h, "ok")
          /\ Only({"control"})
       \/ Goto(h, "error") /\ Only({})

\* containerd stops what runs in a sandbox, and removes what is in it; the
\* controllers are not told.
StopPodSandbox(c) ==
  container' = [container EXCEPT ![c] = IF @ = "running" THEN "exited" ELSE @]

RemovePodSandbox(c) == container' = [container EXCEPT ![c] = "removed"]

StopContainer(h) ==
  /\ At(h, "containerd") /\ op[h] = "stop"
  /\ StopPodSandbox(target[h])
  /\ Goto(h, "ok")
  /\ Only({"container"})

RemoveContainer(h) ==
  /\ At(h, "containerd") /\ op[h] = "remove"
  /\ RemovePodSandbox(target[h])
  /\ Goto(h, "ok")
  /\ Only({"container"})

\* The program of a container ends.
Exit(c) ==
  /\ container[c] = "running"
  /\ container' = [container EXCEPT ![c] = "exited"]
  /\ UNCHANGED <<control, writing, known, callVars, crashed, mainVars>>

-----------------------------------------------------------------------------
(* The refunction calls.                                                   *)

\* SendRequest and SendFunction write to the streams; with none they panic.
\* With no program there is no answer.
SendCommand(h) ==
  /\ At(h, "use") /\ op[h] = "command"
  /\ LET c == target[h] IN
       \/ control[c] \in {"new", "pid"} /\ Crash(h) /\ UNCHANGED pc /\ Only({"crashed"})
       \/ /\ control[c] \notin {"new", "pid"}
          /\ \/ container[c] = "running" /\ Goto(h, "ok")
             \/ Goto(h, "error")
          /\ Only({})

\* Without a checkpoint there is nothing to restore.
Restore(h) ==
  /\ At(h, "use") /\ op[h] = "restore"
  /\ LET c == target[h] IN
       \/ control[c] = "active" /\ container[c] = "running" /\ Goto(h, "ok")
       \/ Goto(h, "error")
  /\ Only({})

\* make([]string, len(s.controllers))
ListLength(h) ==
  /\ At(h, "length")
  /\ size' = [size EXCEPT ![h] = Cardinality(Keys)]
  /\ before' = [before EXCEPT ![h] = Keys]
  /\ listed' = [listed EXCEPT ![h] = {}]
  /\ Goto(h, "range")
  /\ Only({"list"})

\* Variant: the loop stops when the slice is full.
ListContainersStops(h) ==
  /\ At(h, "range")
  /\ \/ /\ Cardinality(listed[h]) < size[h]
        /\ \E k \in Keys \ listed[h] : listed' = [listed EXCEPT ![h] = @ \cup {k}]
        /\ UNCHANGED <<pc, size, before>>
     \/ /\ Cardinality(listed[h]) = size[h]
        /\ Goto(h, "ok")
        /\ UNCHANGED <<size, listed, before>>
  /\ Only({"list"})

\* for k := range s.controllers: a key that was there is visited, one that
\* is added meanwhile may be; ids[i] = k panics when i is past the end.
ListContainers(h) ==
  /\ At(h, "range")
  /\ \/ Race(h) /\ Crash(h) /\ UNCHANGED <<pc, size, listed, before>>
     \/ /\ \E k \in Keys \ listed[h] :
             IF Cardinality(listed[h]) < size[h]
             THEN listed' = [listed EXCEPT ![h] = @ \cup {k}] /\ UNCHANGED crashed
             ELSE Crash(h) /\ UNCHANGED listed
        /\ UNCHANGED <<pc, size, before>>
     \/ /\ before[h] \subseteq listed[h]
        /\ Goto(h, "ok")
        /\ UNCHANGED <<size, listed, before, crashed>>
  /\ Only({"list", "crashed"})

-----------------------------------------------------------------------------
(* main: a step of the start that fails ends the service, and so does      *)
(* containerd's part of it; and it ends when both of its servers have.     *)

Boot ==
  /\ crashed = None /\ ~exit
  /\ Boots[boot] # "serve"
  /\ \/ boot' = boot + 1 /\ UNCHANGED exit
     \/ exit' = TRUE /\ UNCHANGED boot
  /\ UNCHANGED <<container, control, writing, known, callVars, crashed, server>>

\* The goroutine that runs containerd's CRI service has an error.
ContainerdRunFails ==
  /\ Up
  /\ exit' = TRUE
  /\ UNCHANGED <<container, control, writing, known, callVars, crashed, boot, server>>

\* Serve returns only with an error, since nobody stops a server.
ServeFails(s) ==
  /\ Up
  /\ server[s] = "serving"
  /\ server' = [server EXCEPT ![s] = "failed"]
  /\ UNCHANGED <<container, control, writing, known, callVars, crashed, boot, exit>>

\* errorChan <- err, wg.Done()
Done(s) ==
  /\ Up
  /\ server[s] = "failed"
  /\ server' = [server EXCEPT ![s] = "done"]
  /\ UNCHANGED <<container, control, writing, known, callVars, crashed, boot, exit>>

\* wg.Wait(), and the errors that were sent before it
MainExits ==
  /\ Up
  /\ \A s \in Servers : server[s] = "done"
  /\ exit' = TRUE
  /\ UNCHANGED <<container, control, writing, known, callVars, crashed, boot, server>>

-----------------------------------------------------------------------------
Handler(h) ==
  \/ CreateContainer(h) \/ CreateController(h) \/ StartContainer(h) \/ LookUp(h)
  \/ SetControllerPid(h) \/ SetControllerStreams(h) \/ Activate(h)
  \/ StopContainer(h) \/ RemoveContainer(h)
  \/ SendCommand(h) \/ Restore(h) \/ ListLength(h) \/ ListContainers(h)

Next ==
  \/ \E h \in Handlers : Call(h) \/ Handler(h)
  \/ \E c \in Containers : Exit(c)
  \/ \E s \in Servers : ServeFails(s) \/ Done(s)
  \/ Boot \/ ContainerdRunFails \/ MainExits

Spec == Init /\ [][Next]_vars

-----------------------------------------------------------------------------
(* Properties.                                                             *)

\* "StartContainer starts the container" (start_container.go:16): when it has
\* returned, a container of a refunction pod has an active controller, and no
\* other container has one, whatever other calls ran beside it.
StartedIsActive ==
  \A h \in Handlers :
    pc[h] = "ok" /\ op[h] = "start" =>
      (control[target[h]] = "active" <=> target[h] \in Refunction)

\* How far StartContainer has come with a controller (start_container.go:30).
Phase(s) == IF s = "none" THEN 0 ELSE IF s = "new" THEN 1 ELSE IF s = "pid" THEN 2
            ELSE IF s = "streams" THEN 3 ELSE 4

\* A controller is set up by one StartContainer only, in its order, and while its
\* container is not removed what it has is never taken away, though the container
\* may be started again and other calls run beside (start_container.go:30).
SetupAdvances ==
  [][\A c \in Containers :
       \/ Phase(control'[c]) \in {Phase(control[c]), Phase(control[c]) + 1}
       \/ container'[c] = "removed"]_vars

\* A list that returns has every controller that was there when it began, and
\* none twice (controller_service.go:51).
ListComplete ==
  \A h \in Handlers :
    pc[h] = "ok" /\ op[h] = "list" =>
      before[h] \subseteq listed[h] /\ Cardinality(listed[h]) = size[h]

\* A call brings the service down for one of three causes only: it uses the map
\* beside a creation that writes to it (controller_service.go:44), it lists while
\* controllers are added (:55), or it sends a command to a container whose
\* StartContainer has not returned (controller.go:242).
CrashHasCause ==
  \A h \in Handlers :
    crashed = h =>
      \/ \E g \in Handlers \ {h} : op[g] = "create" /\ pc[g] = "storing"
      \/ op[h] = "list" /\ before[h] # Keys
      \/ /\ op[h] = "command"
         /\ \A g \in Handlers :
              op[g] = "start" /\ target[g] = target[h] => pc[g] # "ok"

=============================================================================
