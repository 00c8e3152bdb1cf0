------------------------------ MODULE CRIProofs ------------------------------
(***************************************************************************)
(* Theorems about CRIService, for every set of containers and of handlers. *)
(***************************************************************************)
EXTENDS MCCRIService, FiniteSetTheorems, TLAPS

\* What a handler can be doing at each point of its call.
Fits ==
  \A h \in Handlers :
    /\ pc[h] = "idle" <=> op[h] = None
    /\ pc[h] = "containerd" => op[h] \in {"create", "start", "stop", "remove"}
    /\ pc[h] \in {"store", "storing"} => op[h] = "create"
    /\ pc[h] = "lookup" => op[h] \in {"start", "command", "restore"}
    /\ pc[h] \in {"pid", "streams", "activate"} => op[h] = "start"
    /\ pc[h] = "use" => op[h] \in {"command", "restore"}
    /\ pc[h] \in {"length", "range"} => op[h] = "list"
    /\ op[h] \in Ops \ {"list"} => target[h] \in Containers
    /\ op[h] \in Ops \ {"list", "create"} => target[h] \in known

\* A container is created by one handler, and known once its controller is there.
Known ==
  \A c \in Containers :
    /\ c \in known => container[c] # "none"
    /\ control[c] # "none" <=> c \in known \cap Refunction

Fresh(h) ==
  /\ pc[h] = "containerd" /\ op[h] = "create" => container[target[h]] = "none"
  /\ pc[h] \in {"store", "storing"} =>
       /\ target[h] \in Refunction \ known
       /\ container[target[h]] # "none"

Creating == \A h \in Handlers : Fresh(h)

OneCreator ==
  \A g, h \in Handlers :
    g # h /\ Busy(g) /\ Busy(h) /\ op[g] = "create" /\ op[h] = "create" =>
      target[g] # target[h]

Created == Known /\ Creating /\ OneCreator

\* containerd lets one StartContainer of a container pass, and that one sets its
\* controller up to where it is.
Begun(c) == container[c] \notin {"none", "created"}
Starter(h) == op[h] = "start" /\ pc[h] \in {"lookup", "pid", "streams", "activate", "ok"}

SetUp ==
  /\ \A g, h \in Handlers : g # h /\ Starter(g) /\ Starter(h) => target[g] # target[h]
  /\ \A c \in Containers : control[c] \notin {"none", "new"} => Begun(c)
  /\ \A h \in Handlers :
       /\ Starter(h) => Begun(target[h])
       /\ op[h] = "start" /\ pc[h] = "lookup" => control[target[h]] \in {"none", "new"}
       /\ pc[h] = "pid" => control[target[h]] = "new"
       /\ pc[h] = "streams" => control[target[h]] = "pid"
       /\ pc[h] = "activate" => control[target[h]] = "streams"

\* ListContainers never writes past the slice, which has room for the
\* controllers that were there.
Listing ==
  \A h \in Handlers :
    pc[h] = "range" =>
      /\ before[h] \subseteq Containers
      /\ listed[h] \subseteq Containers
      /\ size[h] = Cardinality(before[h])
      /\ Cardinality(listed[h]) <= size[h]

CallsInv == TypeOK /\ Fits /\ Created /\ SetUp /\ StartedIsActive

-----------------------------------------------------------------------------
LEMMA KeysType == ASSUME CRIAssumption
                  PROVE  IsFiniteSet(Keys) /\ Keys \in SUBSET Containers
                           /\ Cardinality(Keys) \in 0 .. Cardinality(Containers)
<1>1. Keys \in SUBSET Containers /\ IsFiniteSet(Containers)
  BY DEF Keys, CRIAssumption
<1>2. IsFiniteSet(Keys) /\ Cardinality(Keys) <= Cardinality(Containers)
  BY <1>1, FS_Subset
<1>3. Cardinality(Keys) \in Nat /\ Cardinality(Containers) \in Nat
  BY <1>1, <1>2, FS_CardinalityType
<1> QED BY <1>1, <1>2, <1>3

\* A step of a handler is about its own call.
LEMMA HandlerStep ==
  ASSUME NEW h \in Handlers, TypeOK, Handler(h)
  PROVE  /\ Busy(h)
         /\ UNCHANGED <<op, target, mainVars>>
         /\ \A g \in Handlers \ {h} : pc'[g] = pc[g]
<1> USE DEF Only, Goto, At, Crash, Busy, mainVars
<1> \E p \in {"containerd", "store", "storing", "lookup", "pid", "streams", "activate", "use",
              "length", "range"} :
      /\ pc[h] = p
      /\ UNCHANGED <<op, target, mainVars>>
      /\ pc' = pc \/ \E q : pc' = [pc EXCEPT ![h] = q]
  BY DEF Handler, CreateContainer, CreateController, StartContainer, LookUp, SetControllerPid,
         SetControllerStreams, Activate, StopContainer, RemoveContainer, SendCommand, Restore,
         ListLength, ListContainers
<1> QED BY DEF TypeOK

\* What is no step of a handler leaves the calls alone.
LEMMA OutsideStep ==
  ASSUME [Next]_vars, \A h \in Handlers : ~Call(h) /\ ~Handler(h)
  PROVE  UNCHANGED <<callVars, control, known, writing, crashed>>
BY DEF Next, Exit, ServeFails, Done, Boot, ContainerdRunFails, MainExits, vars

LEMMA TypeInit == CRIAssumption /\ Init => TypeOK
<1> SUFFICES ASSUME CRIAssumption, Init PROVE TypeOK
  OBVIOUS
<1>1. 0 \in 0 .. Cardinality(Containers)
  BY FS_CardinalityType DEF CRIAssumption
<1>2. Keys = {}
  BY DEF Init, Keys
<1>3. boot \in 1 .. Len(Boots)
  BY DEF Init, Boots
<1> QED BY <1>1, <1>2, <1>3 DEF Init, TypeOK

\* What happens to a controller that is there gives no other container one.
LEMMA KeysKept ==
  ASSUME TypeOK, NEW c \in Keys, NEW state, control' \in {control, [control EXCEPT ![c] = state]}
  PROVE  Keys' \subseteq Refunction
<1> SUFFICES ASSUME NEW k \in Containers, control'[k] # "none", k # c
             PROVE  control[k] # "none"
  BY DEF TypeOK, Keys
<1>1. control'[k] = control[k]
  BY DEF TypeOK
<1> QED BY <1>1

\* Only calls move a handler to another container, and only steps outside the
\* calls touch main.
LEMMA TypeNext ==
  ASSUME CRIAssumption, CallsInv, [Next]_vars
  PROVE  TypeOK'
<1> USE DEF Only, Goto, At, Crash, callVars, mainVars, CallsInv
<1>1. ASSUME NEW h \in Handlers, Call(h) PROVE TypeOK'
  <2>1. op' \in [Handlers -> Ops \cup {None}] /\ target' \in [Handlers -> Containers \cup {None}]
    BY <1>1 DEF Call, TypeOK
  <2>2. pc' \in [Handlers -> {"idle", "containerd", "store", "storing", "lookup", "pid",
                          "streams", "activate", "use", "length", "range", "ok", "error"}]
    BY <1>1 DEF Call, TypeOK, First
  <2> QED BY <1>1, <2>1, <2>2 DEF Call, TypeOK, Keys
<1>2. ASSUME NEW h \in Handlers, CreateContainer(h) PROVE TypeOK'
  <2>1. target[h] \in Containers
    BY <1>2 DEF CreateContainer, Fits, Ops
  <2>2. control' = control /\ writing' = writing /\ crashed' = crashed
    BY <1>2 DEF CreateContainer
  <2>3. container' \in [Containers -> {"none", "created", "running", "exited", "removed"}]
    BY <1>2 DEF CreateContainer, TypeOK
  <2>4. known' \subseteq Containers
    BY <1>2, <2>1 DEF CreateContainer, TypeOK
  <2>5. \E p \in {"store", "ok", "error"} : pc' = [pc EXCEPT ![h] = p]
    BY <1>2 DEF CreateContainer
  <2>6. UNCHANGED <<size, listed, before, op, target, mainVars>>
    BY <1>2 DEF CreateContainer
  <2> QED BY <2>2, <2>3, <2>4, <2>5, <2>6 DEF TypeOK, Keys
<1>3. ASSUME NEW h \in Handlers, CreateController(h) PROVE TypeOK'
  <2>1. target[h] \in Refunction /\ Refunction \subseteq Containers
    BY <1>3 DEF CreateController, Created, Creating, Fresh, CRIAssumption
  <2>2. control' \in [Containers -> {"none", "new", "pid", "streams", "active"}]
    BY <1>3 DEF CreateController, TypeOK
  <2>3. Keys' \subseteq Refunction
    BY <1>3, <2>1 DEF CreateController, TypeOK, Keys
  <2>4. writing' \subseteq Handlers /\ known' \subseteq Containers
    BY <1>3, <2>1 DEF CreateController, TypeOK
  <2> QED BY <1>3, <2>2, <2>3, <2>4 DEF CreateController, TypeOK
<1>4. ASSUME NEW h \in Handlers, StartContainer(h) PROVE TypeOK'
  BY <1>4 DEF StartContainer, TypeOK, Keys
<1>5. ASSUME NEW h \in Handlers, LookUp(h) PROVE TypeOK'
  BY <1>5 DEF LookUp, TypeOK, Keys
<1>6. ASSUME NEW h \in Handlers, SetControllerPid(h) PROVE TypeOK'
  <2>1. target[h] \in Keys
    BY <1>6 DEF SetControllerPid, Fits, SetUp, Keys, Ops
  <2>2. control' \in [Containers -> {"none", "new", "pid", "streams", "active"}]
    BY <1>6 DEF SetControllerPid, TypeOK
  <2>3. Keys' \subseteq Refunction
    <3>1. control' \in {control, [control EXCEPT ![target[h]] = "pid"]}
      BY <1>6 DEF SetControllerPid
    <3>2. TypeOK
      OBVIOUS
    <3> QED BY <2>1, <3>1, <3>2, KeysKept
  <2>4. pc' \in [Handlers -> {"idle", "containerd", "store", "storing", "lookup", "pid",
                          "streams", "activate", "use", "length", "range", "ok", "error"}]
    <3>1. pc' = [pc EXCEPT ![h] = "error"] \/ pc' = [pc EXCEPT ![h] = "streams"]
      BY <1>6 DEF SetControllerPid
    <3>2. pc \in [Handlers -> {"idle", "containerd", "store", "storing", "lookup", "pid",
                            "streams", "activate", "use", "length", "range", "ok", "error"}]
      BY DEF TypeOK
    <3> QED BY <3>1, <3>2
  <2>5. UNCHANGED <<container, writing, known, op, target, size, listed, before, crashed,
                    boot, server, exit>>
    BY <1>6 DEF SetControllerPid
  <2> QED BY <2>2, <2>3, <2>4, <2>5 DEF TypeOK
<1>7. ASSUME NEW h \in Handlers, SetControllerStreams(h) PROVE TypeOK'
  <2>1. target[h] \in Keys
    BY <1>7 DEF SetControllerStreams, Fits, SetUp, Keys, Ops
  <2>2. control' \in [Containers -> {"none", "new", "pid", "streams", "active"}]
    BY <1>7 DEF SetControllerStreams, TypeOK
  <2>3. Keys' \subseteq Refunction
    <3>1. control' \in {control, [control EXCEPT ![target[h]] = "streams"]}
      BY <1>7 DEF SetControllerStreams
    <3>2. TypeOK
      OBVIOUS
    <3> QED BY <2>1, <3>1, <3>2, KeysKept
  <2>4. pc' \in [Handlers -> {"idle", "containerd", "store", "storing", "lookup", "pid",
                          "streams", "activate", "use", "length", "range", "ok", "error"}]
    <3>1. pc' = [pc EXCEPT ![h] = "error"] \/ pc' = [pc EXCEPT ![h] = "activate"]
      BY <1>7 DEF SetControllerStreams
    <3>2. pc \in [Handlers -> {"idle", "containerd", "store", "storing", "lookup", "pid",
                            "streams", "activate", "use", "length", "range", "ok", "error"}]
      BY DEF TypeOK
    <3> QED BY <3>1, <3>2
  <2>5. UNCHANGED <<container, writing, known, op, target, size, listed, before, crashed,
                    boot, server, exit>>
    BY <1>7 DEF SetControllerStreams
  <2> QED BY <2>2, <2>3, <2>4, <2>5 DEF TypeOK
<1>8. ASSUME NEW h \in Handlers, Activate(h) PROVE TypeOK'
  <2>1. target[h] \in Keys
    BY <1>8 DEF Activate, Fits, SetUp, Keys, Ops
  <2>2. control' \in [Containers -> {"none", "new", "pid", "streams", "active"}]
    BY <1>8 DEF Activate, TypeOK
  <2>3. Keys' \subseteq Refunction
    <3>1. control' \in {control, [control EXCEPT ![target[h]] = "active"]}
      BY <1>8 DEF Activate
    <3>2. TypeOK
      OBVIOUS
    <3> QED BY <2>1, <3>1, <3>2, KeysKept
  <2>4. pc' \in [Handlers -> {"idle", "containerd", "store", "storing", "lookup", "pid",
                          "streams", "activate", "use", "length", "range", "ok", "error"}]
    <3>1. pc' = [pc EXCEPT ![h] = "error"] \/ pc' = [pc EXCEPT ![h] = "ok"]
      BY <1>8 DEF Activate
    <3>2. pc \in [Handlers -> {"idle", "containerd", "store", "storing", "lookup", "pid",
                            "streams", "activate", "use", "length", "range", "ok", "error"}]
      BY DEF TypeOK
    <3> QED BY <3>1, <3>2
  <2>5. UNCHANGED <<container, writing, known, op, target, size, listed, before, crashed,
                    boot, server, exit>>
    BY <1>8 DEF Activate
  <2> QED BY <2>2, <2>3, <2>4, <2>5 DEF TypeOK
<1>9. ASSUME NEW h \in Handlers, StopContainer(h) PROVE TypeOK'
  BY <1>9 DEF StopContainer, StopPodSandbox, TypeOK, Keys
<1>10. ASSUME NEW h \in Handlers, RemoveContainer(h) PROVE TypeOK'
  BY <1>10 DEF RemoveContainer, RemovePodSandbox, TypeOK, Keys
<1>11. ASSUME NEW h \in Handlers, SendCommand(h) PROVE TypeOK'
  BY <1>11 DEF SendCommand, TypeOK, Keys
<1>12. ASSUME NEW h \in Handlers, Restore(h) PROVE TypeOK'
  BY <1>12 DEF Restore, TypeOK, Keys
<1>13. ASSUME NEW h \in Handlers, ListLength(h) PROVE TypeOK'
  <2>1. Keys' = Keys
    BY <1>13 DEF ListLength, Keys
  <2> QED BY <1>13, <2>1, KeysType DEF ListLength, TypeOK
<1>14. ASSUME NEW h \in Handlers, ListContainers(h) PROVE TypeOK'
  <2>1. Keys' = Keys /\ Keys \subseteq Containers
    BY <1>14 DEF ListContainers, Keys
  <2>2. listed' \in [Handlers -> SUBSET Containers]
    <3>1. listed' = listed \/ \E k \in Keys : listed' = [listed EXCEPT ![h] = @ \cup {k}]
      BY <1>14 DEF ListContainers
    <3>2. listed \in [Handlers -> SUBSET Containers]
      BY DEF TypeOK
    <3>3. ASSUME NEW k \in Keys, listed' = [listed EXCEPT ![h] = @ \cup {k}]
          PROVE  listed' \in [Handlers -> SUBSET Containers]
      BY <2>1, <3>2, <3>3
    <3> QED BY <3>1, <3>2, <3>3
  <2> QED BY <1>14, <2>1, <2>2 DEF ListContainers, TypeOK
<1>15. ASSUME NEW c \in Containers, Exit(c) PROVE TypeOK'
  BY <1>15 DEF Exit, TypeOK, Keys
<1>16. ASSUME NEW s \in Servers, ServeFails(s) \/ Done(s) PROVE TypeOK'
  BY <1>16 DEF ServeFails, Done, TypeOK, Keys
<1>17. ASSUME Boot PROVE TypeOK'
  <2>1. Len(Boots) = 7 /\ Boots[7] = "serve"
    BY DEF Boots
  <2>2. boot' \in 1 .. Len(Boots)
    BY <1>17, <2>1 DEF Boot, TypeOK
  <2> QED BY <1>17, <2>2 DEF Boot, TypeOK, Keys
<1>18. ASSUME ContainerdRunFails \/ MainExits PROVE TypeOK'
  BY <1>18 DEF ContainerdRunFails, MainExits, TypeOK, Keys
<1>19. CASE UNCHANGED vars
  BY <1>19 DEF vars, TypeOK, Keys
<1> QED BY <1>1, <1>2, <1>3, <1>4, <1>5, <1>6, <1>7, <1>8, <1>9, <1>10, <1>11, <1>12,
           <1>13, <1>14, <1>15, <1>16, <1>17, <1>18, <1>19 DEF Next, Handler

LEMMA FitsNext ==
  ASSUME CRIAssumption, CallsInv, [Next]_vars
  PROVE  Fits'
<1> USE DEF Only, Goto, At, Crash, callVars, mainVars, CallsInv, Ops, Created
<1>1. ASSUME NEW h \in Handlers, Call(h) PROVE Fits'
  BY <1>1 DEF Call, First, Legal, TypeOK, Fits, CRIAssumption
<1>2. ASSUME NEW h \in Handlers, CreateContainer(h) PROVE Fits'
  BY <1>2 DEF CreateContainer, TypeOK, Fits
<1>3. ASSUME NEW h \in Handlers, CreateController(h) PROVE Fits'
  BY <1>3 DEF CreateController, TypeOK, Fits
<1>4. ASSUME NEW h \in Handlers, StartContainer(h) PROVE Fits'
  BY <1>4 DEF StartContainer, TypeOK, Fits
<1>5. ASSUME NEW h \in Handlers, LookUp(h) PROVE Fits'
  BY <1>5 DEF LookUp, TypeOK, Fits
<1>6. ASSUME NEW h \in Handlers, SetControllerPid(h) PROVE Fits'
  BY <1>6 DEF SetControllerPid, TypeOK, Fits
<1>7. ASSUME NEW h \in Handlers, SetControllerStreams(h) PROVE Fits'
  BY <1>7 DEF SetControllerStreams, TypeOK, Fits
<1>8. ASSUME NEW h \in Handlers, Activate(h) PROVE Fits'
  BY <1>8 DEF Activate, TypeOK, Fits
<1>9. ASSUME NEW h \in Handlers, StopContainer(h) PROVE Fits'
  BY <1>9 DEF StopContainer, StopPodSandbox, TypeOK, Fits
<1>10. ASSUME NEW h \in Handlers, RemoveContainer(h) PROVE Fits'
  BY <1>10 DEF RemoveContainer, RemovePodSandbox, TypeOK, Fits
<1>11. ASSUME NEW h \in Handlers, SendCommand(h) PROVE Fits'
  BY <1>11 DEF SendCommand, TypeOK, Fits
<1>12. ASSUME NEW h \in Handlers, Restore(h) PROVE Fits'
  BY <1>12 DEF Restore, TypeOK, Fits
<1>13. ASSUME NEW h \in Handlers, ListLength(h) PROVE Fits'
  BY <1>13 DEF ListLength, TypeOK, Fits
<1>14. ASSUME NEW h \in Handlers, ListContainers(h) PROVE Fits'
  BY <1>14 DEF ListContainers, TypeOK, Fits
<1>15. ASSUME NEW c \in Containers, Exit(c) PROVE Fits'
  BY <1>15 DEF Exit, TypeOK, Fits
<1>16. ASSUME NEW s \in Servers, ServeFails(s) \/ Done(s) PROVE Fits'
  BY <1>16 DEF ServeFails, Done, Fits
<1>17. ASSUME Boot \/ ContainerdRunFails \/ MainExits PROVE Fits'
  BY <1>17 DEF Boot, ContainerdRunFails, MainExits, Fits
<1>18. CASE UNCHANGED vars
  BY <1>18 DEF vars, Fits
<1> QED BY <1>1, <1>2, <1>3, <1>4, <1>5, <1>6, <1>7, <1>8, <1>9, <1>10, <1>11, <1>12,
           <1>13, <1>14, <1>15, <1>16, <1>17, <1>18 DEF Next, Handler

LEMMA KnownNext ==
  ASSUME CRIAssumption, CallsInv, [Next]_vars
  PROVE  Known'
<1> USE DEF Only, Goto, At, Crash, callVars, mainVars, CallsInv, Ops, Created
<1>1. ASSUME NEW h \in Handlers, Call(h) PROVE Known'
  BY <1>1 DEF Call, Known
<1>2. ASSUME NEW h \in Handlers, CreateContainer(h) PROVE Known'
  BY <1>2 DEF CreateContainer, TypeOK, Known, Fits, Creating, Fresh, CRIAssumption
<1>3. ASSUME NEW h \in Handlers, CreateController(h) PROVE Known'
  BY <1>3 DEF CreateController, TypeOK, Known, Fits, Creating, Fresh, CRIAssumption
<1>4. ASSUME NEW h \in Handlers, StartContainer(h) PROVE Known'
  BY <1>4 DEF StartContainer, TypeOK, Known, Fits, Creating, Fresh, CRIAssumption
<1>5. ASSUME NEW h \in Handlers, LookUp(h) PROVE Known'
  BY <1>5 DEF LookUp, TypeOK, Known, Fits, Creating, Fresh, CRIAssumption
<1>6. ASSUME NEW h \in Handlers, SetControllerPid(h) PROVE Known'
  BY <1>6 DEF SetControllerPid, TypeOK, Known, Fits, SetUp
<1>7. ASSUME NEW h \in Handlers, SetControllerStreams(h) PROVE Known'
  BY <1>7 DEF SetControllerStreams, TypeOK, Known, Fits, SetUp
<1>8. ASSUME NEW h \in Handlers, Activate(h) PROVE Known'
  BY <1>8 DEF Activate, TypeOK, Known, Fits, SetUp
<1>9. ASSUME NEW h \in Handlers, StopContainer(h) PROVE Known'
  BY <1>9 DEF StopContainer, StopPodSandbox, TypeOK, Known, Fits, Creating, Fresh, CRIAssumption
<1>10. ASSUME NEW h \in Handlers, RemoveContainer(h) PROVE Known'
  BY <1>10 DEF RemoveContainer, RemovePodSandbox, TypeOK, Known, Fits, Creating, Fresh, CRIAssumption
<1>11. ASSUME NEW h \in Handlers, SendCommand(h) PROVE Known'
  BY <1>11 DEF SendCommand, TypeOK, Known, Fits, Creating, Fresh, CRIAssumption
<1>12. ASSUME NEW h \in Handlers, Restore(h) PROVE Known'
  BY <1>12 DEF Restore, TypeOK, Known, Fits, Creating, Fresh, CRIAssumption
<1>13. ASSUME NEW h \in Handlers, ListLength(h) PROVE Known'
  BY <1>13 DEF ListLength, TypeOK, Known, Fits, Creating, Fresh, CRIAssumption
<1>14. ASSUME NEW h \in Handlers, ListContainers(h) PROVE Known'
  BY <1>14 DEF ListContainers, TypeOK, Known, Fits, Creating, Fresh, CRIAssumption
<1>15. ASSUME NEW c \in Containers, Exit(c) PROVE Known'
  BY <1>15 DEF Exit, TypeOK, Known, Fits, Creating, Fresh, CRIAssumption
<1>16. ASSUME NEW s \in Servers, ServeFails(s) \/ Done(s) PROVE Known'
  BY <1>16 DEF ServeFails, Done, Known, Fits, Creating, Fresh, CRIAssumption
<1>17. ASSUME Boot \/ ContainerdRunFails \/ MainExits PROVE Known'
  BY <1>17 DEF Boot, ContainerdRunFails, MainExits, Known, Fits, Creating, Fresh, CRIAssumption
<1>18. CASE UNCHANGED vars
  BY <1>18 DEF vars, Known, Fits, Creating, Fresh, CRIAssumption
<1> QED BY <1>1, <1>2, <1>3, <1>4, <1>5, <1>6, <1>7, <1>8, <1>9, <1>10, <1>11, <1>12,
           <1>13, <1>14, <1>15, <1>16, <1>17, <1>18 DEF Next, Handler

LEMMA CreatingNext ==
  ASSUME CRIAssumption, CallsInv, [Next]_vars
  PROVE  Creating'
<1> USE DEF Only, Goto, At, Crash, callVars, mainVars, CallsInv, Ops, Created
<1>1. ASSUME NEW h \in Handlers, Call(h) PROVE Creating'
  BY <1>1 DEF Call, First, Legal, TypeOK, Fits, Creating, Fresh, CRIAssumption
<1>2. ASSUME NEW h \in Handlers, CreateContainer(h) PROVE Creating'
  <2>1. ASSUME NEW g \in Handlers \ {h} PROVE Fresh(g)'
    <3>1. /\ pc'[g] = pc[g] /\ UNCHANGED <<op, target>>
          /\ known' \subseteq known \cup {target[h]}
          /\ container' = [container EXCEPT ![target[h]] = "created"] \/ container' = container
      BY <1>2, <2>1, HandlerStep DEF CreateContainer, Handler
    <3>2. (pc[g] = "containerd" /\ op[g] = "create") \/ pc[g] \in {"store", "storing"} =>
            target[g] # target[h] /\ target[g] \in Containers
      BY <1>2, <2>1 DEF CreateContainer, Fits, OneCreator, Busy
    <3> QED BY <3>1, <3>2 DEF Fresh, Creating, TypeOK
  <2>2. Fresh(h)'
    <3>1. target[h] \in Containers \ known
      BY <1>2 DEF CreateContainer, Fits, Creating, Fresh, Known
    <3> QED BY <1>2, <3>1 DEF CreateContainer, Fresh, TypeOK
  <2> QED BY <2>1, <2>2 DEF Creating
<1>3. ASSUME NEW h \in Handlers, CreateController(h) PROVE Creating'
  <2>1. ASSUME NEW g \in Handlers \ {h} PROVE Fresh(g)'
    <3>1. /\ pc'[g] = pc[g] /\ UNCHANGED <<op, target, container>>
          /\ known' \subseteq known \cup {target[h]}
      BY <1>3, <2>1, HandlerStep DEF CreateController, Handler
    <3>2. pc[g] \in {"store", "storing"} => target[g] # target[h]
      BY <1>3, <2>1 DEF CreateController, Fits, OneCreator, Busy
    <3> QED BY <3>1, <3>2 DEF Fresh, Creating
  <2>2. Fresh(h)'
    BY <1>3 DEF CreateController, Creating, Fresh, TypeOK
  <2> QED BY <2>1, <2>2 DEF Creating
<1>4. ASSUME NEW h \in Handlers, StartContainer(h) PROVE Creating'
  BY <1>4 DEF StartContainer, TypeOK, Creating, Fresh, Fits, OneCreator, Busy, CRIAssumption
<1>5. ASSUME NEW h \in Handlers, LookUp(h) PROVE Creating'
  BY <1>5 DEF LookUp, TypeOK, Creating, Fresh, Fits, OneCreator, Busy, CRIAssumption
<1>6. ASSUME NEW h \in Handlers, SetControllerPid(h) PROVE Creating'
  BY <1>6 DEF SetControllerPid, TypeOK, Creating, Fresh, Fits, OneCreator, Busy, CRIAssumption
<1>7. ASSUME NEW h \in Handlers, SetControllerStreams(h) PROVE Creating'
  BY <1>7 DEF SetControllerStreams, TypeOK, Creating, Fresh, Fits, OneCreator, Busy, CRIAssumption
<1>8. ASSUME NEW h \in Handlers, Activate(h) PROVE Creating'
  BY <1>8 DEF Activate, TypeOK, Creating, Fresh, Fits, OneCreator, Busy, CRIAssumption
<1>9. ASSUME NEW h \in Handlers, StopContainer(h) PROVE Creating'
  BY <1>9 DEF StopContainer, StopPodSandbox, TypeOK, Creating, Fresh, Fits, OneCreator, Busy, CRIAssumption
<1>10. ASSUME NEW h \in Handlers, RemoveContainer(h) PROVE Creating'
  <2>1. container[target[h]] # "none" /\ target[h] \in Containers
    BY <1>10 DEF RemoveContainer, Fits, Known
  <2>2. \A c \in Containers : c # target[h] => container'[c] = container[c]
    BY <1>10 DEF RemoveContainer, RemovePodSandbox, TypeOK
  <2>3. ASSUME NEW g \in Handlers PROVE Fresh(g)'
    <3>1. /\ g # h => pc'[g] = pc[g]
          /\ g = h => pc'[g] = "ok"
          /\ UNCHANGED <<op, target, known>>
          /\ container'[target[h]] = "removed"
      BY <1>10, <2>1 DEF RemoveContainer, RemovePodSandbox, TypeOK
    <3> QED BY <2>1, <2>2, <3>1 DEF Fresh, Creating, Fits
  <2> QED BY <2>3 DEF Creating
<1>11. ASSUME NEW h \in Handlers, SendCommand(h) PROVE Creating'
  BY <1>11 DEF SendCommand, TypeOK, Creating, Fresh, Fits, OneCreator, Busy, CRIAssumption
<1>12. ASSUME NEW h \in Handlers, Restore(h) PROVE Creating'
  BY <1>12 DEF Restore, TypeOK, Creating, Fresh, Fits, OneCreator, Busy, CRIAssumption
<1>13. ASSUME NEW h \in Handlers, ListLength(h) PROVE Creating'
  BY <1>13 DEF ListLength, TypeOK, Creating, Fresh, Fits, OneCreator, Busy, CRIAssumption
<1>14. ASSUME NEW h \in Handlers, ListContainers(h) PROVE Creating'
  BY <1>14 DEF ListContainers, TypeOK, Creating, Fresh, Fits, OneCreator, Busy, CRIAssumption
<1>15. ASSUME NEW c \in Containers, Exit(c) PROVE Creating'
  BY <1>15 DEF Exit, TypeOK, Creating, Fresh, Fits, OneCreator, Busy, CRIAssumption
<1>16. ASSUME NEW s \in Servers, ServeFails(s) \/ Done(s) PROVE Creating'
  BY <1>16 DEF ServeFails, Done, Creating, Fresh, Fits, OneCreator, Busy, CRIAssumption
<1>17. ASSUME Boot \/ ContainerdRunFails \/ MainExits PROVE Creating'
  BY <1>17 DEF Boot, ContainerdRunFails, MainExits, Creating, Fresh, Fits, OneCreator, Busy, CRIAssumption
<1>18. CASE UNCHANGED vars
  BY <1>18 DEF vars, Creating, Fresh, Fits, OneCreator, Busy, CRIAssumption
<1> QED BY <1>1, <1>2, <1>3, <1>4, <1>5, <1>6, <1>7, <1>8, <1>9, <1>10, <1>11, <1>12,
           <1>13, <1>14, <1>15, <1>16, <1>17, <1>18 DEF Next, Handler

LEMMA OneCreatorNext ==
  ASSUME CRIAssumption, CallsInv, [Next]_vars
  PROVE  OneCreator'
<1> USE DEF callVars, mainVars, CallsInv, Created, OneCreator
<1>1. ASSUME NEW h \in Handlers, Call(h) PROVE OneCreator'
  BY <1>1 DEF Call, Legal, TypeOK, Busy, Goto
<1>2. ASSUME NEW h \in Handlers, Handler(h) PROVE OneCreator'
  <2>1. \A g \in Handlers : Busy(g)' => Busy(g)
    BY <1>2, HandlerStep DEF Busy
  <2>2. op' = op /\ target' = target
    BY <1>2, HandlerStep
  <2> QED BY <2>1, <2>2
<1>3. ASSUME UNCHANGED callVars PROVE OneCreator'
  BY <1>3 DEF Busy
<1> QED BY <1>1, <1>2, <1>3, OutsideStep DEF Next

\* A container that was started was started for ever.
LEMMA BegunStays ==
  ASSUME TypeOK, Fits, Created, [Next]_vars, NEW c \in Containers, Begun(c)
  PROVE  Begun(c)'
<1> USE DEF Begun, Only, At, TypeOK
<1>1. ASSUME NEW h \in Handlers, CreateContainer(h) PROVE Begun(c)'
  BY <1>1 DEF CreateContainer, Created, Creating, Fresh
<1>2. ASSUME NEW h \in Handlers, StartContainer(h) PROVE Begun(c)'
  BY <1>2 DEF StartContainer
<1>3. ASSUME NEW h \in Handlers, StopContainer(h) \/ RemoveContainer(h) PROVE Begun(c)'
  BY <1>3 DEF StopContainer, StopPodSandbox, RemoveContainer, RemovePodSandbox
<1>4. ASSUME NEW h \in Handlers, Handler(h), ~CreateContainer(h), ~StartContainer(h),
             ~StopContainer(h), ~RemoveContainer(h)
      PROVE  container' = container
  BY <1>4 DEF Handler, CreateController, LookUp, SetControllerPid, SetControllerStreams,
              Activate, SendCommand, Restore, ListLength, ListContainers
<1>5. ASSUME NEW d \in Containers, Exit(d) PROVE Begun(c)'
  BY <1>5 DEF Exit
<1>6. ASSUME NEW h \in Handlers, Call(h) PROVE container' = container
  BY <1>6 DEF Call
<1>7. (\E s \in Servers : ServeFails(s) \/ Done(s)) \/ Boot \/ ContainerdRunFails \/ MainExits
        \/ UNCHANGED vars => container' = container
  BY DEF ServeFails, Done, Boot, ContainerdRunFails, MainExits, vars
<1> QED BY <1>1, <1>2, <1>3, <1>4, <1>5, <1>6, <1>7 DEF Next

\* A step of the StartContainer that containerd has let pass.
LEMMA StarterMoves ==
  ASSUME TypeOK, Fits, SetUp, NEW h \in Handlers, Starter(h),
         NEW p \in {"streams", "activate", "ok", "error"}, pc' = [pc EXCEPT ![h] = p],
         UNCHANGED <<op, target, container>>,
         control' = control \/ \E s : control' = [control EXCEPT ![target[h]] = s],
         p = "streams" => control'[target[h]] = "pid",
         p = "activate" => control'[target[h]] = "streams"
  PROVE  SetUp'
<1>1. target[h] \in Containers /\ Begun(target[h])
  BY DEF Starter, Fits, Ops, SetUp
<1>2. \A c \in Containers : c # target[h] => control'[c] = control[c]
  BY DEF TypeOK
<1>3. \A g \in Handlers \ {h} : pc'[g] = pc[g]
  BY DEF TypeOK
<1>4. pc'[h] = p
  BY DEF TypeOK
<1>5. \A g \in Handlers : Starter(g)' => Starter(g)
  BY <1>3, <1>4 DEF Starter
<1>6. \A g \in Handlers \ {h} : Starter(g) => target[g] # target[h] /\ target[g] \in Containers
  BY DEF SetUp, Starter, Fits, Ops
<1>7. \A g \in Handlers \ {h} :
        pc'[g] \in {"pid", "streams", "activate"} \/ (op'[g] = "start" /\ pc'[g] = "lookup") =>
          Starter(g) /\ control'[target'[g]] = control[target[g]] /\ pc'[g] = pc[g]
  BY <1>2, <1>3, <1>6 DEF Starter, Fits
<1>8. \A c \in Containers : control'[c] \notin {"none", "new"} => Begun(c)'
  BY <1>1, <1>2 DEF SetUp, Begun
<1>9. \A g \in Handlers : Starter(g)' => Begun(target[g])'
  BY <1>5 DEF SetUp, Begun
<1>10. \A f, g \in Handlers : f # g /\ Starter(f)' /\ Starter(g)' => target'[f] # target'[g]
  BY <1>5 DEF SetUp
<1> QED BY <1>4, <1>7, <1>8, <1>9, <1>10 DEF SetUp

LEMMA SetUpNext ==
  ASSUME CRIAssumption, CallsInv, [Next]_vars
  PROVE  SetUp'
<1> USE DEF Only, Goto, At, Crash, callVars, mainVars, CallsInv, Ops, Created
<1>1. ASSUME NEW h \in Handlers, Call(h) PROVE SetUp'
  <2>1. PICK o \in Ops, c \in Containers :
          /\ pc' = [pc EXCEPT ![h] = First(o)]
          /\ op' = [op EXCEPT ![h] = o]
          /\ target' = [target EXCEPT ![h] = IF o = "list" THEN None ELSE c]
          /\ UNCHANGED <<control, container>>
    BY <1>1 DEF Call
  <2>2. \A g \in Handlers \ {h} : op'[g] = op[g] /\ target'[g] = target[g] /\ pc'[g] = pc[g]
    BY <2>1 DEF TypeOK
  <2>3. /\ pc'[h] \in {"containerd", "lookup", "length"}
        /\ op'[h] = "start" => pc'[h] = "containerd"
    BY <2>1 DEF TypeOK, First
  <2>4. \A d \in Containers : Begun(d)' <=> Begun(d)
    BY <2>1 DEF Begun
  <2>5. \A g \in Handlers : Starter(g)' => g # h /\ Starter(g)
    BY <2>2, <2>3 DEF Starter
  <2>6. \A g \in Handlers : Starter(g)' => Begun(target[g])'
    BY <2>1, <2>5 DEF SetUp, Begun
  <2> QED BY <2>1, <2>2, <2>3, <2>4, <2>5, <2>6 DEF SetUp
<1>2. ASSUME NEW h \in Handlers, CreateContainer(h) \/ CreateController(h) PROVE SetUp'
  <2>1. /\ UNCHANGED <<op, target>> /\ op[h] = "create" /\ target[h] \in Containers
        /\ \A g \in Handlers \ {h} : pc'[g] = pc[g]
    BY <1>2, HandlerStep DEF CreateContainer, CreateController, Handler, Fits
  <2>2. \A c \in Containers : control'[c] = control[c] \/ (control'[c] = "new" /\ c = target[h])
    <3>1. control' = control \/ control' = [control EXCEPT ![target[h]] = "new"]
      BY <1>2 DEF CreateContainer, CreateController
    <3> QED BY <3>1 DEF TypeOK
  <2>3. \A g \in Handlers : op[g] = "start" => g # h /\ target[g] \in Containers \cap known
    BY <2>1 DEF Fits
  <2>4. \A g \in Handlers : op[g] = "start" => target[g] # target[h]
    BY <1>2, <2>3 DEF CreateContainer, CreateController, Creating, Fresh, Known
  <2>5. \A c \in Containers : Begun(c) => Begun(c)'
    BY <1>2, BegunStays
  <2>6. pc'[h] \notin {"pid", "streams", "activate"}
    BY <1>2 DEF CreateContainer, CreateController, TypeOK
  <2>7. \A g \in Handlers : pc[g] \in {"pid", "streams", "activate"} => op[g] = "start"
    BY DEF Fits
  <2>8. \A g \in Handlers : Starter(g)' <=> Starter(g)
    BY <2>1, <2>3 DEF Starter
  <2>9. \A g \in Handlers : Starter(g)' => Begun(target[g])'
    BY <2>1, <2>3, <2>5, <2>8 DEF SetUp, Starter
  <2> QED BY <2>1, <2>2, <2>3, <2>4, <2>5, <2>6, <2>7, <2>8, <2>9 DEF SetUp, Starter
<1>4. ASSUME NEW h \in Handlers, StartContainer(h) PROVE SetUp'
  <2>1. /\ UNCHANGED <<op, target, control>> /\ op[h] = "start" /\ target[h] \in Containers
        /\ \A g \in Handlers \ {h} : pc'[g] = pc[g]
        /\ pc'[h] \in {"error", "lookup"} /\ pc[h] = "containerd"
    BY <1>4, HandlerStep DEF StartContainer, Handler, Fits, TypeOK
  <2>2. pc'[h] = "lookup" =>
          /\ ~Begun(target[h]) /\ container'[target[h]] = "running"
          /\ control[target[h]] \in {"none", "new"}
    BY <1>4, <2>1 DEF StartContainer, TypeOK, Begun, SetUp
  <2>3. \A c \in Containers : Begun(c) => Begun(c)'
    BY <1>4, BegunStays
  <2>4. \A g \in Handlers \ {h} : Starter(g)' <=> Starter(g)
    BY <2>1 DEF Starter
  <2>5. \A g \in Handlers \ {h} : Starter(g) => Begun(target[g]) /\ target[g] \in Containers
    BY DEF SetUp, Starter, Fits
  <2>6. Starter(h)' => pc'[h] = "lookup"
    BY <2>1 DEF Starter
  <2>7. \A g \in Handlers : Starter(g)' => Begun(target[g])'
    BY <2>1, <2>2, <2>3, <2>4, <2>5, <2>6 DEF Begun
  <2>8. \A f, g \in Handlers : f # g /\ Starter(f)' /\ Starter(g)' => target'[f] # target'[g]
    BY <2>1, <2>2, <2>4, <2>5, <2>6 DEF SetUp
  <2> QED BY <2>1, <2>2, <2>3, <2>7, <2>8 DEF SetUp
<1>5. ASSUME NEW h \in Handlers, LookUp(h) PROVE SetUp'
  BY <1>5 DEF LookUp, TypeOK, SetUp, Fits, Known, Creating, Fresh, Begun, Starter
<1>6. ASSUME NEW h \in Handlers, SetControllerPid(h) PROVE SetUp'
  <2>1. Starter(h) /\ target[h] \in Containers
    BY <1>6 DEF SetControllerPid, Fits, Starter
  <2> QED BY <1>6, <2>1, StarterMoves DEF SetControllerPid, TypeOK
<1>7. ASSUME NEW h \in Handlers, SetControllerStreams(h) PROVE SetUp'
  <2>1. Starter(h) /\ target[h] \in Containers
    BY <1>7 DEF SetControllerStreams, Fits, Starter
  <2> QED BY <1>7, <2>1, StarterMoves DEF SetControllerStreams, TypeOK
<1>8. ASSUME NEW h \in Handlers, Activate(h) PROVE SetUp'
  <2>1. Starter(h)
    BY <1>8 DEF Activate, Fits, Starter
  <2> QED BY <1>8, <2>1, StarterMoves DEF Activate
<1>9. ASSUME NEW h \in Handlers, StopContainer(h) PROVE SetUp'
  BY <1>9 DEF StopContainer, StopPodSandbox, TypeOK, SetUp, Fits, Known, Creating, Fresh, Begun, Starter
<1>10. ASSUME NEW h \in Handlers, RemoveContainer(h) PROVE SetUp'
  BY <1>10 DEF RemoveContainer, RemovePodSandbox, TypeOK, SetUp, Fits, Known, Creating, Fresh, Begun, Starter
<1>11. ASSUME NEW h \in Handlers, SendCommand(h) PROVE SetUp'
  BY <1>11 DEF SendCommand, TypeOK, SetUp, Fits, Known, Creating, Fresh, Begun, Starter
<1>12. ASSUME NEW h \in Handlers, Restore(h) PROVE SetUp'
  BY <1>12 DEF Restore, TypeOK, SetUp, Fits, Known, Creating, Fresh, Begun, Starter
<1>13. ASSUME NEW h \in Handlers, ListLength(h) PROVE SetUp'
  BY <1>13 DEF ListLength, TypeOK, SetUp, Fits, Known, Creating, Fresh, Begun, Starter
<1>14. ASSUME NEW h \in Handlers, ListContainers(h) PROVE SetUp'
  BY <1>14 DEF ListContainers, TypeOK, SetUp, Fits, Known, Creating, Fresh, Begun, Starter
<1>15. ASSUME NEW c \in Containers, Exit(c) PROVE SetUp'
  BY <1>15 DEF Exit, TypeOK, SetUp, Fits, Known, Creating, Fresh, Begun, Starter
<1>16. ASSUME NEW s \in Servers, ServeFails(s) \/ Done(s) PROVE SetUp'
  BY <1>16 DEF ServeFails, Done, SetUp, Fits, Known, Creating, Fresh, Begun, Starter
<1>17. ASSUME Boot \/ ContainerdRunFails \/ MainExits PROVE SetUp'
  BY <1>17 DEF Boot, ContainerdRunFails, MainExits, SetUp, Fits, Known, Creating, Fresh, Begun, Starter
<1>18. CASE UNCHANGED vars
  BY <1>18 DEF vars, SetUp, Fits, Known, Creating, Fresh, Begun, Starter
<1> QED BY <1>1, <1>2, <1>4, <1>5, <1>6, <1>7, <1>8, <1>9, <1>10, <1>11, <1>12,
           <1>13, <1>14, <1>15, <1>16, <1>17, <1>18 DEF Next, Handler

LEMMA StartedNext ==
  ASSUME CRIAssumption, CallsInv, [Next]_vars
  PROVE  StartedIsActive'
<1> USE DEF Only, Goto, At, Crash, callVars, mainVars, CallsInv, Ops, Created
<1>1. ASSUME NEW h \in Handlers, Call(h) PROVE StartedIsActive'
  BY <1>1 DEF Call, First, Legal, TypeOK, Fits, StartedIsActive
<1>2. ASSUME NEW h \in Handlers, CreateContainer(h) PROVE StartedIsActive'
  BY <1>2 DEF CreateContainer, TypeOK, StartedIsActive, Fits, Known, Creating, Fresh, SetUp, Begun, Starter, Keys
<1>3. ASSUME NEW h \in Handlers, CreateController(h) PROVE StartedIsActive'
  BY <1>3 DEF CreateController, TypeOK, StartedIsActive, Fits, Known, Creating, Fresh, SetUp, Begun, Starter, Keys
<1>4. ASSUME NEW h \in Handlers, StartContainer(h) PROVE StartedIsActive'
  BY <1>4 DEF StartContainer, TypeOK, StartedIsActive, Fits, Known, Creating, Fresh, SetUp, Begun, Starter, Keys
<1>5. ASSUME NEW h \in Handlers, LookUp(h) PROVE StartedIsActive'
  BY <1>5 DEF LookUp, TypeOK, StartedIsActive, Fits, Known, Creating, Fresh, SetUp, Begun, Starter, Keys
<1>6. ASSUME NEW h \in Handlers, SetControllerPid(h) PROVE StartedIsActive'
  BY <1>6 DEF SetControllerPid, TypeOK, StartedIsActive, Fits, Known, Creating, Fresh, SetUp, Begun, Starter, Keys
<1>7. ASSUME NEW h \in Handlers, SetControllerStreams(h) PROVE StartedIsActive'
  BY <1>7 DEF SetControllerStreams, TypeOK, StartedIsActive, Fits, Known, Creating, Fresh, SetUp, Begun, Starter, Keys
<1>8. ASSUME NEW h \in Handlers, Activate(h) PROVE StartedIsActive'
  BY <1>8 DEF Activate, TypeOK, StartedIsActive, Fits, Known, Creating, Fresh, SetUp, Begun, Starter, Keys
<1>9. ASSUME NEW h \in Handlers, StopContainer(h) PROVE StartedIsActive'
  BY <1>9 DEF StopContainer, StopPodSandbox, TypeOK, StartedIsActive, Fits, Known, Creating, Fresh, SetUp, Begun, Starter, Keys
<1>10. ASSUME NEW h \in Handlers, RemoveContainer(h) PROVE StartedIsActive'
  BY <1>10 DEF RemoveContainer, RemovePodSandbox, TypeOK, StartedIsActive, Fits, Known, Creating, Fresh, SetUp, Begun, Starter, Keys
<1>11. ASSUME NEW h \in Handlers, SendCommand(h) PROVE StartedIsActive'
  BY <1>11 DEF SendCommand, TypeOK, StartedIsActive, Fits, Known, Creating, Fresh, SetUp, Begun, Starter, Keys
<1>12. ASSUME NEW h \in Handlers, Restore(h) PROVE StartedIsActive'
  BY <1>12 DEF Restore, TypeOK, StartedIsActive, Fits, Known, Creating, Fresh, SetUp, Begun, Starter, Keys
<1>13. ASSUME NEW h \in Handlers, ListLength(h) PROVE StartedIsActive'
  BY <1>13 DEF ListLength, TypeOK, StartedIsActive, Fits, Known, Creating, Fresh, SetUp, Begun, Starter, Keys
<1>14. ASSUME NEW h \in Handlers, ListContainers(h) PROVE StartedIsActive'
  BY <1>14 DEF ListContainers, TypeOK, StartedIsActive, Fits, Known, Creating, Fresh, SetUp, Begun, Starter, Keys
<1>15. ASSUME NEW c \in Containers, Exit(c) PROVE StartedIsActive'
  BY <1>15 DEF Exit, TypeOK, StartedIsActive, Fits, Known, Creating, Fresh, SetUp, Begun, Starter, Keys
<1>16. ASSUME NEW s \in Servers, ServeFails(s) \/ Done(s) PROVE StartedIsActive'
  BY <1>16 DEF ServeFails, Done, StartedIsActive, Fits, Known, Creating, Fresh, SetUp, Begun, Starter, Keys
<1>17. ASSUME Boot \/ ContainerdRunFails \/ MainExits PROVE StartedIsActive'
  BY <1>17 DEF Boot, ContainerdRunFails, MainExits, StartedIsActive, Fits, Known, Creating, Fresh, SetUp, Begun, Starter, Keys
<1>18. CASE UNCHANGED vars
  BY <1>18 DEF vars, StartedIsActive, Fits, Known, Creating, Fresh, SetUp, Begun, Starter, Keys
<1> QED BY <1>1, <1>2, <1>3, <1>4, <1>5, <1>6, <1>7, <1>8, <1>9, <1>10, <1>11, <1>12,
           <1>13, <1>14, <1>15, <1>16, <1>17, <1>18 DEF Next, Handler

LEMMA CallsInit == CRIAssumption /\ Init => CallsInv
<1> SUFFICES ASSUME CRIAssumption, Init PROVE CallsInv
  OBVIOUS
<1>1. TypeOK
  BY TypeInit
<1>2. Fits /\ Created /\ SetUp /\ StartedIsActive
  BY DEF Init, CRIAssumption, Ops, Fits, Created, Known, Creating, Fresh, OneCreator, Busy,
         SetUp, Starter, StartedIsActive
<1> QED BY <1>1, <1>2 DEF CallsInv

LEMMA CallsNext == CRIAssumption /\ CallsInv /\ [Next]_vars => CallsInv'
BY TypeNext, FitsNext, KnownNext, CreatingNext, OneCreatorNext, SetUpNext, StartedNext
DEF CallsInv, Created

LEMMA CallsCorrect == ASSUME CRIAssumption PROVE Spec => []CallsInv
<1>1. Init => CallsInv
  BY CallsInit
<1>2. CallsInv /\ [Next]_vars => CallsInv'
  BY CallsNext
<1> QED BY <1>1, <1>2, PTL DEF Spec

-----------------------------------------------------------------------------
\* Every variable has its type, and only containers of refunction pods have a
\* controller.
THEOREM TypeCorrect == ASSUME CRIAssumption PROVE Spec => []TypeOK
<1>1. CallsInv => TypeOK
  BY DEF CallsInv
<1> QED BY <1>1, CallsCorrect, PTL

\* "StartContainer starts the container" (start_container.go:16): when it has
\* returned, the container of a refunction pod has an active controller,
\* whatever other calls ran beside it.
THEOREM Started == ASSUME CRIAssumption PROVE Spec => []StartedIsActive
<1>1. CallsInv => StartedIsActive
  BY DEF CallsInv
<1> QED BY <1>1, CallsCorrect, PTL

\* A controller is set up by one StartContainer only, in its order, and while its
\* container is not removed what it has is never taken away, though the container
\* may be started again and any other calls run beside (start_container.go:30).
THEOREM Advances == ASSUME CRIAssumption PROVE Spec => SetupAdvances
<1> DEFINE Advance == \A c \in Containers :
                        \/ Phase(control'[c]) \in {Phase(control[c]), Phase(control[c]) + 1}
                        \/ container'[c] = "removed"
<1>1. CallsInv /\ [Next]_vars => [Advance]_vars
  <2> SUFFICES ASSUME CallsInv, [Next]_vars PROVE Advance
    OBVIOUS
  <2> USE DEF CallsInv
  <2>1. CASE control' = control
    BY <2>1 DEF Phase
  <2>2. ASSUME NEW h \in Handlers,
               \/ CreateController(h) \/ SetControllerPid(h)
               \/ SetControllerStreams(h) \/ Activate(h)
        PROVE  Advance
    <3>1. target[h] \in Containers
      BY <2>2 DEF CreateController, SetControllerPid, SetControllerStreams, Activate, At, Fits, Ops
    <3>2. \/ control' = control
          \/ control[target[h]] = "none" /\ control' = [control EXCEPT ![target[h]] = "new"]
          \/ control[target[h]] = "new" /\ control' = [control EXCEPT ![target[h]] = "pid"]
          \/ control[target[h]] = "pid" /\ control' = [control EXCEPT ![target[h]] = "streams"]
          \/ control[target[h]] = "streams" /\ control' = [control EXCEPT ![target[h]] = "active"]
      BY <2>2, <3>1 DEF CreateController, SetControllerPid, SetControllerStreams, Activate, At,
         Only, SetUp, Created, Known, Creating, Fresh
    <3> QED BY <3>1, <3>2 DEF Phase, TypeOK
  <2>3. ASSUME NEW h \in Handlers, Call(h) PROVE control' = control
    BY <2>3 DEF Call
  <2>4. ASSUME NEW h \in Handlers, Handler(h),
               ~CreateController(h), ~SetControllerPid(h),
               ~SetControllerStreams(h), ~Activate(h)
        PROVE  control' = control
    BY <2>4 DEF Handler, CreateContainer, StartContainer, LookUp, StopContainer,
       RemoveContainer, SendCommand, Restore, ListLength, ListContainers, Only
  <2> QED BY <2>1, <2>2, <2>3, <2>4, OutsideStep
<1> QED BY <1>1, CallsCorrect, PTL DEF Spec, SetupAdvances

-----------------------------------------------------------------------------
(* Lists. *)

LEMMA ListingNext ==
  ASSUME CRIAssumption, CallsInv, Listing, [Next]_vars
  PROVE  Listing'
<1> USE DEF CallsInv, Only, Goto, At, callVars
<1>1. ASSUME NEW h \in Handlers, Call(h) PROVE Listing'
  BY <1>1 DEF Call, First, Listing, TypeOK
<1>2. ASSUME NEW h \in Handlers, ListLength(h) PROVE Listing'
  <2>1. Keys \subseteq Containers /\ Cardinality({}) <= Cardinality(Keys)
    BY KeysType, FS_EmptySet
  <2> QED BY <1>2, <2>1 DEF ListLength, Listing, TypeOK
<1>3. ASSUME NEW h \in Handlers, ListContainers(h) PROVE Listing'
  <2> SUFFICES ASSUME NEW g \in Handlers, pc'[g] = "range"
               PROVE  /\ before'[g] \subseteq Containers
                      /\ listed'[g] \subseteq Containers
                      /\ size'[g] = Cardinality(before'[g])
                      /\ Cardinality(listed'[g]) <= size'[g]
    BY DEF Listing
  <2>1. /\ pc[g] = "range" /\ UNCHANGED <<size, before>>
        /\ \/ listed'[g] = listed[g]
           \/ /\ Cardinality(listed[g]) < size[g]
              /\ \E k \in Keys \ listed[g] : listed'[g] = listed[g] \cup {k}
    BY SMTT(60), <1>3 DEF ListContainers, TypeOK
  <2>2. CASE listed'[g] = listed[g]
    BY <2>1, <2>2 DEF Listing
  <2>3. ASSUME NEW k \in Keys \ listed[g],
               Cardinality(listed[g]) < size[g], listed'[g] = listed[g] \cup {k}
        PROVE  listed'[g] \subseteq Containers /\ Cardinality(listed'[g]) <= size[g]
    <3>1. listed[g] \subseteq Containers /\ IsFiniteSet(listed[g]) /\ k \in Containers
      BY <2>1, FS_Subset DEF Listing, Keys, CRIAssumption
    <3>2. Cardinality(listed[g] \cup {k}) = Cardinality(listed[g]) + 1
      BY <3>1, FS_AddElement
    <3>3. size[g] \in Nat /\ Cardinality(listed[g]) \in Nat
      BY <3>1, FS_CardinalityType, KeysType DEF TypeOK
    <3> QED BY <2>3, <3>1, <3>2, <3>3
  <2> QED BY <2>1, <2>2, <2>3 DEF Listing
<1>4. ASSUME NEW h \in Handlers, Handler(h), ~ListLength(h), ~ListContainers(h)
      PROVE  Listing'
  <2>1. UNCHANGED <<size, listed, before>> /\ pc'[h] # "range"
    BY <1>4 DEF Handler, CreateContainer, CreateController, StartContainer, LookUp,
       SetControllerPid, SetControllerStreams, Activate, StopContainer, RemoveContainer,
       SendCommand, Restore, TypeOK
  <2> QED BY <1>4, <2>1, HandlerStep DEF Listing
<1>5. CASE UNCHANGED callVars
  BY <1>5 DEF Listing
<1> QED BY <1>1, <1>2, <1>3, <1>4, <1>5, OutsideStep

LEMMA CompleteNext ==
  ASSUME CRIAssumption, CallsInv, Listing, ListComplete, [Next]_vars
  PROVE  ListComplete'
<1> USE DEF CallsInv, Only, Goto, At, callVars
<1>1. ASSUME NEW h \in Handlers, Call(h) PROVE ListComplete'
  BY <1>1 DEF Call, First, ListComplete, TypeOK
<1>2. ASSUME NEW h \in Handlers, ListContainers(h) PROVE ListComplete'
  <2>1. ASSUME pc'[h] = "ok"
        PROVE  before[h] \subseteq listed[h] /\ Cardinality(listed[h]) = size[h]
    <3>1. before[h] \subseteq listed[h] /\ pc[h] = "range"
      BY <1>2, <2>1 DEF ListContainers, TypeOK
    <3>2. IsFiniteSet(listed[h]) /\ IsFiniteSet(before[h])
      BY <3>1, FS_Subset DEF Listing, CRIAssumption
    <3>3. Cardinality(before[h]) <= Cardinality(listed[h])
      BY <3>1, <3>2, FS_Subset
    <3>4. Cardinality(before[h]) \in Nat /\ Cardinality(listed[h]) \in Nat
      BY <3>2, FS_CardinalityType
    <3> QED BY <3>1, <3>3, <3>4 DEF Listing
  <2>2. pc[h] = "range" /\ op' = op
        /\ (pc'[h] = "ok" => UNCHANGED <<size, listed, before>>)
    BY <1>2 DEF ListContainers, TypeOK
  <2>3. \A g \in Handlers \ {h} :
          /\ pc'[g] = pc[g] /\ size'[g] = size[g] /\ before'[g] = before[g]
          /\ listed'[g] = listed[g]
    BY <1>2 DEF ListContainers, TypeOK
  <2> QED BY <2>1, <2>2, <2>3 DEF ListComplete
<1>3. ASSUME NEW h \in Handlers, Handler(h), ~ListContainers(h)
      PROVE  ListComplete'
  <2>1. /\ op[h] = "list" => pc'[h] # "ok"
        /\ \A g \in Handlers \ {h} :
             size'[g] = size[g] /\ before'[g] = before[g] /\ listed'[g] = listed[g]
    BY <1>3 DEF Handler, CreateContainer, CreateController, StartContainer, LookUp,
       SetControllerPid, SetControllerStreams, Activate, StopContainer, RemoveContainer,
       SendCommand, Restore, ListLength, TypeOK, Fits
  <2> QED BY <1>3, <2>1, HandlerStep DEF ListComplete
<1>4. CASE UNCHANGED callVars
  BY <1>4 DEF ListComplete
<1> QED BY <1>1, <1>2, <1>3, <1>4, OutsideStep

\* A list that returns has every controller that was there when it began, and
\* none twice (controller_service.go:51).
THEOREM Lists == ASSUME CRIAssumption PROVE Spec => []ListComplete
<1>1. Init => Listing /\ ListComplete
  BY DEF Init, Listing, ListComplete
<1>2. CallsInv /\ Listing /\ ListComplete /\ [Next]_vars => Listing' /\ ListComplete'
  BY ListingNext, CompleteNext
<1> QED BY <1>1, <1>2, CallsCorrect, PTL DEF Spec

-----------------------------------------------------------------------------
(* What brings the service down.                                           *)

\* Only creations write to the map, and keys that were listed stay in it.
Writers == \A h \in writing : pc[h] = "storing"
InKeys == \A h \in Handlers : pc[h] = "range" => listed[h] \subseteq Keys

CrashInv == CallsInv /\ Listing /\ Writers /\ InKeys /\ CrashHasCause

LEMMA KeysStay ==
  ASSUME CallsInv, NEW h \in Handlers, Handler(h)
  PROVE  Keys \subseteq Keys'
<1> USE DEF Only, At, CallsInv
<1>1. ASSUME CreateController(h) \/ SetControllerPid(h) \/ SetControllerStreams(h) \/ Activate(h)
      PROVE  Keys \subseteq Keys'
  <2>1. \/ control' = control
        \/ \E s \in {"new", "pid", "streams", "active"} :
             control' = [control EXCEPT ![target[h]] = s]
    BY <1>1 DEF CreateController, SetControllerPid, SetControllerStreams, Activate
  <2>2. \A c \in Containers : control[c] # "none" => control'[c] # "none"
    BY <2>1 DEF TypeOK
  <2> QED BY <2>2 DEF Keys
<1>2. ASSUME ~CreateController(h), ~SetControllerPid(h), ~SetControllerStreams(h), ~Activate(h)
      PROVE  control' = control
  BY <1>2 DEF Handler, CreateContainer, StartContainer, LookUp, StopContainer,
     RemoveContainer, SendCommand, Restore, ListLength, ListContainers
<1> QED BY <1>1, <1>2 DEF Keys

LEMMA WritersNext ==
  ASSUME CRIAssumption, CallsInv, Writers, [Next]_vars
  PROVE  Writers'
<1> USE DEF CallsInv, Goto, At, Only
<1>1. ASSUME NEW h \in Handlers, Call(h) PROVE Writers'
  BY <1>1 DEF Call, Writers, TypeOK
<1>2. ASSUME NEW h \in Handlers, CreateController(h) PROVE Writers'
  BY <1>2 DEF CreateController, Writers, TypeOK
<1>3. ASSUME NEW h \in Handlers, Handler(h), ~CreateController(h) PROVE Writers'
  <2>1. writing' = writing /\ pc[h] # "storing" /\ writing \subseteq Handlers
    BY <1>3 DEF Handler, CreateContainer, StartContainer, LookUp, SetControllerPid,
       SetControllerStreams, Activate, StopContainer, RemoveContainer, SendCommand,
       Restore, ListLength, ListContainers, TypeOK
  <2> QED BY <1>3, <2>1, HandlerStep DEF Writers
<1>4. CASE UNCHANGED <<callVars, writing>>
  BY <1>4 DEF Writers, callVars
<1> QED BY <1>1, <1>2, <1>3, <1>4, OutsideStep

LEMMA InKeysNext ==
  ASSUME CRIAssumption, CallsInv, InKeys, [Next]_vars
  PROVE  InKeys'
<1> USE DEF CallsInv, Goto, At, Only, callVars
<1>1. ASSUME NEW h \in Handlers, Call(h) PROVE InKeys'
  BY <1>1 DEF Call, First, InKeys, Keys, TypeOK
<1>2. ASSUME NEW h \in Handlers, Handler(h) PROVE InKeys'
  <2>1. Keys \subseteq Keys' /\ \A g \in Handlers \ {h} : pc'[g] = pc[g]
    BY <1>2, KeysStay, HandlerStep
  <2>2. /\ \A g \in Handlers \ {h} : listed'[g] = listed[g]
        /\ pc'[h] = "range" => listed'[h] \subseteq Keys
    BY <1>2 DEF Handler, CreateContainer, CreateController, StartContainer, LookUp,
       SetControllerPid, SetControllerStreams, Activate, StopContainer, RemoveContainer,
       SendCommand, Restore, ListLength, ListContainers, TypeOK, InKeys
  <2> QED BY <2>1, <2>2 DEF InKeys
<1>3. CASE UNCHANGED <<callVars, control>>
  BY <1>3 DEF InKeys, Keys
<1> QED BY <1>1, <1>2, <1>3, OutsideStep

\* The call that crashes has used the map beside a write, found more keys than
\* it made room for, or a controller without streams.
LEMMA Crashing ==
  ASSUME NEW h \in Handlers, Handler(h), crashed' # crashed
  PROVE  /\ crashed' = h /\ UNCHANGED <<pc, op, target, before, control>>
         /\ \/ Race(h)
            \/ /\ ListContainers(h)
               /\ \E k \in Keys \ listed[h] : ~(Cardinality(listed[h]) < size[h])
            \/ op[h] = "command" /\ control[target[h]] \in {"new", "pid"}
<1> USE DEF Only, Crash
<1>1. CASE CreateController(h) \/ LookUp(h)
  BY <1>1 DEF CreateController, LookUp
<1>2. CASE SendCommand(h)
  BY <1>2 DEF SendCommand
<1>3. CASE ListContainers(h)
  <2>1. UNCHANGED <<op, target, control>>
    BY <1>3 DEF ListContainers
  <2>2. \/ Race(h) /\ crashed' = h /\ UNCHANGED <<pc, before>>
        \/ /\ UNCHANGED <<pc, before>>
           /\ \E k \in Keys \ listed[h] :
                ~(Cardinality(listed[h]) < size[h]) /\ crashed' = h
    BY <1>3 DEF ListContainers
  <2> QED BY <1>3, <2>1, <2>2
<1>4. ASSUME ~CreateController(h), ~LookUp(h), ~SendCommand(h), ~ListContainers(h)
      PROVE  crashed' = crashed
  BY <1>4 DEF Handler, CreateContainer, StartContainer, SetControllerPid,
     SetControllerStreams, Activate, StopContainer, RemoveContainer, Restore, ListLength
<1> QED BY <1>1, <1>2, <1>3, <1>4

\* A list that overflows has seen a controller that was not there at its start.
LEMMA Overflow ==
  ASSUME CRIAssumption, Listing, InKeys, NEW h \in Handlers, pc[h] = "range",
         NEW k \in Keys \ listed[h], ~(Cardinality(listed[h]) < size[h]), TypeOK
  PROVE  before[h] # Keys
<1> SUFFICES ASSUME before[h] = Keys PROVE FALSE
  OBVIOUS
<1>1. listed[h] \subseteq Keys /\ size[h] = Cardinality(Keys)
  BY DEF Listing, InKeys
<1>2. IsFiniteSet(Keys)
  BY KeysType
<1>3. listed[h] # Keys /\ IsFiniteSet(listed[h])
  BY <1>1, <1>2, FS_Subset
<1>4. Cardinality(listed[h]) <= Cardinality(Keys) /\ Cardinality(listed[h]) # Cardinality(Keys)
  BY <1>1, <1>2, <1>3, FS_Subset
<1>5. Cardinality(listed[h]) \in Nat /\ Cardinality(Keys) \in Nat
  BY <1>2, <1>3, FS_CardinalityType
<1> QED BY <1>1, <1>4, <1>5

LEMMA CrashNext ==
  ASSUME CRIAssumption, CrashInv, [Next]_vars
  PROVE  CrashHasCause'
<1> USE DEF CrashInv, CallsInv
<1>1. ASSUME NEW h \in Handlers, Handler(h), crashed' # crashed PROVE CrashHasCause'
  <2>1. /\ crashed' = h /\ UNCHANGED <<pc, op, target, before, control>>
        /\ \/ Race(h)
           \/ /\ ListContainers(h)
              /\ \E k \in Keys \ listed[h] : ~(Cardinality(listed[h]) < size[h])
           \/ op[h] = "command" /\ control[target[h]] \in {"new", "pid"}
    BY <1>1, Crashing
  <2>2. CASE Race(h)
    <3>1. \E g \in Handlers \ {h} : op[g] = "create" /\ pc[g] = "storing"
      BY <2>2 DEF Race, Writers, Fits, TypeOK
    <3> QED BY <2>1, <3>1 DEF CrashHasCause
  <2>3. ASSUME ListContainers(h), NEW k \in Keys \ listed[h],
               ~(Cardinality(listed[h]) < size[h])
        PROVE  CrashHasCause'
    <3>1. pc[h] = "range" /\ op[h] = "list"
      BY <2>3 DEF ListContainers, At, Fits
    <3>2. before[h] # Keys
      BY <2>3, <3>1, Overflow
    <3> QED BY <2>1, <3>1, <3>2 DEF CrashHasCause, Keys
  <2>4. CASE op[h] = "command" /\ control[target[h]] \in {"new", "pid"}
    <3>1. target[h] \in Refunction
      BY <2>4 DEF Fits, Ops, Created, Known
    <3>2. \A g \in Handlers : op[g] = "start" /\ target[g] = target[h] => pc[g] # "ok"
      BY <2>4, <3>1 DEF StartedIsActive
    <3> QED BY <2>1, <2>4, <3>2 DEF CrashHasCause
  <2> QED BY <2>1, <2>2, <2>3, <2>4
<1>2. ASSUME crashed' = None PROVE CrashHasCause'
  BY <1>2 DEF CrashHasCause, CRIAssumption
<1>3. ASSUME crashed' = crashed, crashed # None PROVE CrashHasCause'
  <2>1. \A h \in Handlers : ~Call(h) /\ ~Handler(h)
    BY <1>3 DEF Call, Up, At, Handler, CreateContainer, CreateController, StartContainer,
       LookUp, SetControllerPid, SetControllerStreams, Activate, StopContainer,
       RemoveContainer, SendCommand, Restore, ListLength, ListContainers
  <2>2. UNCHANGED <<callVars, control>>
    BY <2>1, OutsideStep
  <2> QED BY <1>3, <2>2 DEF CrashHasCause, Keys, callVars
<1>4. ASSUME NEW h \in Handlers, Call(h) PROVE crashed' = crashed
  BY <1>4 DEF Call
<1>5. crashed' = crashed \/ \E h \in Handlers : Handler(h)
  BY <1>4, OutsideStep
<1> QED BY <1>1, <1>2, <1>3, <1>5

\* Whatever calls run beside each other, one brings the service down for three
\* causes only: it uses the map beside a creation that writes to it
\* (controller_service.go:44), it lists while controllers are added (:55), or it
\* sends a command to a container whose StartContainer has not returned
\* (controller.go:242).
THEOREM CrashesHaveCauses == ASSUME CRIAssumption PROVE Spec => []CrashHasCause
<1>1. Init => CrashInv
  BY CallsInit DEF Init, CrashInv, Listing, Writers, InKeys, CrashHasCause, CRIAssumption
<1>2. CrashInv /\ [Next]_vars => CrashInv'
  BY CallsNext, ListingNext, WritersNext, InKeysNext, CrashNext DEF CrashInv
<1>3. CrashInv => CrashHasCause
  BY DEF CrashInv
<1> QED BY <1>1, <1>2, <1>3, PTL DEF Spec

=============================================================================
