----------------------------- MODULE Snapshots ------------------------------
(***************************************************************************)
(* The layers of a runtime as snapshots of containerd                      *)
(* (src/worker/snapshot.go): every layer of the runtime is committed on    *)
(* top of the one before, the layer of the function server on top of them, *)
(* and each container gets a snapshot on top of that.                      *)
(*                                                                         *)
(* Abstractions: a layer file is good, bad (unpacking it fails, with part  *)
(* of it unpacked) or short: empty, or ending between two entries, which   *)
(* is unpacked without an error.  It can be mended by whoever made it.     *)
(* The snapshots and the mounts outlive the process that works on them.    *)
(***************************************************************************)
EXTENDS Naturals, Sequences, FiniteSets

CONSTANTS
  Layers,      \* the layers, the lowest first, the function server's last
  Callers,     \* goroutines that create a manager and a worker
  None,        \* no layer
  Faults       \* what may go wrong, see FaultKinds

\* "mount", "apply", "commit": that step fails     "file": a layer file is not good
\* "crash": the process ends      "unmount": the layer stays mounted
FaultKinds == {"mount", "apply", "commit", "file", "crash", "unmount"}

Positions == DOMAIN Layers
LayerSet == {Layers[i] : i \in Positions}

SnapshotsAssumption ==
  /\ \A i, j \in Positions : Layers[i] = Layers[j] => i = j
  /\ Layers \in Seq(LayerSet) /\ Layers # <<>>
  /\ None \notin LayerSet
  /\ Faults \subseteq FaultKinds

VARIABLES
  committed,  \* content of each committed layer: "none", "part" of what was unpacked,
              \* what a file holds that is "cut" short, or the "whole" layer
  active,     \* content of its snapshot in the making: the same, or "empty"
  file,       \* the file of the layer: "good" | "bad" | "short"
  views,      \* callers that have the snapshot of their container
  mounted,    \* layers mounted on a temporary directory of a caller
  pc,         \* where each caller is in createLayer
  at,         \* the position of the layer it creates
  failed      \* whether createLayer returns an error

vars == <<committed, active, file, views, mounted, pc, at, failed>>

TypeOK ==
  /\ committed \in [LayerSet -> {"none", "part", "cut", "whole"}]
  /\ active \in [LayerSet -> {"none", "empty", "part", "cut", "whole"}]
  /\ file \in [LayerSet -> {"good", "bad", "short"}]
  /\ views \subseteq Callers
  /\ mounted \subseteq Callers \X LayerSet
  /\ pc \in [Callers -> {"stat", "prepare", "mount", "apply", "commit", "cleanup",
                         "container", "ready", "error"}]
  /\ at \in [Callers -> Positions]
  /\ failed \in [Callers -> BOOLEAN]

Init ==
  /\ committed = [l \in LayerSet |-> "none"]
  /\ active = [l \in LayerSet |-> "none"]
  /\ file \in [LayerSet -> {"good"} \cup (IF "file" \in Faults THEN {"bad", "short"} ELSE {})]
  /\ views = {}
  /\ mounted = {}
  /\ pc = [c \in Callers |-> "stat"]
  /\ at = [c \in Callers |-> 1]
  /\ failed = [c \in Callers |-> FALSE]

-----------------------------------------------------------------------------
Layer(c) == Layers[at[c]]
Goto(c, p) == pc' = [pc EXCEPT ![c] = p]
Fails(c, p) == Goto(c, p) /\ failed' = [failed EXCEPT ![c] = TRUE]

\* A layer that is there is not made again; after the last comes the container.
NextLayer(c) ==
  IF at[c] = Len(Layers)
  THEN Goto(c, "container") /\ UNCHANGED at
  ELSE Goto(c, "stat") /\ at' = [at EXCEPT ![c] = @ + 1]

Stat(c) ==
  /\ pc[c] = "stat"
  /\ IF committed[Layer(c)] = "none"
     THEN Goto(c, "prepare") /\ UNCHANGED at
     ELSE NextLayer(c)
  /\ UNCHANGED <<committed, active, file, views, mounted, failed>>

\* Prepare needs the parent committed and the name <layer>-active free.
Prepare(c) ==
  /\ pc[c] = "prepare"
  /\ IF active[Layer(c)] = "none"
     THEN /\ at[c] > 1 => committed[Layers[at[c] - 1]] # "none"
          /\ active' = [active EXCEPT ![Layer(c)] = "empty"]
          /\ Goto(c, "mount")
          /\ UNCHANGED failed
     ELSE /\ Fails(c, "error")
          /\ UNCHANGED active
  /\ UNCHANGED <<committed, file, views, mounted, at>>

Mount(c) ==
  /\ pc[c] = "mount"
  /\ \/ mounted' = mounted \cup {<<c, Layer(c)>>} /\ Goto(c, "apply") /\ UNCHANGED failed
     \/ "mount" \in Faults /\ Fails(c, "error") /\ UNCHANGED mounted
  /\ UNCHANGED <<committed, active, file, views, at>>

\* What a file that gives no error leaves in the snapshot.
Unpacked(l) == IF file[l] = "good" THEN "whole" ELSE "cut"

\* Variant: an error of Apply is not looked at.
ApplyGoesOn(c) ==
  /\ pc[c] = "apply"
  /\ active' = [active EXCEPT ![Layer(c)] = IF file[Layer(c)] = "bad" THEN "part" ELSE Unpacked(Layer(c))]
  /\ Goto(c, "commit")
  /\ UNCHANGED <<committed, file, views, mounted, at, failed>>

\* The layer file is opened and unpacked into the mount.  A file that ends
\* where an entry may begin is taken for all of the archive.
Apply(c) ==
  /\ pc[c] = "apply"
  /\ \/ /\ file[Layer(c)] # "bad"
        /\ active' = [active EXCEPT ![Layer(c)] = Unpacked(Layer(c))]
        /\ Goto(c, "commit")
        /\ UNCHANGED failed
     \/ /\ "apply" \in Faults \/ file[Layer(c)] = "bad"
        /\ active' = [active EXCEPT ![Layer(c)] = "part"]
        /\ Fails(c, "cleanup")
  /\ UNCHANGED <<committed, file, views, mounted, at>>

Commit(c) ==
  /\ pc[c] = "commit"
  /\ \/ /\ committed[Layer(c)] = "none"
        /\ committed' = [committed EXCEPT ![Layer(c)] = active[Layer(c)]]
        /\ active' = [active EXCEPT ![Layer(c)] = "none"]
        /\ Goto(c, "cleanup")
        /\ UNCHANGED failed
     \/ /\ "commit" \in Faults \/ committed[Layer(c)] # "none"
        /\ Fails(c, "cleanup")
        /\ UNCHANGED <<committed, active>>
  /\ UNCHANGED <<file, views, mounted, at>>

\* The deferred calls: the layer is unmounted, then the directory is removed
\* with everything in it, the layer too if it is still mounted there.
CleanUp(c) ==
  /\ pc[c] = "cleanup"
  /\ \/ /\ mounted' = mounted \ {<<c, Layer(c)>>}
        /\ UNCHANGED <<committed, active>>
     \/ /\ "unmount" \in Faults
        /\ LET Lose(s) == [s EXCEPT ![Layer(c)] = IF @ \in {"cut", "whole"} THEN "part" ELSE @]
           IN  IF failed[c] THEN active' = Lose(active) /\ UNCHANGED committed
                            ELSE committed' = Lose(committed) /\ UNCHANGED active
        /\ UNCHANGED mounted
  /\ IF failed[c] THEN Goto(c, "error") /\ UNCHANGED at ELSE NextLayer(c)
  /\ UNCHANGED <<file, views, failed>>

\* GetRwMounts: the snapshot of the container on top of the last layer.
GetRwMounts(c) ==
  /\ pc[c] = "container"
  /\ views' = views \cup {c}
  /\ Goto(c, "ready")
  /\ UNCHANGED <<committed, active, file, mounted, at, failed>>

-----------------------------------------------------------------------------
\* A caller that failed tries again from the start.
Again(c) ==
  /\ pc[c] = "error"
  /\ Goto(c, "stat")
  /\ at' = [at EXCEPT ![c] = 1]
  /\ failed' = [failed EXCEPT ![c] = FALSE]
  /\ UNCHANGED <<committed, active, file, views, mounted>>

\* The process ends and is started again.
Crash ==
  /\ "crash" \in Faults
  /\ pc' = [c \in Callers |-> "stat"]
  /\ at' = [c \in Callers |-> 1]
  /\ failed' = [c \in Callers |-> FALSE]
  /\ UNCHANGED <<committed, active, file, views, mounted>>

\* A bad or short layer file is replaced.
Mend(l) ==
  /\ file[l] # "good"
  /\ file' = [file EXCEPT ![l] = "good"]
  /\ UNCHANGED <<committed, active, views, mounted, pc, at, failed>>

-----------------------------------------------------------------------------
Next ==
  \/ \E c \in Callers :
       \/ Stat(c) \/ Prepare(c) \/ Mount(c) \/ Apply(c) \/ Commit(c) \/ CleanUp(c)
       \/ GetRwMounts(c) \/ Again(c)
  \/ Crash
  \/ \E l \in LayerSet : Mend(l)

Spec == Init /\ [][Next]_vars

-----------------------------------------------------------------------------
(* Properties.                                                             *)

\* What is committed is all that its file held, unpacked without an error: a
\* layer file that is bad, an unpacking that fails and a crash leave nothing that
\* the next start would take for the layer (snapshot.go:158, :169).  Only a
\* layer that could not be unmounted may have lost files, with the directory it
\* is still mounted on (:150).  It need not be the whole layer: what a short file
\* held is committed, and not made again when the file is mended.
CommittedIsUnpacked ==
  \A l \in LayerSet : committed[l] = "part" => \E c \in Callers : <<c, l>> \in mounted

\* A layer stands on committed layers only, and a container on all of them.
StandsOnLayers ==
  /\ \A i \in Positions : \A j \in 1 .. i - 1 :
       committed[Layers[i]] # "none" \/ active[Layers[i]] # "none" =>
         committed[Layers[j]] # "none"
  /\ \A c \in Callers : c \in views => \A l \in LayerSet : committed[l] # "none"

=============================================================================
