----------------------------- MODULE PoolProofs -----------------------------
(***************************************************************************)
(* Theorems about Snapshots, RuntimeCache, Worker and WorkerPool, for      *)
(* every number of layers, files, versions, workers and groups.            *)
(***************************************************************************)
EXTENDS MCWorkerPool, TLAPS

-----------------------------------------------------------------------------
(* The layers.                                                             *)

LayerTypeOK == Making!TypeOK

\* A caller that works on the snapshot of its layer.
Makes(c) ==
  \/ creating[c] \in {"mount", "apply", "commit"}
  \/ creating[c] = "cleanup" /\ failed[c]

\* What a caller may count on; the snapshot was unpacked when it is committed.
MakerOK(c) ==
  LET l == Making!Layer(c) IN
  /\ Makes(c) => active[l] # "none"
  /\ creating[c] = "commit" => active[l] \in {"cut", "whole"}
  /\ creating[c] \in {"apply", "commit", "cleanup"} => <<c, l>> \in mounted
  /\ creating[c] = "cleanup" /\ ~failed[c] => committed[l] # "none"
  /\ failed[c] => creating[c] \in {"cleanup", "error"}

\* One caller at a time works on a layer, because the name of its snapshot is
\* taken meanwhile.
Apart(c, d) == c # d /\ Makes(c) /\ Makes(d) => Making!Layer(c) # Making!Layer(d)

OneMaker ==
  /\ \A c \in Callers : MakerOK(c)
  /\ \A c, d \in Callers : Apart(c, d)

\* A caller that is past a layer does not come back to it once it is committed.
Past(c, l) ==
  ~(Making!Layer(c) = l /\ creating[c] \in {"prepare", "mount", "apply", "commit", "cleanup"})

\* What is committed in part is still mounted by one that is past it.
StillMounted ==
  \A l \in Making!LayerSet : committed[l] = "part" =>
    \E c \in Callers : <<c, l>> \in mounted /\ Past(c, l)

\* The layers below one that is made, or is to be made next, are committed.
StandsInv ==
  /\ \A i \in Making!Positions : \A j \in 1 .. i - 1 :
       committed[Layers[i]] # "none" \/ active[Layers[i]] # "none" =>
         committed[Layers[j]] # "none"
  /\ \A c \in Callers : c \in views \/ creating[c] = "container" =>
       \A l \in Making!LayerSet : committed[l] # "none"

LayersInv == LayerTypeOK /\ OneMaker /\ StillMounted /\ StandsInv

\* A step of one caller.
Steps(c) ==
  \/ Making!Stat(c) \/ Making!Prepare(c) \/ Making!Mount(c)
  \/ Making!Apply(c) \/ Making!Commit(c) \/ Making!CleanUp(c)
  \/ Making!GetRwMounts(c) \/ Making!Again(c)

LEMMA LayerPositions ==
  ASSUME Making!SnapshotsAssumption
  PROVE  /\ Making!Positions = 1 .. Len(Layers)
         /\ Len(Layers) \in Nat \ {0}
         /\ \A i \in Making!Positions : Layers[i] \in Making!LayerSet
BY DEF Making!SnapshotsAssumption, Making!Positions, Making!LayerSet

LEMMA LayerOf ==
  ASSUME Making!SnapshotsAssumption, LayerTypeOK, NEW c \in Callers
  PROVE  /\ Making!Layer(c) \in Making!LayerSet
         /\ at[c] \in 1 .. Len(Layers)
BY LayerPositions DEF LayerTypeOK, Making!TypeOK, Making!Layer

LEMMA LayerTypes ==
  ASSUME Making!SnapshotsAssumption, LayerTypeOK, OneMaker, Making!Next
  PROVE  LayerTypeOK'
<1> USE DEF LayerTypeOK, Making!TypeOK
<1>1. ASSUME NEW c \in Callers, Making!Stat(c) PROVE LayerTypeOK'
  <2>0. Making!Layer(c) \in Making!LayerSet /\ at[c] \in 1 .. Len(Layers)
    BY LayerOf
  <2>1. (committed \in [Making!LayerSet -> {"none", "part", "cut", "whole"}])'
    BY <1>1, <2>0, SMT DEF Making!Stat, Making!NextLayer, Making!Goto
  <2>2. (active \in [Making!LayerSet -> {"none", "empty", "part", "cut", "whole"}])'
    BY <1>1, <2>0, SMT DEF Making!Stat, Making!NextLayer, Making!Goto
  <2>3. (creating \in [Callers -> {"stat", "prepare", "mount", "apply", "commit", "cleanup",
                              "container", "ready", "error"}])'
    BY <1>1, SMT DEF Making!Stat, Making!NextLayer, Making!Goto
  <2>4. (at \in [Callers -> Making!Positions])'
    <3>1. \/ at' = at
          \/ at[c] # Len(Layers) /\ at' = [at EXCEPT ![c] = @ + 1]
      BY <1>1 DEF Making!Stat, Making!NextLayer
    <3> QED
      BY <2>0, <3>1, LayerPositions, SMT
  <2>5. (failed \in [Callers -> BOOLEAN])'
    BY <1>1 DEF Making!Stat, Making!NextLayer, Making!Goto
  <2>6. (mounted \subseteq Callers \X Making!LayerSet)'
    BY <1>1, <2>0 DEF Making!Stat, Making!NextLayer, Making!Goto
  <2> QED
    BY <1>1, <2>1, <2>2, <2>3, <2>4, <2>5, <2>6 DEF Making!Stat
<1>2. ASSUME NEW c \in Callers, Making!Prepare(c) PROVE LayerTypeOK'
  <2>0. Making!Layer(c) \in Making!LayerSet /\ at[c] \in 1 .. Len(Layers)
    BY LayerOf
  <2>1. (committed \in [Making!LayerSet -> {"none", "part", "cut", "whole"}])'
    BY <1>2, <2>0, SMT DEF Making!Prepare, Making!Goto, Making!Fails
  <2>2. (active \in [Making!LayerSet -> {"none", "empty", "part", "cut", "whole"}])'
    BY <1>2, <2>0, SMT DEF Making!Prepare, Making!Goto, Making!Fails
  <2>3. (creating \in [Callers -> {"stat", "prepare", "mount", "apply", "commit", "cleanup",
                              "container", "ready", "error"}])'
    BY <1>2, SMT DEF Making!Prepare, Making!Goto, Making!Fails
  <2>4. (at \in [Callers -> Making!Positions])'
    BY <1>2, <2>0, LayerPositions, SMT DEF Making!Prepare, Making!Goto,
       Making!Fails
  <2>5. (failed \in [Callers -> BOOLEAN])'
    BY <1>2 DEF Making!Prepare, Making!Goto, Making!Fails
  <2>6. (mounted \subseteq Callers \X Making!LayerSet)'
    BY <1>2, <2>0 DEF Making!Prepare, Making!Goto, Making!Fails
  <2> QED
    BY <1>2, <2>1, <2>2, <2>3, <2>4, <2>5, <2>6 DEF Making!Prepare
<1>3. ASSUME NEW c \in Callers, Making!Mount(c) PROVE LayerTypeOK'
  <2>0. Making!Layer(c) \in Making!LayerSet /\ at[c] \in 1 .. Len(Layers)
    BY LayerOf
  <2>1. (committed \in [Making!LayerSet -> {"none", "part", "cut", "whole"}])'
    BY <1>3, <2>0, SMT DEF Making!Mount, Making!Goto, Making!Fails
  <2>2. (active \in [Making!LayerSet -> {"none", "empty", "part", "cut", "whole"}])'
    BY <1>3, <2>0, SMT DEF Making!Mount, Making!Goto, Making!Fails
  <2>3. (creating \in [Callers -> {"stat", "prepare", "mount", "apply", "commit", "cleanup",
                              "container", "ready", "error"}])'
    BY <1>3, SMT DEF Making!Mount, Making!Goto, Making!Fails
  <2>4. (at \in [Callers -> Making!Positions])'
    BY <1>3, <2>0, LayerPositions, SMT DEF Making!Mount, Making!Goto,
       Making!Fails
  <2>5. (failed \in [Callers -> BOOLEAN])'
    BY <1>3 DEF Making!Mount, Making!Goto, Making!Fails
  <2>6. (mounted \subseteq Callers \X Making!LayerSet)'
    BY <1>3, <2>0 DEF Making!Mount, Making!Goto, Making!Fails
  <2> QED
    BY <1>3, <2>1, <2>2, <2>3, <2>4, <2>5, <2>6 DEF Making!Mount
<1>4. ASSUME NEW c \in Callers, Making!Apply(c) PROVE LayerTypeOK'
  <2>0. Making!Layer(c) \in Making!LayerSet /\ at[c] \in 1 .. Len(Layers)
    BY LayerOf
  <2>1. (committed \in [Making!LayerSet -> {"none", "part", "cut", "whole"}])'
    BY <1>4, <2>0, SMT DEF Making!Apply, Making!Unpacked, Making!Goto,
       Making!Fails
  <2>2. (active \in [Making!LayerSet -> {"none", "empty", "part", "cut", "whole"}])'
    BY <1>4, <2>0, SMT DEF Making!Apply, Making!Unpacked, Making!Goto,
       Making!Fails
  <2>3. (creating \in [Callers -> {"stat", "prepare", "mount", "apply", "commit", "cleanup",
                              "container", "ready", "error"}])'
    BY <1>4, SMT DEF Making!Apply, Making!Unpacked, Making!Goto, Making!Fails
  <2>4. (at \in [Callers -> Making!Positions])'
    BY <1>4, <2>0, LayerPositions, SMT DEF Making!Apply, Making!Unpacked,
       Making!Goto,
       Making!Fails
  <2>5. (failed \in [Callers -> BOOLEAN])'
    BY <1>4 DEF Making!Apply, Making!Unpacked, Making!Goto, Making!Fails
  <2>6. (mounted \subseteq Callers \X Making!LayerSet)'
    BY <1>4, <2>0 DEF Making!Apply, Making!Unpacked, Making!Goto, Making!Fails
  <2> QED
    BY <1>4, <2>1, <2>2, <2>3, <2>4, <2>5, <2>6 DEF Making!Apply
<1>5. ASSUME NEW c \in Callers, Making!Commit(c) PROVE LayerTypeOK'
  <2>0. Making!Layer(c) \in Making!LayerSet /\ at[c] \in 1 .. Len(Layers)
    BY LayerOf
  <2>1. (committed \in [Making!LayerSet -> {"none", "part", "cut", "whole"}])'
    <3>1. active[Making!Layer(c)] \in {"cut", "whole"}
      BY <1>5 DEF Making!Commit, OneMaker, MakerOK
    <3> QED
      BY <1>5, <2>0, <3>1, SMT DEF Making!Commit
  <2>2. (active \in [Making!LayerSet -> {"none", "empty", "part", "cut", "whole"}])'
    BY <1>5, <2>0, SMT DEF Making!Commit, Making!Goto, Making!Fails
  <2>3. (creating \in [Callers -> {"stat", "prepare", "mount", "apply", "commit", "cleanup",
                              "container", "ready", "error"}])'
    BY <1>5, SMT DEF Making!Commit, Making!Goto, Making!Fails
  <2>4. (at \in [Callers -> Making!Positions])'
    BY <1>5, <2>0, LayerPositions, SMT DEF Making!Commit, Making!Goto,
       Making!Fails
  <2>5. (failed \in [Callers -> BOOLEAN])'
    BY <1>5 DEF Making!Commit, Making!Goto, Making!Fails
  <2>6. (mounted \subseteq Callers \X Making!LayerSet)'
    BY <1>5, <2>0 DEF Making!Commit, Making!Goto, Making!Fails
  <2> QED
    BY <1>5, <2>1, <2>2, <2>3, <2>4, <2>5, <2>6 DEF Making!Commit
<1>6. ASSUME NEW c \in Callers, Making!CleanUp(c) PROVE LayerTypeOK'
  <2>0. Making!Layer(c) \in Making!LayerSet /\ at[c] \in 1 .. Len(Layers)
    BY LayerOf
  <2>1. (committed \in [Making!LayerSet -> {"none", "part", "cut", "whole"}])'
    BY <1>6, <2>0, SMT DEF Making!CleanUp, Making!NextLayer, Making!Goto
  <2>2. (active \in [Making!LayerSet -> {"none", "empty", "part", "cut", "whole"}])'
    BY <1>6, <2>0, SMT DEF Making!CleanUp, Making!NextLayer, Making!Goto
  <2>3. (creating \in [Callers -> {"stat", "prepare", "mount", "apply", "commit", "cleanup",
                              "container", "ready", "error"}])'
    BY <1>6, SMT DEF Making!CleanUp, Making!NextLayer, Making!Goto
  <2>4. (at \in [Callers -> Making!Positions])'
    <3>1. \/ at' = at
          \/ at[c] # Len(Layers) /\ at' = [at EXCEPT ![c] = @ + 1]
      BY <1>6 DEF Making!CleanUp, Making!NextLayer
    <3> QED
      BY <2>0, <3>1, LayerPositions, SMT
  <2>5. (failed \in [Callers -> BOOLEAN])'
    BY <1>6 DEF Making!CleanUp, Making!NextLayer, Making!Goto
  <2>6. (mounted \subseteq Callers \X Making!LayerSet)'
    BY <1>6, <2>0 DEF Making!CleanUp, Making!NextLayer, Making!Goto
  <2> QED
    BY <1>6, <2>1, <2>2, <2>3, <2>4, <2>5, <2>6 DEF Making!CleanUp
<1>7. ASSUME NEW c \in Callers, Making!GetRwMounts(c) PROVE LayerTypeOK'
  <2>0. Making!Layer(c) \in Making!LayerSet /\ at[c] \in 1 .. Len(Layers)
    BY LayerOf
  <2>1. (committed \in [Making!LayerSet -> {"none", "part", "cut", "whole"}])'
    BY <1>7, <2>0, SMT DEF Making!GetRwMounts, Making!Goto
  <2>2. (active \in [Making!LayerSet -> {"none", "empty", "part", "cut", "whole"}])'
    BY <1>7, <2>0, SMT DEF Making!GetRwMounts, Making!Goto
  <2>3. (creating \in [Callers -> {"stat", "prepare", "mount", "apply", "commit", "cleanup",
                              "container", "ready", "error"}])'
    BY <1>7, SMT DEF Making!GetRwMounts, Making!Goto
  <2>4. (at \in [Callers -> Making!Positions])'
    BY <1>7, <2>0, LayerPositions, SMT DEF Making!GetRwMounts, Making!Goto
  <2>5. (failed \in [Callers -> BOOLEAN])'
    BY <1>7 DEF Making!GetRwMounts, Making!Goto
  <2>6. (mounted \subseteq Callers \X Making!LayerSet)'
    BY <1>7, <2>0 DEF Making!GetRwMounts, Making!Goto
  <2> QED
    BY <1>7, <2>1, <2>2, <2>3, <2>4, <2>5, <2>6 DEF Making!GetRwMounts
<1>8. ASSUME NEW c \in Callers, Making!Again(c) PROVE LayerTypeOK'
  <2>0. Making!Layer(c) \in Making!LayerSet /\ at[c] \in 1 .. Len(Layers)
    BY LayerOf
  <2>1. (committed \in [Making!LayerSet -> {"none", "part", "cut", "whole"}])'
    BY <1>8, <2>0, SMT DEF Making!Again, Making!Goto
  <2>2. (active \in [Making!LayerSet -> {"none", "empty", "part", "cut", "whole"}])'
    BY <1>8, <2>0, SMT DEF Making!Again, Making!Goto
  <2>3. (creating \in [Callers -> {"stat", "prepare", "mount", "apply", "commit", "cleanup",
                              "container", "ready", "error"}])'
    BY <1>8, SMT DEF Making!Again, Making!Goto
  <2>4. (at \in [Callers -> Making!Positions])'
    BY <1>8, <2>0, LayerPositions, SMT DEF Making!Again, Making!Goto
  <2>5. (failed \in [Callers -> BOOLEAN])'
    BY <1>8 DEF Making!Again, Making!Goto
  <2>6. (mounted \subseteq Callers \X Making!LayerSet)'
    BY <1>8, <2>0 DEF Making!Again, Making!Goto
  <2> QED
    BY <1>8, <2>1, <2>2, <2>3, <2>4, <2>5, <2>6 DEF Making!Again
<1>9. CASE Making!Crash
  BY <1>9, LayerPositions, SMT DEF Making!Crash
<1>10. ASSUME NEW l \in Making!LayerSet, Making!Mend(l) PROVE LayerTypeOK'
  BY <1>10, SMT DEF Making!Mend
<1> QED
  BY <1>1, <1>2, <1>3, <1>4, <1>5, <1>6, <1>7, <1>8, <1>9,
     <1>10 DEF Making!Next

\* A step of one caller leaves the others where they are.
LEMMA OthersStay ==
  ASSUME Making!SnapshotsAssumption, LayerTypeOK, NEW c \in Callers,
         NEW d \in Callers, d # c,
         Steps(c)
  PROVE  /\ creating'[d] = creating[d] /\ Making!Layer(d)' = Making!Layer(d)
         /\ Makes(d)' <=> Makes(d)
         /\ failed[d]' <=> failed[d]
<1> USE DEF LayerTypeOK, Making!TypeOK
<1>1. CASE Making!Stat(c)
  <2>1. creating'[d] = creating[d]
    BY <1>1, SMT DEF Making!Stat, Making!NextLayer, Making!Goto
  <2>2. at'[d] = at[d]
    BY <1>1, SMT DEF Making!Stat, Making!NextLayer, Making!Goto
  <2>3. failed'[d] = failed[d]
    BY <1>1 DEF Making!Stat, Making!NextLayer, Making!Goto
  <2> QED
    BY <2>1, <2>2, <2>3 DEF Making!Layer, Makes
<1>2. CASE Making!Prepare(c)
  <2>1. creating'[d] = creating[d]
    BY <1>2, SMT DEF Making!Prepare, Making!Goto, Making!Fails
  <2>2. at'[d] = at[d]
    BY <1>2, SMT DEF Making!Prepare, Making!Goto, Making!Fails
  <2>3. failed'[d] = failed[d]
    BY <1>2 DEF Making!Prepare, Making!Goto, Making!Fails
  <2> QED
    BY <2>1, <2>2, <2>3 DEF Making!Layer, Makes
<1>3. CASE Making!Mount(c)
  <2>1. creating'[d] = creating[d]
    BY <1>3, SMT DEF Making!Mount, Making!Goto, Making!Fails
  <2>2. at'[d] = at[d]
    BY <1>3, SMT DEF Making!Mount, Making!Goto, Making!Fails
  <2>3. failed'[d] = failed[d]
    BY <1>3 DEF Making!Mount, Making!Goto, Making!Fails
  <2> QED
    BY <2>1, <2>2, <2>3 DEF Making!Layer, Makes
<1>4. CASE Making!Apply(c)
  <2>1. creating'[d] = creating[d]
    BY <1>4, SMT DEF Making!Apply, Making!Unpacked, Making!Goto, Making!Fails
  <2>2. at'[d] = at[d]
    BY <1>4, SMT DEF Making!Apply, Making!Unpacked, Making!Goto, Making!Fails
  <2>3. failed'[d] = failed[d]
    BY <1>4 DEF Making!Apply, Making!Unpacked, Making!Goto, Making!Fails
  <2> QED
    BY <2>1, <2>2, <2>3 DEF Making!Layer, Makes
<1>5. CASE Making!Commit(c)
  <2>1. creating'[d] = creating[d]
    BY <1>5, SMT DEF Making!Commit, Making!Goto, Making!Fails
  <2>2. at'[d] = at[d]
    BY <1>5, SMT DEF Making!Commit, Making!Goto, Making!Fails
  <2>3. failed'[d] = failed[d]
    BY <1>5 DEF Making!Commit, Making!Goto, Making!Fails
  <2> QED
    BY <2>1, <2>2, <2>3 DEF Making!Layer, Makes
<1>6. CASE Making!CleanUp(c)
  <2>1. creating'[d] = creating[d]
    BY <1>6, SMT DEF Making!CleanUp, Making!NextLayer, Making!Goto
  <2>2. at'[d] = at[d]
    BY <1>6, SMT DEF Making!CleanUp, Making!NextLayer, Making!Goto
  <2>3. failed'[d] = failed[d]
    BY <1>6 DEF Making!CleanUp, Making!NextLayer, Making!Goto
  <2> QED
    BY <2>1, <2>2, <2>3 DEF Making!Layer, Makes
<1>7. CASE Making!GetRwMounts(c)
  <2>1. creating'[d] = creating[d]
    BY <1>7, SMT DEF Making!GetRwMounts, Making!Goto
  <2>2. at'[d] = at[d]
    BY <1>7, SMT DEF Making!GetRwMounts, Making!Goto
  <2>3. failed'[d] = failed[d]
    BY <1>7 DEF Making!GetRwMounts, Making!Goto
  <2> QED
    BY <2>1, <2>2, <2>3 DEF Making!Layer, Makes
<1>8. CASE Making!Again(c)
  <2>1. creating'[d] = creating[d]
    BY <1>8, SMT DEF Making!Again, Making!Goto
  <2>2. at'[d] = at[d]
    BY <1>8, SMT DEF Making!Again, Making!Goto
  <2>3. failed'[d] = failed[d]
    BY <1>8 DEF Making!Again, Making!Goto
  <2> QED
    BY <2>1, <2>2, <2>3 DEF Making!Layer, Makes
<1> QED
  BY <1>1, <1>2, <1>3, <1>4, <1>5, <1>6, <1>7, <1>8 DEF Steps

LEMMA OneMakerCaller ==
  ASSUME Making!SnapshotsAssumption, LayerTypeOK, OneMaker, NEW c \in Callers,
         Steps(c)
  PROVE  OneMaker'
<1> DEFINE l == Making!Layer(c)
<1>1. l \in Making!LayerSet /\ at[c] \in 1 .. Len(Layers)
  BY LayerOf
<1>2. MakerOK(c) /\ \A d \in Callers : MakerOK(d) /\ Apart(c, d)
  BY DEF OneMaker
<1>3. ASSUME NEW d \in Callers, d # c
      PROVE  /\ creating'[d] = creating[d] /\ Making!Layer(d)' = Making!Layer(d)
             /\ Makes(d)' <=> Makes(d)
             /\ failed[d]' <=> failed[d]
             /\ Making!Layer(d) \in Making!LayerSet
  BY <1>3, OthersStay, LayerOf
<1>6. \A d \in Callers : creating[d] \in {"mount", "apply", "commit"} => Makes(d)
  BY DEF Makes
<1>4. MakerOK(c)' /\ \A d \in Callers \ {c} : MakerOK(d)' /\ Apart(c, d)'
  <2> USE DEF LayerTypeOK, Making!TypeOK
  <2>1. CASE Making!Stat(c)
    <3>1. MakerOK(c)'
      BY <2>1, <1>1, <1>2, SMT DEF Making!Stat, Making!NextLayer, Making!Goto,
         MakerOK, Makes, Making!Layer
    <3>2. ASSUME NEW d \in Callers \ {c} PROVE MakerOK(d)' /\ Apart(c, d)'
      BY <2>1, <1>1, <1>2, <1>3, SMT DEF Making!Stat, Making!NextLayer,
         Making!Goto, MakerOK, Makes, Apart
    <3> QED
      BY <3>1, <3>2
  <2>2. CASE Making!Prepare(c)
    <3>1. MakerOK(c)'
      BY <2>2, <1>1, <1>2, SMT DEF Making!Prepare, Making!Goto, Making!Fails,
         MakerOK, Makes, Making!Layer
    <3>0. at' = at
      BY <2>2 DEF Making!Prepare
    <3>2. ASSUME NEW d \in Callers \ {c} PROVE MakerOK(d)' /\ Apart(c, d)'
      <4>1. Making!Layer(c)' = l
        BY <3>0 DEF Making!Layer
      <4> QED
        <5>1. CASE active[l] = "none"
          <6>1. ~Makes(d) \/ Making!Layer(d) # l
            BY <1>2, <5>1 DEF MakerOK
          <6> QED
            BY <2>2, <1>1, <1>2, <1>3, <1>6, <4>1, <5>1, <6>1, SMT DEF
               Making!Prepare, Making!Goto, MakerOK, Apart
        <5>2. CASE active[l] # "none"
          <6>1. ~Makes(c)'
            BY <2>2, <5>2 DEF Making!Prepare, Making!Fails, Making!Goto, Makes
          <6> QED
            BY <2>2, <1>1, <1>2, <1>3, <1>6, <5>2, <6>1, SMT DEF
               Making!Prepare, MakerOK, Apart
        <5> QED
          BY <5>1, <5>2
    <3> QED
      BY <3>1, <3>2
  <2>3. CASE Making!Mount(c)
    <3>1. MakerOK(c)'
      BY <2>3, <1>1, <1>2, SMT DEF Making!Mount, Making!Goto, Making!Fails,
         MakerOK, Makes, Making!Layer
    <3>0. at' = at
      BY <2>3 DEF Making!Mount
    <3>2. ASSUME NEW d \in Callers \ {c} PROVE MakerOK(d)' /\ Apart(c, d)'
      <4>1. Making!Layer(c)' = l
        BY <3>0 DEF Making!Layer
      <4> QED
        BY <2>3, <1>1, <1>2, <1>3, <1>6, <4>1, SMT DEF Making!Mount,
           Making!Goto, Making!Fails, MakerOK, Apart
    <3> QED
      BY <3>1, <3>2
  <2>4. CASE Making!Apply(c)
    <3>1. MakerOK(c)'
      BY <2>4, <1>1, <1>2, SMT DEF Making!Apply, Making!Unpacked, Making!Goto,
         Making!Fails,
         MakerOK, Makes, Making!Layer
    <3>0. at' = at
      BY <2>4 DEF Making!Apply
    <3>2. ASSUME NEW d \in Callers \ {c} PROVE MakerOK(d)' /\ Apart(c, d)'
      <4>1. Making!Layer(c)' = l
        BY <3>0 DEF Making!Layer
      <4> QED
        BY <2>4, <1>1, <1>2, <1>3, <1>6, <4>1, SMT DEF Making!Apply,
           Making!Unpacked,
           Making!Goto, Making!Fails, MakerOK, Apart
    <3> QED
      BY <3>1, <3>2
  <2>5. CASE Making!Commit(c)
    <3>1. MakerOK(c)'
      <4>1. Making!Layer(c)' = l /\ creating'[c] = "cleanup" /\ mounted' = mounted
        BY <2>5 DEF Making!Commit, Making!Goto, Making!Fails, Making!Layer
      <4>2. <<c, l>> \in mounted /\ active[l] \in {"cut", "whole"}
        BY <2>5, <1>2 DEF Making!Commit, MakerOK
      <4>3. CASE committed' = [committed EXCEPT ![l] = active[l]] /\ UNCHANGED failed
        <5>1. committed'[l] # "none" /\ (Makes(c)' => failed[c])
          BY <1>1, <4>1, <4>2, <4>3 DEF Makes
        <5>2. ~failed[c]
          BY <2>5, <1>2 DEF Making!Commit, MakerOK
        <5> QED
          BY <4>1, <4>2, <5>1, <5>2 DEF MakerOK
      <4>4. CASE failed'[c] /\ UNCHANGED active
        BY <4>1, <4>2, <4>4 DEF MakerOK
      <4> QED
        BY <2>5, <4>3, <4>4 DEF Making!Commit, Making!Fails
    <3>0. at' = at
      BY <2>5 DEF Making!Commit
    <3>2. ASSUME NEW d \in Callers \ {c} PROVE MakerOK(d)' /\ Apart(c, d)'
      <4>1. Making!Layer(c)' = l
        BY <3>0 DEF Making!Layer
      <4> QED
        BY <2>5, <1>1, <1>2, <1>3, <1>6, <4>1, SMT DEF Making!Commit,
           Making!Goto, Making!Fails, MakerOK, Apart
    <3> QED
      BY <3>1, <3>2
  <2>6. CASE Making!CleanUp(c)
    <3>1. MakerOK(c)'
      BY <2>6, <1>1, <1>2, SMT DEF Making!CleanUp, Making!NextLayer,
         Making!Goto, MakerOK, Makes, Making!Layer
    <3>2. ASSUME NEW d \in Callers \ {c} PROVE MakerOK(d)' /\ Apart(c, d)'
      BY <2>6, <1>1, <1>2, <1>3, SMT DEF Making!CleanUp, Making!NextLayer,
         Making!Goto, MakerOK, Makes, Apart
    <3> QED
      BY <3>1, <3>2
  <2>7. CASE Making!GetRwMounts(c)
    <3>1. MakerOK(c)'
      BY <2>7, <1>1, <1>2, SMT DEF Making!GetRwMounts, Making!Goto, MakerOK,
         Makes, Making!Layer
    <3>2. ASSUME NEW d \in Callers \ {c} PROVE MakerOK(d)' /\ Apart(c, d)'
      BY <2>7, <1>1, <1>2, <1>3, SMT DEF Making!GetRwMounts, Making!Goto,
         MakerOK, Makes, Apart
    <3> QED
      BY <3>1, <3>2
  <2>8. CASE Making!Again(c)
    <3>1. MakerOK(c)'
      BY <2>8, <1>1, <1>2, SMT DEF Making!Again, Making!Goto, MakerOK, Makes,
         Making!Layer
    <3>2. ASSUME NEW d \in Callers \ {c} PROVE MakerOK(d)' /\ Apart(c, d)'
      BY <2>8, <1>1, <1>2, <1>3, SMT DEF Making!Again, Making!Goto, MakerOK,
         Makes, Apart
    <3> QED
      BY <3>1, <3>2
  <2> QED
    BY <2>1, <2>2, <2>3, <2>4, <2>5, <2>6, <2>7, <2>8 DEF Steps
<1>5. ASSUME NEW d \in Callers \ {c}, NEW e \in Callers \ {c}
      PROVE  Apart(d, e)'
  BY <1>3 DEF OneMaker, Apart
<1> QED
  BY <1>4, <1>5 DEF OneMaker, Apart

\* What a step of a caller does to the layers: none is lost, and one is begun
\* on top of a committed one.
LEMMA LayersGrow ==
  ASSUME Making!SnapshotsAssumption, LayerTypeOK, OneMaker, NEW c \in Callers, Steps(c),
         NEW l \in Making!LayerSet
  PROVE  /\ committed[l] # "none" => committed'[l] # "none"
         /\ committed'[l] # "none" \/ active'[l] # "none" =>
              \/ committed[l] # "none" \/ active[l] # "none"
              \/ l = Making!Layer(c) /\ (at[c] > 1 => committed[Layers[at[c] - 1]] # "none")
<1>1. Making!Layer(c) \in Making!LayerSet /\ MakerOK(c)
  BY LayerOf DEF OneMaker
<1> USE DEF LayerTypeOK, Making!TypeOK
<1>2. CASE Making!Stat(c)
  BY <1>2 DEF Making!Stat
<1>3. CASE Making!Prepare(c)
  BY <1>1, <1>3, SMT DEF Making!Prepare, MakerOK, Makes
<1>4. CASE Making!Mount(c)
  BY <1>4 DEF Making!Mount
<1>5. CASE Making!Apply(c)
  BY <1>1, <1>5, SMT DEF Making!Apply, Making!Unpacked, MakerOK, Makes
<1>6. CASE Making!Commit(c)
  BY <1>1, <1>6, SMT DEF Making!Commit, MakerOK, Makes
<1>7. CASE Making!CleanUp(c)
  BY <1>1, <1>7, SMT DEF Making!CleanUp
<1>8. CASE Making!GetRwMounts(c)
  BY <1>8 DEF Making!GetRwMounts
<1>9. CASE Making!Again(c)
  BY <1>9 DEF Making!Again
<1> QED
  BY <1>2, <1>3, <1>4, <1>5, <1>6, <1>7, <1>8, <1>9 DEF Steps


\* And to the mounts: what stays mounted by one that is past it does so, and
\* what is committed in part is so before, or is left mounted.
LEMMA MountsStay ==
  ASSUME Making!SnapshotsAssumption, LayerTypeOK, OneMaker, NEW c \in Callers, Steps(c),
         NEW l \in Making!LayerSet, committed'[l] = "part"
  PROVE  /\ \A d \in Callers : committed[l] = "part" /\ <<d, l>> \in mounted /\ Past(d, l) =>
                                 <<d, l>> \in mounted' /\ Past(d, l)'
         /\ committed[l] = "part" \/ (<<c, l>> \in mounted' /\ Past(c, l)')
<1>1. Making!Layer(c) \in Making!LayerSet /\ MakerOK(c)
  BY LayerOf DEF OneMaker
<1>2. ASSUME NEW d \in Callers, d # c PROVE Past(d, l)' <=> Past(d, l)
  BY <1>2, OthersStay DEF Past
<1>3. /\ \A d \in Callers \ {c} : <<d, l>> \in mounted => <<d, l>> \in mounted'
      /\ committed[l] = "part" /\ <<c, l>> \in mounted /\ Past(c, l) =>
           <<c, l>> \in mounted' /\ Past(c, l)'
      /\ committed[l] = "part" \/ (<<c, l>> \in mounted' /\ Past(c, l)')
  <2> USE DEF LayerTypeOK, Making!TypeOK
  <2>1. CASE Making!Stat(c)
    BY <1>1, <2>1, SMT DEF Making!Stat, Making!NextLayer, Making!Goto, MakerOK,
       Past, Making!Layer
  <2>2. CASE Making!Prepare(c)
    <3>1. Making!Layer(c)' = Making!Layer(c)
      BY <2>2 DEF Making!Prepare, Making!Layer
    <3>2. mounted \subseteq mounted' /\ committed[l] = "part"
      BY <1>1, <2>2, SMT DEF Making!Prepare, MakerOK
    <3>3. Past(c, l) => Past(c, l)'
      BY <2>2, <3>1 DEF Making!Prepare, Past
    <3> QED
      BY <3>2, <3>3
  <2>3. CASE Making!Mount(c)
    <3>1. Making!Layer(c)' = Making!Layer(c)
      BY <2>3 DEF Making!Mount, Making!Layer
    <3>2. mounted \subseteq mounted' /\ committed[l] = "part"
      BY <1>1, <2>3, SMT DEF Making!Mount, MakerOK
    <3>3. Past(c, l) => Past(c, l)'
      BY <2>3, <3>1 DEF Making!Mount, Past
    <3> QED
      BY <3>2, <3>3
  <2>4. CASE Making!Apply(c)
    <3>1. Making!Layer(c)' = Making!Layer(c)
      BY <2>4 DEF Making!Apply, Making!Unpacked, Making!Layer
    <3>2. mounted \subseteq mounted' /\ committed[l] = "part"
      BY <1>1, <2>4, SMT DEF Making!Apply, Making!Unpacked, MakerOK
    <3>3. Past(c, l) => Past(c, l)'
      BY <2>4, <3>1 DEF Making!Apply, Making!Unpacked, Past
    <3> QED
      BY <3>2, <3>3
  <2>5. CASE Making!Commit(c)
    <3>1. Making!Layer(c)' = Making!Layer(c)
      BY <2>5 DEF Making!Commit, Making!Layer
    <3>2. mounted \subseteq mounted' /\ committed[l] = "part"
      BY <1>1, <2>5, SMT DEF Making!Commit, MakerOK
    <3>3. Past(c, l) => Past(c, l)'
      BY <2>5, <3>1 DEF Making!Commit, Past
    <3> QED
      BY <3>2, <3>3
  <2>6. CASE Making!CleanUp(c)
    BY <1>1, <2>6, SMT DEF Making!CleanUp, Making!NextLayer, Making!Goto,
       MakerOK, Past, Making!Layer
  <2>7. CASE Making!GetRwMounts(c)
    BY <1>1, <2>7, SMT DEF Making!GetRwMounts, Making!Goto, MakerOK, Past,
       Making!Layer
  <2>8. CASE Making!Again(c)
    BY <1>1, <2>8, SMT DEF Making!Again, Making!Goto, MakerOK, Past,
       Making!Layer
  <2> QED
    BY <2>1, <2>2, <2>3, <2>4, <2>5, <2>6, <2>7, <2>8 DEF Steps
<1> QED
  BY <1>2, <1>3

\* A caller that comes to its container has all its layers, and so has one
\* whose container has its snapshot.
LEMMA ContainerLast ==
  ASSUME Making!SnapshotsAssumption, LayersInv, NEW c \in Callers, Steps(c),
         creating'[c] = "container" \/ c \in views',
         NEW l \in Making!LayerSet
  PROVE  committed[l] # "none"
<1> USE DEF LayersInv
<1>1. Making!Layer(c) \in Making!LayerSet /\ MakerOK(c)
  BY LayerOf DEF OneMaker
<1>2. CASE creating[c] = "container" \/ c \in views
  BY <1>2 DEF StandsInv
<1>3. CASE creating[c] # "container" /\ c \notin views
  <2>1. at[c] = Len(Layers) /\ committed[Making!Layer(c)] # "none"
    <3> USE DEF LayerTypeOK, Making!TypeOK
    <3>1. CASE Making!Stat(c)
      BY <1>3, <3>1, SMT DEF Making!Stat, Making!NextLayer, Making!Goto
    <3>2. CASE Making!CleanUp(c)
      BY <1>1, <1>3, <3>2, SMT DEF Making!CleanUp, Making!NextLayer,
         Making!Goto, MakerOK
    <3>3. CASE ~Making!Stat(c) /\ ~Making!CleanUp(c)
      BY <1>3, <3>3, SMT DEF Steps, Making!Prepare, Making!Mount, Making!Apply,
         Making!Commit,
         Making!GetRwMounts, Making!Again, Making!Goto, Making!Fails
    <3> QED
      BY <3>1, <3>2, <3>3
  <2>2. PICK j \in Making!Positions : Layers[j] = l
    BY DEF Making!LayerSet
  <2>3. j = Len(Layers) \/ j \in 1 .. Len(Layers) - 1
    BY <2>2, LayerPositions
  <2>4. Len(Layers) \in Making!Positions
    BY LayerPositions
  <2> QED
    BY <2>1, <2>2, <2>3, <2>4 DEF StandsInv, Making!Layer
<1> QED
  BY <1>2, <1>3

LEMMA LayersInvStep ==
  ASSUME Making!SnapshotsAssumption, LayersInv, [Making!Next]_layerVars
  PROVE  LayersInv'
<1> USE DEF LayersInv
<1>1. ASSUME NEW c \in Callers, Steps(c) PROVE LayersInv'
  <2>1. LayerTypeOK'
    BY <1>1, LayerTypes DEF Steps, Making!Next
  <2>2. OneMaker'
    BY <1>1, OneMakerCaller
  <2>3. StillMounted'
    BY <1>1, MountsStay DEF StillMounted
  <2>4. \A l \in Making!LayerSet : committed[l] # "none" => committed'[l] # "none"
    BY <1>1, LayersGrow
  <2>5. ASSUME NEW i \in Making!Positions, NEW j \in 1 .. i - 1,
               committed'[Layers[i]] # "none" \/ active'[Layers[i]] # "none"
        PROVE  committed'[Layers[j]] # "none"
    <3>1. i \in 1 .. Len(Layers) /\ j \in Making!Positions /\ i - 1 \in Making!Positions
      BY LayerPositions
    <3>2. Layers[i] \in Making!LayerSet /\ Layers[j] \in Making!LayerSet
      BY <3>1, LayerPositions
    <3>3. CASE committed[Layers[i]] # "none" \/ active[Layers[i]] # "none"
      BY <2>4, <3>2, <3>3 DEF StandsInv
    <3>4. CASE Layers[i] = Making!Layer(c) /\ (at[c] > 1 => committed[Layers[at[c] - 1]] # "none")
      <4>1. at[c] = i
        BY <3>1, <3>4, LayerOf, LayerPositions DEF Making!SnapshotsAssumption,
           Making!Layer
      <4>2. committed[Layers[i - 1]] # "none"
        BY <3>1, <3>4, <4>1
      <4>3. j = i - 1 \/ j \in 1 .. i - 1 - 1
        BY <3>1
      <4>4. committed[Layers[j]] # "none"
        BY <3>1, <4>2, <4>3 DEF StandsInv
      <4> QED
        BY <2>4, <3>2, <4>4
    <3> QED
      BY <1>1, <2>5, <3>2, <3>3, <3>4, LayersGrow
  <2>6. ASSUME NEW d \in Callers, d \in views' \/ creating'[d] = "container",
               NEW l \in Making!LayerSet
        PROVE  committed'[l] # "none"
    <3>1. CASE d = c
      BY <1>1, <2>4, <2>6, <3>1, ContainerLast
    <3>2. CASE d # c
      <4>1. d \in views \/ creating[d] = "container"
        <5>1. creating'[d] = creating[d]
          BY <1>1, <3>2, OthersStay
        <5>2. d \in views' => d \in views
          BY <1>1, <3>2 DEF Steps, Making!Stat, Making!Prepare, Making!Mount,
             Making!Apply,
             Making!Commit, Making!CleanUp, Making!GetRwMounts, Making!Again
        <5> QED
          BY <2>6, <5>1, <5>2
      <4> QED
        BY <2>4, <4>1 DEF StandsInv
    <3> QED
      BY <3>1, <3>2
  <2> QED
    BY <2>1, <2>2, <2>3, <2>5, <2>6 DEF StandsInv
<1>2. CASE Making!Crash
  <2>1. LayerTypeOK'
    BY <1>2, LayerTypes DEF Making!Next
  <2>2. /\ \A c \in Callers : creating'[c] = "stat" /\ ~failed'[c]
        /\ UNCHANGED <<committed, active, views, mounted>>
    BY <1>2 DEF Making!Crash
  <2>3. OneMaker'
    BY <2>2 DEF OneMaker, MakerOK, Makes, Apart
  <2>4. StillMounted'
    BY <2>2 DEF StillMounted, Past
  <2>5. StandsInv'
    BY <2>2 DEF StandsInv
  <2> QED
    BY <2>1, <2>3, <2>4, <2>5
<1>3. ASSUME NEW m \in Making!LayerSet, Making!Mend(m) PROVE LayersInv'
  <2>1. LayerTypeOK'
    BY <1>3, LayerTypes DEF Making!Next
  <2>2. UNCHANGED <<committed, active, views, mounted, creating, at, failed>>
    BY <1>3 DEF Making!Mend
  <2>3. OneMaker' /\ StillMounted'
    BY <2>2 DEF OneMaker, MakerOK, Makes, Apart, Making!Layer, StillMounted,
       Past
  <2>4. StandsInv'
    BY <2>2 DEF StandsInv
  <2> QED
    BY <2>1, <2>3, <2>4
<1>4. CASE UNCHANGED layerVars
  <2>1. UNCHANGED <<committed, active, file, views, mounted, creating, at, failed>>
    BY <1>4 DEF layerVars
  <2>2. LayerTypeOK'
    BY <2>1 DEF LayerTypeOK, Making!TypeOK
  <2>3. OneMaker' /\ StillMounted'
    BY <2>1 DEF OneMaker, MakerOK, Makes, Apart, Making!Layer, StillMounted,
       Past
  <2>4. StandsInv'
    BY <2>1 DEF StandsInv
  <2> QED
    BY <2>2, <2>3, <2>4
<1> QED
  BY <1>1, <1>2, <1>3, <1>4 DEF Steps, Making!Next

\* Whatever fails or crashes, what is committed was unpacked without an error, so
\* that it is whole unless its file was short, or it could not be unmounted; and
\* it stands on committed layers (snapshot.go:150, :158, :169).
THEOREM LayersStayUnpacked == AllSpec => []LayersAreUnpacked
<1> USE ScenarioAssumption
<1>1. AllInit => LayersInv
  <2> SUFFICES ASSUME Making!Init PROVE LayersInv
    BY DEF AllInit
  <2>1. LayerTypeOK
    <3>1. file \in [Making!LayerSet -> {"good", "bad", "short"}]
      <4>1. {"good"} \cup (IF "file" \in LayerFaults THEN {"bad", "short"} ELSE {})
              \subseteq {"good", "bad", "short"}
        OBVIOUS
      <4> QED
        BY <4>1 DEF Making!Init
    <3>2. at \in [Callers -> Making!Positions]
      BY LayerPositions, SMT DEF Making!Init
    <3> QED
      BY <3>1, <3>2 DEF LayerTypeOK, Making!TypeOK, Making!Init
  <2>2. OneMaker /\ StillMounted
    BY SMT DEF Making!Init, OneMaker, MakerOK, Makes, Apart, StillMounted
  <2>3. StandsInv
    BY LayerPositions DEF Making!Init, StandsInv
  <2> QED
    BY <2>1, <2>2, <2>3 DEF LayersInv
<1>2. LayersInv /\ [AllNext]_allVars => LayersInv'
  BY LayersInvStep DEF AllNext, PoolNext, AloneNext, LivingNext, LayersNext,
     CacheNext,
     allVars, layerVars
<1>3. LayersInv => LayersAreUnpacked
  BY DEF LayersInv, StillMounted, StandsInv, LayersAreUnpacked,
     Making!CommittedIsUnpacked,
     Making!StandsOnLayers
<1> QED
  BY <1>1, <1>2, <1>3, PTL DEF AllSpec

-----------------------------------------------------------------------------
(* The downloads.                                                          *)

CacheTypeOK ==
  /\ size \in [1 .. Versions -> Cache!Lengths]
  /\ published \in 1 .. Versions
  /\ cached \in [Cache!AllFiles -> Seq(Cache!Page .. Versions)]
  /\ downloading \in {"fetch", "runtime", "layer", "copy", "ready", "error"}
  /\ unpacked \subseteq Files
  /\ got \in [{"runtime", "layer"} -> Cache!Page .. Versions] /\ got["runtime"] # Cache!Page

\* No file is longer than in the version that is unpacked, if files only grow:
\* that version is written over it from one end to the other.
NothingSticksOut ==
  /\ got["runtime"] <= published
  /\ Cache!Grows => \A f \in Files : Len(cached[f]) <= size[got["runtime"]][f]

\* What was unpacked since the download began is of its version.
UnpackedIsWhole ==
  /\ downloading = "fetch" => unpacked = {}
  /\ downloading = "runtime" /\ Cache!Grows =>
       \A f \in unpacked : cached[f] = Cache!Content(f, got["runtime"])
  /\ downloading = "copy" => cached[layer] = <<>>

CacheInv == CacheTypeOK /\ NothingSticksOut /\ UnpackedIsWhole /\ CacheIsAnswer

LEMMA OverWrites ==
  ASSUME NEW old \in Seq(Cache!Page .. Versions), NEW v \in Cache!Page .. Versions, NEW n \in Nat
  PROVE  /\ Cache!Over(old, v, n) \in Seq(Cache!Page .. Versions)
         /\ Len(Cache!Over(old, v, n)) = IF n > Len(old) THEN n ELSE Len(old)
         /\ Len(old) <= n => Cache!Over(old, v, n) = [i \in 1 .. n |-> v]
<1> DEFINE m == IF n > Len(old) THEN n ELSE Len(old)
<1>1. m \in Nat /\ (Len(old) <= n => m = n)
  OBVIOUS
<1>2. ASSUME NEW i \in 1 .. m PROVE (IF i <= n THEN v ELSE old[i]) \in Cache!Page .. Versions
  <2> DEFINE S == Cache!Page .. Versions
  <2>1. old \in Seq(S) /\ v \in S
    OBVIOUS
  <2>2. i <= n \/ i \in 1 .. Len(old)
    OBVIOUS
  <2> HIDE DEF S
  <2>3. (IF i <= n THEN v ELSE old[i]) \in S
    BY <2>1, <2>2
  <2> QED
    BY <2>3 DEF S
<1>3. Cache!Over(old, v, n) = [i \in 1 .. m |-> IF i <= n THEN v ELSE old[i]]
  BY DEF Cache!Over
<1>4. Cache!Over(old, v, n) \in Seq(Cache!Page .. Versions) /\ Len(Cache!Over(old, v, n)) = m
  <2> HIDE DEF m
  <2> QED
    BY <1>1, <1>2, <1>3
<1>5. ASSUME Len(old) <= n PROVE Cache!Over(old, v, n) = [i \in 1 .. n |-> v]
  BY <1>1, <1>3, <1>5
<1> QED
  BY <1>4, <1>5

LEMMA CacheInvStep ==
  ASSUME Cache!CacheAssumption, CacheInv, [Cache!Next]_cacheVars
  PROVE  CacheInv'
<1> USE DEF CacheInv, CacheTypeOK
<1>0. /\ Versions \in Nat /\ layer \notin Files /\ Cache!AllFiles = Files \cup {layer}
      /\ \A v \in 1 .. Versions : \A f \in Cache!AllFiles : size[v][f] \in Nat \ {0}
      /\ got["runtime"] \in 1 .. Versions /\ got["layer"] \in Cache!Page .. Versions
      /\ Cache!Page = 0
  BY DEF Cache!Page, Cache!CacheAssumption, Cache!AllFiles, Cache!Lengths
<1>1. CASE Cache!DownloadRuntime
  <2>1. CacheTypeOK'
    BY <1>0, <1>1 DEF Cache!DownloadRuntime, Cache!Error
  <2>2. got'["runtime"] \in {got["runtime"], published} /\ got'["layer"] = got["layer"]
    BY <1>1 DEF Cache!DownloadRuntime
  <2>3. NothingSticksOut'
    <3>1. got'["runtime"] <= published' /\ got["runtime"] <= got'["runtime"]
      BY <1>1, <1>0, <2>2 DEF NothingSticksOut, Cache!DownloadRuntime
    <3>2. ASSUME Cache!Grows, NEW f \in Files PROVE Len(cached[f]) <= size[got'["runtime"]][f]
      <4>1. size[got["runtime"]][f] <= size[got'["runtime"]][f]
        BY <1>0, <2>1, <3>1, <3>2 DEF Cache!Grows
      <4>2. Len(cached[f]) <= size[got["runtime"]][f]
        BY <3>2 DEF NothingSticksOut
      <4>3. Len(cached[f]) \in Nat
        BY <1>0
      <4>4. size[got["runtime"]][f] \in Nat /\ size[got'["runtime"]][f] \in Nat
        BY <1>0, <2>2
      <4> QED
        BY <4>1, <4>2, <4>3, <4>4
    <3> QED
      BY <1>1, <3>1, <3>2 DEF NothingSticksOut, Cache!Grows,
         Cache!DownloadRuntime
  <2>4. UnpackedIsWhole' /\ CacheIsAnswer'
    BY <1>1 DEF UnpackedIsWhole, CacheIsAnswer, Cache!RuntimeIsWhole,
       Cache!LayerIsAnswer,
       Cache!DownloadRuntime, Cache!Error
  <2> QED
    BY <2>1, <2>3, <2>4
<1>2. CASE Cache!Untar
  <2>1. PICK f \in Files \ unpacked, k \in Nat :
          /\ k <= size[got["runtime"]][f]
          /\ cached' = [cached EXCEPT ![f] = Cache!Over(@, got["runtime"], k)]
          /\ \/ /\ k = size[got["runtime"]][f]
                /\ unpacked' = unpacked \cup {f}
                /\ downloading' = IF unpacked' = Files THEN "layer" ELSE "runtime"
             \/ downloading' = "error" /\ unpacked' = unpacked
    <3>1. PICK f \in Files \ unpacked :
            LET n == size[got["runtime"]][f] IN
            \/ /\ cached' = [cached EXCEPT ![f] = Cache!Over(@, got["runtime"], n)]
               /\ unpacked' = unpacked \cup {f}
               /\ downloading' = IF unpacked' = Files THEN "layer" ELSE "runtime"
            \/ \E k \in 0 .. n - 1 :
                 /\ cached' = [cached EXCEPT ![f] = Cache!Over(@, got["runtime"], k)]
                 /\ downloading' = "error"
                 /\ UNCHANGED unpacked
      BY <1>2 DEF Cache!Untar, Cache!Error
    <3>2. size[got["runtime"]][f] \in Nat
      BY <1>0
    <3> QED
      BY <3>1, <3>2
  <2>2. downloading = "runtime" /\ UNCHANGED <<size, published, got>>
    BY <1>2 DEF Cache!Untar
  <2> DEFINE new == Cache!Over(cached[f], got["runtime"], k)
  <2>3. /\ cached[f] \in Seq(Cache!Page .. Versions)
        /\ new \in Seq(Cache!Page .. Versions)
        /\ Len(new) = IF k > Len(cached[f]) THEN k ELSE Len(cached[f])
        /\ Len(cached[f]) <= k => new = [i \in 1 .. k |-> got["runtime"]]
    <3>1. cached[f] \in Seq(Cache!Page .. Versions) /\ got["runtime"] \in Cache!Page .. Versions
      BY <1>0
    <3> HIDE DEF CacheInv, CacheTypeOK
    <3> QED
      BY <2>1, <3>1, OverWrites
  <2>4. cached'[f] = new /\ \A g \in Cache!AllFiles \ {f} : cached'[g] = cached[g]
    BY <1>0, <2>1
  <2> HIDE DEF new
  <2>5. CacheTypeOK'
    <3>1. cached' \in [Cache!AllFiles -> Seq(Cache!Page .. Versions)]
      BY <1>0, <2>1, <2>3 DEF new
    <3> QED
      BY <2>1, <2>2, <3>1
  <2>6. NothingSticksOut'
    <3> SUFFICES ASSUME Cache!Grows, NEW g \in Files
                 PROVE  Len(cached'[g]) <= size[got["runtime"]][g]
      BY <2>2 DEF NothingSticksOut, Cache!Grows
    <3>1. CASE g = f
      BY <1>0, <2>1, <2>3, <2>4, <3>1 DEF NothingSticksOut
    <3>2. CASE g # f
      BY <1>0, <2>4, <3>2 DEF NothingSticksOut
    <3> QED
      BY <3>1, <3>2
  <2>7. ASSUME Cache!Grows, unpacked' = unpacked \cup {f}, k = size[got["runtime"]][f],
               NEW g \in unpacked'
        PROVE  cached'[g] = Cache!Content(g, got'["runtime"])
    <3>1. CASE g = f
      <4>1. Len(cached[f]) <= k
        BY <2>7 DEF NothingSticksOut
      <4> QED
        BY <2>2, <2>3, <2>4, <2>7, <3>1, <4>1 DEF Cache!Content
    <3>2. CASE g # f
      BY <1>0, <2>2, <2>4, <2>7, <3>2 DEF UnpackedIsWhole, Cache!Content
    <3> QED
      BY <3>1, <3>2
  <2>8. UnpackedIsWhole' /\ CacheIsAnswer'
    <3>1. Cache!Grows' <=> Cache!Grows
      BY <2>2 DEF Cache!Grows
    <3>2. downloading' \in {"runtime", "layer", "error"}
      BY <2>1
    <3>3. downloading' # "error" =>
            /\ unpacked' = unpacked \cup {f} /\ k = size[got["runtime"]][f]
            /\ downloading' = "layer" => unpacked' = Files
      BY <2>1
    <3>4. downloading' # "error" /\ Cache!Grows' =>
            \A g \in unpacked' : cached'[g] = Cache!Content(g, got["runtime"])'
      BY <2>2, <2>7, <3>1, <3>3 DEF Cache!Content
    <3>5. UnpackedIsWhole'
      BY <2>2, <3>2, <3>4 DEF UnpackedIsWhole
    <3>6. CacheIsAnswer'
      BY <2>2, <3>2, <3>3, <3>4 DEF CacheIsAnswer, Cache!RuntimeIsWhole,
         Cache!LayerIsAnswer
    <3> QED
      BY <3>5, <3>6
  <2> QED
    BY <2>5, <2>6, <2>8
<1>3. CASE Cache!CreateLayer
  <2>1. /\ downloading = "layer" /\ downloading' \in {"copy", "error"}
        /\ UNCHANGED <<size, published, unpacked>>
        /\ got' = got \/ \E a \in {published, Cache!Page} : got' = [got EXCEPT !["layer"] = a]
        /\ \/ cached' = cached /\ downloading' = "error"
           \/ cached' = [cached EXCEPT ![layer] = <<>>]
    BY <1>3 DEF Cache!CreateLayer, Cache!Error
  <2>2. got'["runtime"] = got["runtime"] /\ got' \in [{"runtime", "layer"} -> Cache!Page .. Versions]
    BY <1>0, <2>1
  <2>3. \A f \in Files : cached'[f] = cached[f]
    BY <1>0, <2>1
  <2>4. CacheTypeOK' /\ NothingSticksOut'
    <3>0. <<>> \in Seq(Cache!Page .. Versions)
      OBVIOUS
    <3>1. cached' \in [Cache!AllFiles -> Seq(Cache!Page .. Versions)]
      BY <2>1, <3>0
    <3>3. CacheTypeOK'
      BY <2>1, <2>2, <3>1
    <3>2. NothingSticksOut'
      BY <2>1, <2>2, <2>3 DEF NothingSticksOut, Cache!Grows
    <3> QED
      BY <3>2, <3>3
  <2>5. UnpackedIsWhole'
    BY <1>0, <2>1 DEF UnpackedIsWhole
  <2>6. CacheIsAnswer'
    BY <2>1, <2>2, <2>3 DEF CacheIsAnswer, Cache!RuntimeIsWhole,
       Cache!LayerIsAnswer, Cache!Grows,
       Cache!Content
  <2> QED
    BY <2>4, <2>5, <2>6
<1>4. CASE Cache!CopyLayer
  <2>1. PICK n \in Cache!AnswerLengths : \E k \in 0 .. n :
          /\ cached' = [cached EXCEPT ![layer] = Cache!Over(@, got["layer"], k)]
          /\ downloading' = IF k = n THEN "ready" ELSE "error"
    BY <1>4 DEF Cache!CopyLayer
  <2>9. n \in Nat /\ (got["layer"] # Cache!Page => n = size[got["layer"]][layer])
    <3>1. got["layer"] # Cache!Page => got["layer"] \in 1 .. Versions
      BY <1>0
    <3>2. layer \in Cache!AllFiles /\ MaxLen \in Nat
      BY <1>0 DEF Cache!CacheAssumption
    <3> QED
      BY <1>0, <2>1, <3>1, <3>2 DEF Cache!AnswerLengths
  <2>10. PICK k \in 0 .. n :
          /\ cached' = [cached EXCEPT ![layer] = Cache!Over(@, got["layer"], k)]
          /\ downloading' = IF k = n THEN "ready" ELSE "error"
    BY <2>1
  <2>2. downloading = "copy" /\ UNCHANGED <<size, published, unpacked, got>>
    BY <1>4 DEF Cache!CopyLayer
  <2>3. k \in Nat /\ cached[layer] = <<>> /\ cached[layer] \in Seq(Cache!Page .. Versions)
    BY <1>0, <2>2, <2>9 DEF UnpackedIsWhole
  <2> DEFINE new == Cache!Over(cached[layer], got["layer"], k)
  <2>4. new \in Seq(Cache!Page .. Versions) /\ new = [i \in 1 .. k |-> got["layer"]]
    <3>1. Len(cached[layer]) <= k /\ got["layer"] \in Cache!Page .. Versions
      BY <1>0, <2>3
    <3> HIDE DEF CacheInv, CacheTypeOK
    <3> QED
      BY <2>3, <3>1, OverWrites
  <2> HIDE DEF new
  <2>5. cached'[layer] = new /\ \A f \in Files : cached'[f] = cached[f]
    BY <1>0, <2>10 DEF new
  <2>6. CacheTypeOK'
    <3>1. cached' \in [Cache!AllFiles -> Seq(Cache!Page .. Versions)]
      BY <1>0, <2>10, <2>4 DEF new
    <3> QED
      BY <2>10, <2>2, <3>1
  <2>7. NothingSticksOut' /\ UnpackedIsWhole'
    BY <2>10, <2>2, <2>5 DEF NothingSticksOut, UnpackedIsWhole, Cache!Grows
  <2>8. CacheIsAnswer'
    <3>1. Cache!RuntimeIsWhole'
      BY <2>10, <2>2, <2>5 DEF CacheIsAnswer, Cache!RuntimeIsWhole,
         Cache!Grows,
         Cache!Content
    <3>2. Cache!LayerIsAnswer'
      BY <2>10, <2>2, <2>4, <2>5, <2>9 DEF Cache!LayerIsAnswer, Cache!Content
    <3> QED
      BY <3>1, <3>2 DEF CacheIsAnswer
  <2> QED
    BY <2>6, <2>7, <2>8
<1>5. CASE Cache!Restart
  BY <1>5 DEF Cache!Restart, NothingSticksOut, UnpackedIsWhole, CacheIsAnswer,
     Cache!RuntimeIsWhole, Cache!LayerIsAnswer, Cache!Grows
<1>6. CASE Cache!Publish
  <2>1. published' \in 1 .. Versions /\ published <= published'
    BY <1>0, <1>6 DEF Cache!Publish
  <2>2. UNCHANGED <<size, cached, downloading, unpacked, got>>
    BY <1>6 DEF Cache!Publish
  <2>3. CacheTypeOK'
    BY <2>1, <2>2
  <2>4. NothingSticksOut'
    BY <1>0, <2>1, <2>2 DEF NothingSticksOut, Cache!Grows
  <2>5. UnpackedIsWhole' /\ CacheIsAnswer'
    BY <2>2 DEF UnpackedIsWhole, CacheIsAnswer, Cache!RuntimeIsWhole,
       Cache!LayerIsAnswer,
       Cache!Grows, Cache!Content
  <2> QED
    BY <2>3, <2>4, <2>5
<1>7. CASE UNCHANGED cacheVars
  BY <1>7 DEF cacheVars, NothingSticksOut, UnpackedIsWhole, CacheIsAnswer,
     Cache!RuntimeIsWhole, Cache!LayerIsAnswer, Cache!Grows, Cache!Content
<1> QED
  BY <1>1, <1>2, <1>3, <1>4, <1>5, <1>6, <1>7 DEF Cache!Next

\* When the downloads have succeeded, the layer that is used is what the store
\* answered, be it a page and not the layer, and the runtime is the one that was
\* downloaded if no file of it was ever longer, whatever starts before failed half
\* way and whatever was published meanwhile (workerpool.go:270, :284, :318).
THEOREM DownloadsAreAnswers == AllSpec => []CacheIsAnswer
<1> USE ScenarioAssumption
<1>1. AllInit => CacheInv
  <2> SUFFICES ASSUME Cache!Init PROVE CacheInv
    BY DEF AllInit
  <2>1. CacheTypeOK
    <3>1. got \in [{"runtime", "layer"} -> Cache!Page .. Versions] /\ got["runtime"] # Cache!Page
      BY DEF Cache!Init, Cache!CacheAssumption, Cache!Page
    <3>2. <<>> \in Seq(Cache!Page .. Versions)
      OBVIOUS
    <3> QED
      BY <3>1, <3>2 DEF Cache!Init, Cache!CacheAssumption, CacheTypeOK
  <2>2. NothingSticksOut
    BY <2>1 DEF Cache!Init, Cache!CacheAssumption, Cache!AllFiles,
       Cache!Lengths,
       CacheTypeOK, NothingSticksOut
  <2>3. UnpackedIsWhole /\ CacheIsAnswer
    BY DEF Cache!Init, UnpackedIsWhole, CacheIsAnswer, Cache!RuntimeIsWhole,
       Cache!LayerIsAnswer
  <2> QED
    BY <2>1, <2>2, <2>3 DEF CacheInv
<1>2. CacheInv /\ [AllNext]_allVars => CacheInv'
  BY CacheInvStep DEF AllNext, PoolNext, AloneNext, LivingNext, LayersNext,
     CacheNext,
     allVars, cacheVars
<1>3. CacheInv => CacheIsAnswer
  BY DEF CacheInv
<1> QED
  BY <1>1, <1>2, <1>3, PTL DEF AllSpec

-----------------------------------------------------------------------------
(* The workers.                                                            *)

\* What a worker has where it is in Start or End; one that was started has all.
InStart(w) ==
  /\ At(w, "container") => w \in snapshot
  /\ At(w, "task") => w \in snapshot \cap container /\ "container" \in held[w]
  /\ At(w, "wait") => w \in snapshot \cap container /\ {"container", "streams", "task"} \subseteq held[w]
  /\ At(w, "run") \/ At(w, "pid") \/ (At(w, "started") /\ result[w] = "ok") =>
       w \in snapshot \cap container /\ held[w] = Fields

\* What becomes of its task; TaskIsHeld and EndedIsDead say the rest.
InEnd(w) ==
  /\ At(w, "wait") \/ At(w, "run") => task[w] # "none"
  /\ At(w, "remove") => task[w] = "none"
  /\ At(w, "ended") => result[w] # "none"
  /\ At(w, "ended") /\ result[w] = "ok" => task[w] \in {"none", "exited"}
  /\ task[w] # "none" => w \in container /\ {"task", "container"} \subseteq held[w]

WorkerInv == WorkerTypeOK /\ \A w \in Workers : InStart(w) /\ InEnd(w)

\* A step of one worker.
Moves(w) ==
  Start(w) \/ StartStep(w) \/ Activate(w) \/ CallController(w) \/ Exit(w) \/ End(w) \/ EndStep(w)

\* It leaves another worker as it is.
Stays(v) ==
  /\ v \in snapshot' <=> v \in snapshot
  /\ v \in container' <=> v \in container
  /\ task'[v] = task[v] /\ held'[v] = held[v]
  /\ attached'[v] <=> attached[v]
  /\ pc'[v] = pc[v] /\ result'[v] = result[v]

LEMMA OneMoves ==
  ASSUME WorkerTypeOK, NEW w \in Workers, Moves(w), NEW v \in Workers, v # w
  PROVE  Stays(v)
<1> USE DEF WorkerTypeOK, Stays
<1>1. CASE Start(w)
  BY <1>1 DEF Start, Goto
<1>2. CASE GetRwMounts(w)
  BY <1>2 DEF GetRwMounts, Goto, Return, Call
<1>3. CASE NewContainer(w)
  BY <1>3 DEF NewContainer, Goto, Return, Call, Hold
<1>4. CASE NewTask(w)
  BY <1>4 DEF NewTask, Goto, Return, SetTask, ConnectStdPipes
<1>5. CASE Wait(w)
  BY <1>5 DEF Wait, Goto, Return, Call, Hold
<1>6. CASE StartTask(w)
  BY <1>6 DEF StartTask, Goto, Return, Call, SetTask
<1>7. CASE SetPid(w)
  BY <1>7 DEF SetPid, Return
<1>8. CASE Activate(w)
  BY <1>8 DEF Activate, Goto
<1>9. CASE CallController(w)
  BY <1>9 DEF CallController, Goto
<1>10. CASE Exit(w)
  BY <1>10 DEF Exit, SetTask
<1>11. CASE End(w)
  BY <1>11 DEF End
<1>12. CASE EndController(w)
  BY <1>12 DEF EndController, Goto
<1>13. CASE Kill(w)
  BY <1>13 DEF Kill, Goto, Return, SetTask
<1>14. CASE AwaitExit(w)
  BY <1>14 DEF AwaitExit, Goto
<1>15. CASE DeleteTask(w)
  BY <1>15 DEF DeleteTask, Goto, Return, SetTask
<1>16. CASE DeleteContainer(w)
  BY <1>16 DEF DeleteContainer, Return
<1> QED
  BY <1>1, <1>2, <1>3, <1>4, <1>5, <1>6, <1>7, <1>8, <1>9, <1>10, <1>11, <1>12,
     <1>13, <1>14, <1>15, <1>16 DEF Moves, StartStep, EndStep

LEMMA WorkerTypes ==
  ASSUME WorkerTypeOK, NEW w \in Workers, Moves(w)
  PROVE  WorkerTypeOK'
<1> USE DEF WorkerTypeOK
<1>1. CASE Start(w)
  BY <1>1 DEF Start, Goto
<1>2. CASE GetRwMounts(w)
  BY <1>2 DEF GetRwMounts, Goto, Return, Call
<1>3. CASE NewContainer(w)
  BY <1>3 DEF NewContainer, Goto, Return, Call, Hold, Fields
<1>4. CASE NewTask(w)
  BY <1>4 DEF NewTask, Goto, Return, SetTask, ConnectStdPipes, Fields
<1>5. CASE Wait(w)
  BY <1>5 DEF Wait, Goto, Return, Call, Hold, Fields
<1>6. CASE StartTask(w)
  BY <1>6 DEF StartTask, Goto, Return, Call, SetTask
<1>7. CASE SetPid(w)
  BY <1>7 DEF SetPid, Return
<1>8. CASE Activate(w)
  BY <1>8 DEF Activate, Goto
<1>9. CASE CallController(w)
  BY <1>9 DEF CallController, Goto
<1>10. CASE Exit(w)
  BY <1>10 DEF Exit, SetTask
<1>11. CASE End(w)
  BY <1>11 DEF End
<1>12. CASE EndController(w)
  <2>1. (attached[w] /\ task[w] = "exited") \in BOOLEAN
    OBVIOUS
  <2>2. attached' \in [Workers -> BOOLEAN]
    BY <1>12, <2>1, Zenon DEF EndController
  <2>3. UNCHANGED <<snapshot, container, task>>
    BY <1>12 DEF EndController
  <2>4. held' \in [Workers -> SUBSET Fields]
    BY <1>12, SMT DEF EndController
  <2>5. UNCHANGED result /\ (pc' = [pc EXCEPT ![w] = "hung"] \/ pc' = [pc EXCEPT ![w] = "kill"])
    BY <1>12 DEF EndController, Goto
  <2> QED
    BY <2>2, <2>3, <2>4, <2>5
<1>13. CASE Kill(w)
  BY <1>13 DEF Kill, Goto, Return, SetTask
<1>14. CASE AwaitExit(w)
  BY <1>14 DEF AwaitExit, Goto
<1>15. CASE DeleteTask(w)
  BY <1>15 DEF DeleteTask, Goto, Return, SetTask
<1>16. CASE DeleteContainer(w)
  BY <1>16 DEF DeleteContainer, Return
<1> QED
  BY <1>1, <1>2, <1>3, <1>4, <1>5, <1>6, <1>7, <1>8, <1>9, <1>10, <1>11, <1>12,
     <1>13, <1>14, <1>15, <1>16 DEF Moves, StartStep, EndStep

LEMMA WorkerMoves ==
  ASSUME WorkerInv, NEW w \in Workers, Moves(w)
  PROVE  InStart(w)' /\ InEnd(w)'
<1> USE DEF WorkerInv, WorkerTypeOK, InStart, InEnd, At
<1>1. CASE Start(w)
  BY <1>1, SMT DEF Start, Goto, Fields
<1>2. CASE GetRwMounts(w)
  BY <1>2, SMT DEF GetRwMounts, Goto, Return, Call, Fields
<1>3. CASE NewContainer(w)
  BY <1>3, SMT DEF NewContainer, Goto, Return, Call, Hold, Fields
<1>4. CASE NewTask(w)
  BY <1>4, SMT DEF NewTask, Goto, Return, SetTask, ConnectStdPipes, Fields
<1>5. CASE Wait(w)
  BY <1>5, SMT DEF Wait, Goto, Return, Call, Hold, Fields
<1>6. CASE StartTask(w)
  BY <1>6, SMT DEF StartTask, Goto, Return, Call, SetTask, Fields
<1>7. CASE SetPid(w)
  BY <1>7, SMT DEF SetPid, Return, Fields
<1>8. CASE Activate(w)
  BY <1>8, SMT DEF Activate, Goto, Fields
<1>9. CASE CallController(w)
  BY <1>9, SMT DEF CallController, Goto, Fields
<1>10. CASE Exit(w)
  BY <1>10, SMT DEF Exit, SetTask, Fields
<1>11. CASE End(w)
  BY <1>11, SMT DEF End, Fields
<1>12. CASE EndController(w)
  BY <1>12, SMT DEF EndController, Goto, Fields
<1>13. CASE Kill(w)
  BY <1>13, SMT DEF Kill, Goto, Return, SetTask, Fields
<1>14. CASE AwaitExit(w)
  BY <1>14, SMT DEF AwaitExit, Goto, Fields
<1>15. CASE DeleteTask(w)
  BY <1>15, SMT DEF DeleteTask, Goto, Return, SetTask, Fields
<1>16. CASE DeleteContainer(w)
  BY <1>16, SMT DEF DeleteContainer, Return, Fields
<1> QED
  BY <1>1, <1>2, <1>3, <1>4, <1>5, <1>6, <1>7, <1>8, <1>9, <1>10, <1>11, <1>12,
     <1>13, <1>14, <1>15, <1>16 DEF Moves, StartStep, EndStep

-----------------------------------------------------------------------------
(* The pool.                                                               *)

\* What the variables of the pool may hold, its workers aside.
PoolTypeOK ==
  /\ runDir \in BOOLEAN
  /\ server \in {"none", "up", "down"}
  /\ client \in {"none", "open", "closed"}
  /\ step \in {"new", "download", "server", "connect", "layers", "workers", "open", "failed",
               "next", "end", "client", "kill", "remove", "closed", "notClosed"}
  /\ groups \in Configurations
  /\ group \in DOMAIN groups
  /\ list \in Seq(Workers)
  /\ cur \in 1 .. Len(list) + 1
  /\ schedulers \in [Runtimes -> Seq(Workers)]
  /\ left \subseteq Runtimes
  /\ workerErr \in BOOLEAN

\* A worker that NewWorkerPool is done with, and one that Close is done with.
Good(w) == At(w, "started") /\ result[w] = "ok" /\ attached[w]
Gone(w) == At(w, "ended") /\ (workerErr \/ result[w] = "ok")

\* The groups that have had their scheduler made.
Begins == {"new", "download", "server", "connect", "layers", "workers", "failed"}
Done == {g \in DOMAIN groups : step \in Begins => g < group}

\* The workers of those groups are good until Close, and the schedulers have them.
Opens ==
  /\ step \in {"new", "download", "server", "connect"} => group = 1
  /\ step = "workers" => list = groups[group].workers /\ \A i \in 1 .. cur - 1 : Good(list[i])
  /\ step \in {"layers", "workers", "open"} =>
       \A g \in Done : \A i \in 1 .. Len(groups[g].workers) : Good(groups[g].workers[i])
  /\ \A g \in Done : schedulers[groups[g].runtime] # <<>>
  /\ \A r \in Scheduled : \E g \in Done :
       /\ groups[g].runtime = r /\ groups[g].workers = schedulers[r]
       /\ \A h \in Done : groups[h].runtime = r => h <= g

AllGone(s) == \A i \in 1 .. Len(s) : Gone(s[i])

\* Close is done with the schedulers it has taken, and with all of them when it
\* comes to the client and the server.
Ends ==
  /\ left \subseteq Scheduled
  /\ step = "next" => \A r \in Scheduled \ left : AllGone(schedulers[r])
  /\ step = "end" =>
       /\ cur <= Len(list)
       /\ \A i \in 1 .. cur - 1 : Gone(list[i])
       /\ \A r \in Scheduled \ left : schedulers[r] = list \/ AllGone(schedulers[r])
  /\ server = "down" => step \in {"remove", "closed", "notClosed"}
  /\ step \in {"client", "kill", "remove", "closed"} \/ server = "down" =>
       \A w \in Workers : Kept(w) => At(w, "ended") /\ result[w] = "ok"

PoolInv == WorkerInv /\ PoolTypeOK /\ Opens /\ Ends

\* With fortunate steps only a process exits when End has killed it.
ExitsInEnd(w) ==
  task[w] = "exited" => pc[w] \in {"exit", "delete"} \/ (At(w, "ended") /\ result[w] = "error")

\* What a scheduler's worker has until End removes it, which leaves nothing.
Lasts(w) ==
  /\ pc[w] \in {"started", "end", "kill", "exit", "delete", "remove", "ended", "hung"}
  /\ {"container", "task"} \subseteq held[w]
  /\ pc[w] \in {"kill", "exit", "delete", "remove", "ended"} => "streams" \notin held[w]
  /\ At(w, "ended") /\ result[w] = "ok" => w \notin snapshot \cup container /\ task[w] = "none"

FortunateInv ==
  /\ step = "closed" => ~runDir
  /\ step \in {"remove", "closed"} => server = "down"
  /\ step \in {"kill", "remove", "closed"} => client = "closed"
  /\ \A w \in Workers : ExitsInEnd(w) /\ (Kept(w) => Lasts(w))

\* A worker by itself has no pool.
NoPool == step = "new" /\ server = "none" /\ Scheduled = {}

AllInv ==
  /\ PoolInv
  /\ scenario = "worker" => NoPool
  /\ scenario = "living" => FortunateInv

LEMMA WorkerInvMoves ==
  ASSUME WorkerInv, NEW w \in Workers, Moves(w)
  PROVE  WorkerInv'
<1>1. WorkerTypeOK' /\ InStart(w)' /\ InEnd(w)'
  BY WorkerTypes, WorkerMoves DEF WorkerInv
<1>2. ASSUME NEW v \in Workers, v # w PROVE InStart(v)' /\ InEnd(v)'
  BY <1>2, OneMoves DEF WorkerInv, InStart, InEnd, Stays, At
<1> QED
  BY <1>1, <1>2 DEF WorkerInv

LEMMA WorkerInvRests ==
  ASSUME WorkerInv, UNCHANGED workerVars
  PROVE  WorkerInv'
BY DEF WorkerInv, WorkerTypeOK, workerVars, InStart, InEnd, At

\* No step of NewWorkerPool moves a worker that is good, nor does its process'
\* exit; and none moves one that was ended.
LEMMA GoodStays ==
  ASSUME WorkerTypeOK, NEW w \in Workers, NEW v \in Workers,
         Start(w) \/ StartStep(w) \/ Activate(w) \/ Exit(w), Good(v)
  PROVE  Good(v)'
<1>1. CASE v # w
  BY <1>1, OneMoves DEF Moves, Good, Stays, At
<1>2. CASE v = w
  BY <1>2 DEF Good, At, Start, StartStep, GetRwMounts, NewContainer, NewTask,
     Wait, StartTask,
     SetPid, Activate, Exit
<1> QED
  BY <1>1, <1>2

LEMMA EndedStays ==
  ASSUME WorkerTypeOK, NEW w \in Workers, NEW v \in Workers, Moves(w), At(v, "ended")
  PROVE  At(v, "ended")' /\ result'[v] = result[v]
<1>1. CASE v # w
  BY <1>1, OneMoves DEF Stays, At
<1>2. CASE v = w
  BY <1>2 DEF Moves, At, Start, StartStep, GetRwMounts, NewContainer, NewTask,
     Wait, StartTask,
     SetPid, Activate, CallController, Exit, End, EndStep, EndController, Kill, AwaitExit,
     DeleteTask, DeleteContainer
<1> QED
  BY <1>1, <1>2

LEMMA GroupsHave ==
  ASSUME PoolTypeOK
  PROVE  /\ DOMAIN groups = 1 .. Len(groups) /\ Len(groups) \in Nat \ {0}
         /\ \A g \in DOMAIN groups :
              /\ groups[g].runtime \in Runtimes
              /\ groups[g].workers \in Seq(Workers)
              /\ Len(groups[g].workers) \in Nat \ {0}
<1>1. groups \in Seq([runtime : Runtimes, workers : Seq(Workers)]) /\ IsConfiguration(groups)
  BY PoolAssumption DEF PoolAssumption, PoolTypeOK
<1>2. DOMAIN groups = 1 .. Len(groups) /\ Len(groups) \in Nat \ {0}
  BY <1>1 DEF IsConfiguration
<1>3. ASSUME NEW g \in DOMAIN groups
      PROVE  groups[g].workers \in Seq(Workers) /\ groups[g].runtime \in Runtimes
  <2> DEFINE S == [runtime : Runtimes, workers : Seq(Workers)]
  <2>1. groups \in Seq(S)
    BY <1>1
  <2> HIDE DEF S
  <2>2. groups[g] \in S
    BY <1>2, <2>1
  <2> QED
    BY <2>2 DEF S
<1>4. ASSUME NEW g \in DOMAIN groups PROVE Len(groups[g].workers) \in Nat \ {0}
  BY <1>1, <1>3 DEF IsConfiguration, Size
<1> QED
  BY <1>2, <1>3, <1>4

\* The steps that NewWorkerPool and Close take by themselves.
Building == MakeDir \/ Download \/ NewContainerdServer \/ Connect

LEMMA BuildingStep ==
  ASSUME PoolInv, Building
  PROVE  PoolInv'
<1> USE DEF PoolInv
<1>1. UNCHANGED <<workerVars, walkVars, workerErr>>
  BY DEF Building, MakeDir, Download, NewContainerdServer, Connect
<1>2. WorkerInv'
  BY <1>1, WorkerInvRests
<1>3. /\ step \in {"new", "download", "server", "connect"}
      /\ step' \in {"download", "server", "connect", "layers", "failed"}
      /\ server' \in {server, "up"} /\ client' \in {client, "open"} /\ runDir' \in {runDir, TRUE}
  BY DEF Building, MakeDir, Download, NewContainerdServer, Connect, Tries
<1>4. PoolTypeOK'
  BY <1>1, <1>3 DEF PoolTypeOK, walkVars
<1>5. Done = {} /\ Done' = {} /\ group = 1
  BY <1>1, <1>3, GroupsHave DEF Done, Begins, Opens, walkVars
<1>6. Opens'
  BY <1>1, <1>3, <1>5 DEF Opens, Scheduled, walkVars
<1>7. Ends'
  BY <1>1, <1>3 DEF Ends, Scheduled, walkVars
<1> QED
  BY <1>2, <1>4, <1>6, <1>7

LEMMA MakeLayersStep ==
  ASSUME PoolInv, MakeLayers
  PROVE  PoolInv'
<1> USE DEF PoolInv
<1>1. /\ step = "layers" /\ step' \in {"workers", "failed"}
      /\ list' = groups[group].workers /\ cur' = 1
      /\ UNCHANGED <<workerVars, runDir, server, client, groups, group, schedulers, left, workerErr>>
  BY DEF MakeLayers, Tries
<1>2. WorkerInv'
  BY <1>1, WorkerInvRests
<1>3. PoolTypeOK'
  BY <1>1, GroupsHave DEF PoolTypeOK
<1>4. Done' = Done
  BY <1>1 DEF Done, Begins
<1>5. Opens'
  BY <1>1, <1>4 DEF Opens, Scheduled, Good, At, workerVars
<1>6. Ends'
  BY <1>1 DEF Ends, Scheduled
<1> QED
  BY <1>2, <1>3, <1>5, <1>6

LEMMA StartWorkerStep ==
  ASSUME PoolInv, NEW w \in Workers, UNCHANGED poolVars,
         Exit(w) \/ (step = "workers" /\ (Start(w) \/ StartStep(w) \/ Activate(w)))
  PROVE  PoolInv'
<1> USE DEF PoolInv
<1>1. UNCHANGED <<runDir, server, client, step, groups, group, list, cur, schedulers, left, workerErr>>
  BY DEF poolVars, walkVars
<1>2. WorkerInv' /\ Moves(w)
  BY WorkerInvMoves DEF Moves
<1>3. PoolTypeOK'
  BY <1>1 DEF PoolTypeOK
<1>4. Done' = Done
  BY <1>1 DEF Done
<1>5. ASSUME NEW v \in Workers, Good(v) PROVE Good(v)'
  BY <1>5, GoodStays DEF WorkerInv
<1>6. Opens'
  <2>1. ASSUME NEW g \in Done, NEW i \in 1 .. Len(groups[g].workers),
               Good(groups[g].workers[i])
        PROVE  Good(groups[g].workers[i])'
    <3>1. groups[g].workers[i] \in Workers
      BY GroupsHave DEF Done
    <3> QED
      BY <1>1, <1>5, <2>1, <3>1
  <2>2. ASSUME step = "workers", NEW i \in 1 .. cur - 1, Good(list[i]) PROVE Good(list[i])'
    <3>1. list[i] \in Workers
      BY DEF PoolTypeOK
    <3> QED
      BY <1>1, <1>5, <2>2, <3>1
  <2> QED
    BY <1>1, <1>4, <2>1, <2>2 DEF Opens, Scheduled
<1>7. ASSUME NEW v \in Workers, At(v, "ended") PROVE At(v, "ended")' /\ result'[v] = result[v]
  BY <1>2, <1>7, EndedStays DEF WorkerInv
<1>8. Ends'
  <2>1. ASSUME NEW q \in Seq(Workers), AllGone(q) PROVE AllGone(q)'
    BY <1>1, <1>7, <2>1 DEF AllGone, Gone
  <2>2. ASSUME NEW i \in 1 .. cur - 1, Gone(list[i]) PROVE Gone(list[i])'
    <3>1. list[i] \in Workers
      BY DEF PoolTypeOK
    <3> QED
      BY <1>1, <1>7, <2>2, <3>1 DEF Gone
  <2> QED
    BY <1>1, <1>7, <2>1, <2>2 DEF Ends, Scheduled, Kept, PoolTypeOK
<1> QED
  BY <1>2, <1>3, <1>6, <1>8

LEMMA NextWorkerStep ==
  ASSUME PoolInv, NextWorker
  PROVE  PoolInv'
<1> USE DEF PoolInv
<1>1. /\ step = "workers" /\ cur <= Len(list) /\ cur' = cur + 1 /\ Good(list[cur])
      /\ UNCHANGED <<workerVars, runDir, server, client, step, groups, group, list, schedulers,
                     left, workerErr>>
  BY DEF NextWorker, This, Good
<1>2. WorkerInv'
  BY <1>1, WorkerInvRests
<1>3. PoolTypeOK'
  BY <1>1 DEF PoolTypeOK
<1>4. Done' = Done
  BY <1>1 DEF Done
<1>5. \A w : Good(w)' <=> Good(w)
  BY <1>1 DEF Good, At, workerVars
<1>6. cur \in Nat \ {0}
  BY DEF PoolTypeOK
<1>7. Opens'
  BY <1>1, <1>4, <1>5, <1>6 DEF Opens, Scheduled
<1>8. Ends'
  BY <1>1 DEF Ends, Scheduled
<1> QED
  BY <1>2, <1>3, <1>7, <1>8

LEMMA WorkerFailsStep ==
  ASSUME PoolInv, WorkerFails
  PROVE  PoolInv'
<1> USE DEF PoolInv
<1>1. /\ step = "workers" /\ step' = "failed"
      /\ UNCHANGED <<workerVars, runDir, server, client, walkVars, workerErr>>
  BY DEF WorkerFails
<1>2. WorkerInv'
  BY <1>1, WorkerInvRests
<1>3. PoolTypeOK'
  BY <1>1 DEF PoolTypeOK, walkVars
<1>4. Done' = Done
  BY <1>1 DEF Done, Begins, walkVars
<1>5. Opens'
  BY <1>1, <1>4 DEF Opens, Scheduled, walkVars
<1>6. Ends'
  BY <1>1 DEF Ends, Scheduled, walkVars
<1> QED
  BY <1>2, <1>3, <1>5, <1>6

LEMMA NewSchedulerStep ==
  ASSUME PoolInv, NewScheduler
  PROVE  PoolInv'
<1> USE DEF PoolInv
<1> DEFINE q == groups[group].runtime
<1>1. /\ step = "workers" /\ cur = Len(list) + 1
      /\ schedulers' = [schedulers EXCEPT ![q] = list]
      /\ \/ group = Len(groups) /\ step' = "open" /\ group' = group
         \/ group # Len(groups) /\ step' = "layers" /\ group' = group + 1
      /\ UNCHANGED <<workerVars, runDir, server, client, groups, list, cur, left, workerErr>>
  BY DEF NewScheduler
<1>2. WorkerInv'
  BY <1>1, WorkerInvRests
<1>3. /\ group \in DOMAIN groups /\ DOMAIN groups = 1 .. Len(groups) /\ Len(groups) \in Nat
      /\ q \in Runtimes /\ list = groups[group].workers /\ list \in Seq(Workers) /\ list # <<>>
  BY <1>1, GroupsHave DEF PoolTypeOK, Opens
<1>4. /\ schedulers' \in [Runtimes -> Seq(Workers)]
      /\ \A r \in Runtimes : schedulers'[r] = IF r = q THEN list ELSE schedulers[r]
  BY <1>1, <1>3 DEF PoolTypeOK
<1>5. PoolTypeOK'
  BY <1>1, <1>3, <1>4 DEF PoolTypeOK
<1>6. Done' = Done \cup {group}
  BY <1>1, <1>3 DEF Done, Begins
<1>7. \A g \in Done' : \A i \in 1 .. Len(groups[g].workers) : Good(groups[g].workers[i])'
  <2>1. \A w : Good(w)' <=> Good(w)
    BY <1>1 DEF Good, At, workerVars
  <2>2. \A i \in 1 .. Len(list) : Good(list[i])
    BY <1>1, <1>3 DEF Opens
  <2>3. \A g \in Done : \A i \in 1 .. Len(groups[g].workers) : Good(groups[g].workers[i])
    BY <1>1 DEF Opens
  <2> QED
    BY <1>1, <1>3, <1>6, <2>1, <2>2, <2>3
<1>8. Opens'
  <2>1. \A g \in Done' : schedulers'[groups[g].runtime] # <<>>
    BY <1>3, <1>4, <1>6, GroupsHave DEF Opens, Done
  <2>2. ASSUME NEW r \in Runtimes, schedulers'[r] # <<>>
        PROVE  \E g \in Done' :
                 /\ groups[g].runtime = r /\ groups[g].workers = schedulers'[r]
                 /\ \A h \in Done' : groups[h].runtime = r => h <= g
    <3>1. \A g \in Done' : g \in 1 .. group
      BY <1>1, <1>3, <1>6 DEF Done, Begins
    <3>2. CASE r = q
      BY <1>3, <1>4, <1>6, <3>1, <3>2
    <3>3. CASE r # q
      <4>1. PICK g \in Done :
              /\ groups[g].runtime = r /\ groups[g].workers = schedulers[r]
              /\ \A h \in Done : groups[h].runtime = r => h <= g
        BY <1>4, <2>2, <3>3 DEF Opens, Scheduled
      <4> QED
        BY <1>4, <1>6, <3>3, <4>1
    <3> QED
      BY <3>2, <3>3
  <2>3. step' \in {"open", "layers"} /\ groups' = groups
    BY <1>1
  <2> QED
    BY <1>7, <2>1, <2>2, <2>3 DEF Opens, Scheduled
<1>9. Ends'
  BY <1>1, <1>3, <1>4 DEF Ends, Scheduled
<1> QED
  BY <1>2, <1>5, <1>8, <1>9

\* A step of Close leaves the groups and the schedulers as they are.
LEMMA OpensStays ==
  ASSUME Opens, UNCHANGED <<groups, group, schedulers>>,
         step \notin Begins, step' \notin Begins \cup {"open"}
  PROVE  Opens'
<1>1. Done' = Done
  BY DEF Done
<1> QED
  BY <1>1 DEF Opens, Scheduled, Begins

LEMMA CloseStep ==
  ASSUME PoolInv, Close
  PROVE  PoolInv'
<1> USE DEF PoolInv
<1>1. /\ step = "open" /\ step' = "next" /\ left' = Scheduled
      /\ UNCHANGED <<workerVars, runDir, server, client, groups, group, list, cur, schedulers, workerErr>>
  BY DEF Close
<1>2. WorkerInv'
  BY <1>1, WorkerInvRests
<1>3. PoolTypeOK'
  BY <1>1 DEF PoolTypeOK, Scheduled
<1>4. Opens'
  BY <1>1, OpensStays DEF Begins
<1>5. Ends'
  BY <1>1 DEF Ends, Scheduled
<1> QED
  BY <1>2, <1>3, <1>4, <1>5

LEMMA NextSchedulerStep ==
  ASSUME PoolInv, NextScheduler
  PROVE  PoolInv'
<1> USE DEF PoolInv
<1>1. PICK r \in left : list' = schedulers[r] /\ left' = left \ {r}
  BY DEF NextScheduler
<1>2. /\ step = "next" /\ step' = "end" /\ cur' = 1
      /\ UNCHANGED <<workerVars, runDir, server, client, groups, group, schedulers, workerErr>>
  BY DEF NextScheduler
<1>3. WorkerInv'
  BY <1>2, WorkerInvRests
<1>4. schedulers[r] \in Seq(Workers) /\ Len(schedulers[r]) \in Nat \ {0}
  BY <1>1 DEF PoolTypeOK, Ends, Scheduled
<1>5. PoolTypeOK'
  BY <1>1, <1>2, <1>4 DEF PoolTypeOK
<1>6. Opens'
  BY <1>2, OpensStays DEF Begins
<1>7. Ends'
  <2>1. \A p : AllGone(p)' <=> AllGone(p)
    BY <1>2 DEF AllGone, Gone, At, workerVars
  <2> QED
    BY <1>1, <1>2, <1>4, <2>1 DEF Ends, Scheduled
<1> QED
  BY <1>3, <1>5, <1>6, <1>7

LEMMA EndWorkerStep ==
  ASSUME PoolInv, EndWorker
  PROVE  PoolInv'
<1> USE DEF PoolInv
<1>1. UNCHANGED <<runDir, server, client, step, groups, group, list, cur, schedulers, left, workerErr>>
  BY DEF EndWorker, poolVars, walkVars
<1>2. step = "end" /\ list[cur] \in Workers /\ Moves(list[cur])
  BY DEF EndWorker, This, Moves, PoolTypeOK
<1>3. WorkerInv'
  BY <1>2, WorkerInvMoves
<1>4. PoolTypeOK'
  BY <1>1 DEF PoolTypeOK
<1>5. Opens'
  BY <1>1, <1>2, OpensStays DEF Begins
<1>6. ASSUME NEW v \in Workers, At(v, "ended") PROVE At(v, "ended")' /\ result'[v] = result[v]
  BY <1>2, <1>6, EndedStays DEF WorkerInv
<1>7. Ends'
  <2>1. ASSUME NEW p \in Seq(Workers), AllGone(p) PROVE AllGone(p)'
    BY <1>1, <1>6, <2>1 DEF AllGone, Gone
  <2>2. ASSUME NEW i \in 1 .. cur - 1, Gone(list[i]) PROVE Gone(list[i])'
    <3>1. list[i] \in Workers
      BY DEF PoolTypeOK
    <3> QED
      BY <1>1, <1>6, <2>2, <3>1 DEF Gone
  <2> QED
    BY <1>1, <1>2, <2>1, <2>2 DEF Ends, Scheduled, PoolTypeOK
<1> QED
  BY <1>3, <1>4, <1>5, <1>7

LEMMA EndedWorkerStep ==
  ASSUME PoolInv, EndedWorker
  PROVE  PoolInv'
<1> USE DEF PoolInv
<1>1. /\ step = "end" /\ At(list[cur], "ended") /\ cur' = cur + 1
      /\ step' = IF cur = Len(list) THEN "next" ELSE "end"
      /\ UNCHANGED <<workerVars, runDir, server, client, groups, group, list, schedulers, left>>
  BY DEF EndedWorker, This, EndedTo
<1>2. workerErr' \in BOOLEAN /\ (workerErr' <=> workerErr \/ result[list[cur]] = "error")
  BY DEF EndedWorker, This
<1>3. WorkerInv'
  BY <1>1, WorkerInvRests
<1>4. cur \in 1 .. Len(list) /\ list[cur] \in Workers
  BY <1>1 DEF PoolTypeOK, Ends
<1>5. PoolTypeOK'
  BY <1>1, <1>2, <1>4 DEF PoolTypeOK
<1>6. Opens'
  BY <1>1, OpensStays DEF Begins
<1>7. UNCHANGED <<pc, result>>
  BY <1>1 DEF workerVars
<1>8. \A w : Gone(w) \/ w = list[cur] => Gone(w)'
  <2>1. result[list[cur]] \in {"ok", "error"}
    BY <1>1, <1>4 DEF WorkerInv, WorkerTypeOK, InEnd
  <2> QED
    BY <1>1, <1>2, <1>7, <2>1 DEF Gone, At
<1>9. Ends'
  <2>1. \A p : AllGone(p) => AllGone(p)'
    BY <1>8 DEF AllGone
  <2>2. \A i \in 1 .. cur : Gone(list[i])'
    <3>1. \A i \in 1 .. cur - 1 : Gone(list[i])
      BY <1>1 DEF Ends
    <3>2. \A i \in 1 .. cur : i = cur \/ i \in 1 .. cur - 1
      BY <1>4
    <3> QED
      BY <1>1, <1>8, <3>1, <3>2
  <2>3. cur = Len(list) => AllGone(list)'
    BY <1>1, <2>2 DEF AllGone
  <2>4. \A r \in Scheduled \ left : schedulers[r] = list \/ AllGone(schedulers[r])'
    BY <1>1, <2>1 DEF Ends
  <2> QED
    BY <1>1, <1>4, <2>2, <2>3, <2>4 DEF Ends, Scheduled
<1> QED
  BY <1>3, <1>5, <1>6, <1>9

\* The last steps of Close: when no worker failed to end, all are ended.
LEMMA LastSteps ==
  ASSUME PoolInv, WorkersEnded \/ CloseClient \/ KillServer \/ RemoveDir
  PROVE  PoolInv'
<1> USE DEF PoolInv
<1>1. UNCHANGED <<workerVars, walkVars, workerErr>>
  BY DEF WorkersEnded, CloseClient, KillServer, RemoveDir
<1>2. /\ step \in {"next", "client", "kill", "remove"}
      /\ step' \in {"client", "kill", "remove", "closed", "notClosed"}
      /\ step = "next" /\ step' # "notClosed" => left = {} /\ ~workerErr
      /\ server' = server \/ (server' = "down" /\ step = "kill" /\ step' = "remove")
      /\ client' \in {client, "closed"} /\ runDir' \in BOOLEAN
      /\ step = "remove" => step' \in {"closed", "notClosed"}
  BY DEF WorkersEnded, CloseClient, KillServer, RemoveDir, Tries, PoolTypeOK
<1>3. WorkerInv'
  BY <1>1, WorkerInvRests
<1>4. PoolTypeOK'
  BY <1>1, <1>2 DEF PoolTypeOK, walkVars
<1>5. Opens'
  BY <1>1, <1>2, OpensStays DEF Begins, walkVars
<1>6. Ends'
  <2>1. ASSUME NEW w \in Workers, Kept(w), step # "next" \/ step' # "notClosed"
        PROVE  At(w, "ended") /\ result[w] = "ok"
    <3>1. CASE step # "next"
      BY <1>2, <2>1, <3>1 DEF Ends
    <3>2. CASE step = "next"
      <4>1. PICK r \in Scheduled : \E i \in DOMAIN schedulers[r] : schedulers[r][i] = w
        BY <2>1 DEF Kept
      <4>2. DOMAIN schedulers[r] = 1 .. Len(schedulers[r])
        BY <4>1 DEF Scheduled, PoolTypeOK
      <4>3. Gone(w)
        BY <1>2, <2>1, <3>2, <4>1, <4>2 DEF Ends, AllGone
      <4> QED
        BY <1>2, <2>1, <3>2, <4>3 DEF Gone
    <3> QED
      BY <3>1, <3>2
  <2>2. \A w \in Workers : (Kept(w)' <=> Kept(w)) /\ (At(w, "ended")' <=> At(w, "ended"))
    BY <1>1 DEF walkVars, workerVars, Kept, Scheduled, At
  <2>3. server = "down" => step = "remove"
    BY <1>2 DEF Ends
  <2> QED
    BY <1>1, <1>2, <2>1, <2>2, <2>3 DEF Ends, Scheduled, walkVars, workerVars
<1> QED
  BY <1>3, <1>4, <1>5, <1>6

LEMMA PoolRests ==
  ASSUME PoolInv, UNCHANGED vars
  PROVE  PoolInv'
<1> USE DEF PoolInv
<1>1. /\ UNCHANGED <<snapshot, container, task, held, attached, pc, result>>
      /\ UNCHANGED <<runDir, server, client, step, groups, group, list, cur, schedulers, left, workerErr>>
  BY DEF vars, workerVars, poolVars, walkVars
<1>2. WorkerInv' /\ PoolTypeOK'
  BY <1>1, WorkerInvRests DEF workerVars, PoolTypeOK
<1>3. Done' = Done /\ Scheduled' = Scheduled /\ \A w : (Good(w)' <=> Good(w)) /\ (Gone(w)' <=> Gone(w))
  BY <1>1 DEF Done, Scheduled, Good, Gone, At
<1>4. Opens'
  BY <1>1, <1>3 DEF Opens
<1>5. \A w : (Kept(w)' <=> Kept(w)) /\ (At(w, "ended")' <=> At(w, "ended"))
  BY <1>1 DEF Kept, Scheduled, At
<1>6. Ends'
  BY <1>1, <1>3, <1>5 DEF Ends, AllGone
<1> QED
  BY <1>2, <1>4, <1>6

LEMMA PoolStep ==
  ASSUME PoolInv, [Next]_vars
  PROVE  PoolInv'
<1>1. ASSUME StartWorker PROVE PoolInv'
  <2>1. list[cur] \in Workers
    BY <1>1 DEF StartWorker, PoolInv, PoolTypeOK
  <2> QED
    BY <1>1, <2>1, StartWorkerStep DEF StartWorker, This
<1>2. ASSUME ProcessExits PROVE PoolInv'
  BY <1>2, StartWorkerStep DEF ProcessExits
<1> QED
  BY <1>1, <1>2, BuildingStep, MakeLayersStep, NextWorkerStep, WorkerFailsStep,
     NewSchedulerStep,
     CloseStep, NextSchedulerStep, EndWorkerStep, EndedWorkerStep, LastSteps, PoolRests
     DEF Next, NewWorkerPool, Closes, Building

LEMMA FortunateMove ==
  ASSUME WorkerInv, NEW w \in Workers, Moves(w), Fortunate, ExitsInEnd(w)
  PROVE  ExitsInEnd(w)' /\ (Lasts(w) => Lasts(w)')
<1>0. /\ ~Exit(w) /\ InStart(w) /\ InEnd(w)
      /\ DeleteContainer(w) /\ "container" \in held[w] => w \notin snapshot' \cup container'
  BY DEF Fortunate, WorkerInv
<1> USE DEF WorkerInv, WorkerTypeOK, ExitsInEnd, Lasts, At
<1>1. CASE Start(w)
  BY <1>0, <1>1, SMT DEF Start, Goto, InEnd
<1>2. CASE GetRwMounts(w)
  BY <1>0, <1>2, SMT DEF GetRwMounts, Goto, Return, Call, InEnd
<1>3. CASE NewContainer(w)
  BY <1>0, <1>3, SMT DEF NewContainer, Goto, Return, Call, Hold, InEnd
<1>4. CASE NewTask(w)
  BY <1>0, <1>4, SMT DEF NewTask, Goto, Return, SetTask, ConnectStdPipes, InEnd
<1>5. CASE Wait(w)
  BY <1>0, <1>5, SMT DEF Wait, Goto, Return, Call, Hold, InEnd
<1>6. CASE StartTask(w)
  BY <1>0, <1>6, SMT DEF StartTask, Goto, Return, Call, SetTask, InEnd
<1>7. CASE SetPid(w)
  BY <1>0, <1>7, SMT DEF SetPid, Return, InEnd
<1>8. CASE Activate(w)
  BY <1>0, <1>8, SMT DEF Activate, Goto, InEnd
<1>9. CASE End(w)
  BY <1>0, <1>9, SMT DEF End, InEnd
<1>10. CASE EndController(w)
  BY <1>0, <1>10, SMT DEF EndController, Goto, InEnd
<1>11. CASE Kill(w)
  BY <1>0, <1>11, SMT DEF Kill, Goto, Return, SetTask, InEnd
<1>12. CASE AwaitExit(w)
  BY <1>0, <1>12, SMT DEF AwaitExit, Goto, InEnd
<1>13. CASE DeleteTask(w)
  BY <1>0, <1>13, SMT DEF DeleteTask, Goto, Return, SetTask, InEnd
<1>14. CASE DeleteContainer(w)
  BY <1>0, <1>14, SMT DEF DeleteContainer, Return, InEnd
<1>15. CASE CallController(w)
  BY <1>0, <1>15, SMT DEF CallController, Goto, InEnd
<1> QED
  BY <1>0, <1>1, <1>2, <1>3, <1>4, <1>5, <1>6, <1>7, <1>8, <1>9, <1>10, <1>11,
     <1>12, <1>13, <1>14, <1>15 DEF Moves, StartStep, EndStep

\* A step of a worker in the pool.
LEMMA FortunateWorker ==
  ASSUME PoolInv, FortunateInv, NEW w \in Workers, Moves(w), Fortunate,
         UNCHANGED poolVars
  PROVE  FortunateInv'
<1>1. UNCHANGED <<runDir, server, client, step, schedulers>>
  BY DEF poolVars, walkVars
<1>2. ASSUME NEW v \in Workers PROVE ExitsInEnd(v)' /\ (Lasts(v) => Lasts(v)')
  <2>1. CASE v = w
    BY <2>1, FortunateMove DEF PoolInv, FortunateInv
  <2>2. CASE v # w
    <3>1. Stays(v) /\ ExitsInEnd(v)
      BY <2>2, OneMoves DEF PoolInv, WorkerInv, FortunateInv
    <3> QED
      BY <3>1 DEF Stays, ExitsInEnd, Lasts, At
  <2> QED
    BY <2>1, <2>2
<1>3. \A v : Kept(v)' <=> Kept(v)
  BY <1>1 DEF Kept, Scheduled
<1> QED
  BY <1>1, <1>2, <1>3 DEF FortunateInv

LEMMA FortunateStep ==
  ASSUME PoolInv, FortunateInv, Next, Fortunate
  PROVE  FortunateInv'
<1>1. CASE StartWorker \/ EndWorker
  <2>1. list[cur] \in Workers
    BY <1>1 DEF StartWorker, EndWorker, PoolInv, PoolTypeOK, Ends
  <2>2. Moves(list[cur]) /\ UNCHANGED poolVars
    BY <1>1 DEF StartWorker, EndWorker, This, Moves
  <2> QED
    BY <2>1, <2>2, FortunateWorker
<1>2. CASE ProcessExits
  BY <1>2 DEF ProcessExits, Fortunate
<1>3. CASE NewScheduler
  <2>1. /\ step = "workers" /\ step' \in {"layers", "open"} /\ cur = Len(list) + 1
        /\ schedulers' = [schedulers EXCEPT ![groups[group].runtime] = list]
        /\ UNCHANGED workerVars
    BY <1>3 DEF NewScheduler
  <2>2. ASSUME NEW w \in Workers PROVE ExitsInEnd(w)' /\ (Lasts(w) => Lasts(w)')
    BY <2>1 DEF FortunateInv, ExitsInEnd, Lasts, At, workerVars
  <2>3. ASSUME NEW i \in 1 .. Len(list) PROVE Lasts(list[i])
    <3>1. Good(list[i]) /\ list[i] \in Workers
      BY <2>1 DEF PoolInv, Opens, PoolTypeOK
    <3>2. held[list[i]] = Fields
      BY <3>1 DEF PoolInv, WorkerInv, InStart, Good
    <3> QED
      BY <3>1, <3>2 DEF Lasts, Good, At, Fields
  <2>4. ASSUME NEW w \in Workers, Kept(w)' PROVE Lasts(w)
    <3>1. PICK r \in Runtimes : \E i \in DOMAIN schedulers'[r] : schedulers'[r][i] = w
      BY <2>4 DEF Kept, Scheduled
    <3>2. schedulers'[r] = list \/ schedulers'[r] = schedulers[r]
      BY <2>1 DEF PoolInv, PoolTypeOK
    <3>3. schedulers[r] \in Seq(Workers) /\ list \in Seq(Workers)
      BY DEF PoolInv, PoolTypeOK
    <3>4. CASE schedulers'[r] = list
      BY <2>3, <3>1, <3>3, <3>4
    <3>5. CASE schedulers'[r] = schedulers[r]
      <4>1. PICK i \in DOMAIN schedulers[r] : schedulers[r][i] = w
        BY <3>1, <3>5
      <4>2. schedulers[r] # <<>>
        BY <4>1
      <4>3. Kept(w)
        BY <4>1, <4>2 DEF Kept, Scheduled
      <4> QED
        BY <4>3 DEF FortunateInv
    <3> QED
      BY <3>2, <3>4, <3>5
  <2>5. step' \notin {"kill", "remove", "closed"}
    BY <2>1
  <2> QED
    BY <2>2, <2>4, <2>5 DEF FortunateInv
<1>4. CASE UNCHANGED <<workerVars, schedulers>>
  <2>1. \A w \in Workers : (ExitsInEnd(w) /\ (Kept(w) => Lasts(w)))'
    BY <1>4 DEF FortunateInv, ExitsInEnd, Lasts, At, Kept, Scheduled,
       workerVars
  <2>2. /\ step' = "closed" => ~runDir'
        /\ step' \in {"remove", "closed"} => server' = "down"
        /\ step' \in {"kill", "remove", "closed"} => client' = "closed"
    <3> USE DEF FortunateInv
    <3>1. CASE UNCHANGED poolVars
      BY <3>1 DEF poolVars
    <3>2. CASE CloseClient \/ KillServer \/ RemoveDir
      BY <3>2 DEF CloseClient, KillServer, RemoveDir, Tries
    <3>3. CASE step' \notin {"kill", "remove", "closed"}
      BY <3>3
    <3> QED
      BY <3>1, <3>2, <3>3 DEF Next, NewWorkerPool, Closes, StartWorker,
         EndWorker, ProcessExits,
         MakeDir, Download, NewContainerdServer, Connect, MakeLayers, NextWorker, WorkerFails,
         NewScheduler, Close, NextScheduler, EndedWorker, EndedTo, WorkersEnded, Tries
  <2> QED
    BY <2>1, <2>2 DEF FortunateInv
<1> QED
  BY <1>1, <1>2, <1>3, <1>4 DEF Next, NewWorkerPool, Closes, MakeDir, Download,
     NewContainerdServer, Connect, MakeLayers, NextWorker, WorkerFails, Close, NextScheduler,
     EndedWorker, WorkersEnded, CloseClient, KillServer, RemoveDir, walkVars

\* Workers by themselves, without a pool.
LEMMA AloneStep ==
  ASSUME PoolInv, NoPool, WorkerNext, UNCHANGED poolVars
  PROVE  PoolInv' /\ NoPool'
<1>1. /\ UNCHANGED <<runDir, server, client, step, groups, group, list, cur, schedulers, left, workerErr>>
      /\ step = "new" /\ server = "none" /\ Scheduled = {} /\ Scheduled' = {}
  BY DEF poolVars, walkVars, NoPool, Scheduled
<1>2. WorkerInv'
  BY WorkerInvMoves DEF WorkerNext, Moves, PoolInv
<1>3. PoolTypeOK'
  BY <1>1 DEF PoolInv, PoolTypeOK
<1>4. Done' = Done
  BY <1>1 DEF Done
<1>5. Opens'
  BY <1>1, <1>4 DEF PoolInv, Opens
<1>6. Ends'
  BY <1>1 DEF PoolInv, Ends
<1> QED
  BY <1>1, <1>2, <1>3, <1>5, <1>6 DEF PoolInv, NoPool

LEMMA PoolStarts ==
  ASSUME Init
  PROVE  PoolInv /\ NoPool /\ FortunateInv
<1>1. /\ snapshot = {} /\ container = {} /\ task = [w \in Workers |-> "none"]
      /\ held = [w \in Workers |-> {}] /\ attached = [w \in Workers |-> FALSE]
      /\ pc = [w \in Workers |-> "new"] /\ result = [w \in Workers |-> "none"]
  BY DEF Init, WorkerInit
<1>2. WorkerInv
  <2>1. WorkerTypeOK
    BY <1>1 DEF WorkerTypeOK
  <2>2. \A w \in Workers : InStart(w) /\ InEnd(w)
    BY <1>1 DEF InStart, InEnd, At
  <2> QED
    BY <2>1, <2>2 DEF WorkerInv
<1>3. PoolTypeOK
  <2>1. groups \in Seq([runtime : Runtimes, workers : Seq(Workers)]) /\ IsConfiguration(groups)
    BY PoolAssumption DEF PoolAssumption, Init
  <2>2. 1 \in DOMAIN groups
    BY <2>1 DEF IsConfiguration
  <2>3. list \in Seq(Workers) /\ cur \in 1 .. Len(list) + 1
    BY DEF Init
  <2>4. schedulers \in [Runtimes -> Seq(Workers)]
    BY DEF Init
  <2> QED
    BY <2>2, <2>3, <2>4 DEF Init, PoolTypeOK
<1>4. Scheduled = {} /\ Done = {} /\ NoPool
  <2>1. Scheduled = {}
    BY DEF Scheduled, Init
  <2>2. Done = {}
    BY <1>3, GroupsHave DEF Done, Begins, Init
  <2> QED
    BY <2>1, <2>2 DEF NoPool, Init
<1>5. Opens /\ Ends
  BY <1>4 DEF Opens, Ends, Init
<1>6. FortunateInv
  BY <1>1, <1>4 DEF Init, FortunateInv, ExitsInEnd, Kept
<1> QED
  BY <1>2, <1>3, <1>4, <1>5, <1>6 DEF PoolInv

LEMMA AllInvStep ==
  ASSUME AllInv, [AllNext]_allVars
  PROVE  AllInv'
<1> USE DEF AllInv
<1>1. CASE PoolNext
  BY <1>1, PoolStep DEF PoolNext
<1>2. CASE AloneNext
  BY <1>2, AloneStep DEF AloneNext
<1>3. CASE LivingNext
  BY <1>3, PoolStep, FortunateStep DEF LivingNext
<1>4. CASE UNCHANGED <<scenario, vars>>
  <2>1. PoolInv'
    BY <1>4, PoolRests
  <2>2. NoPool => NoPool'
    BY <1>4 DEF NoPool, Scheduled, vars, poolVars, walkVars
  <2>3. FortunateInv => FortunateInv'
    BY <1>4 DEF FortunateInv, ExitsInEnd, Lasts, At, Kept, Scheduled, vars,
       poolVars, walkVars,
       workerVars
  <2> QED
    BY <1>4, <2>1, <2>2, <2>3
<1> QED
  BY <1>1, <1>2, <1>3, <1>4 DEF AllNext, LayersNext, CacheNext, allVars

LEMMA PoolInvariant == AllSpec => []AllInv
<1>1. AllInit => AllInv
  BY PoolStarts DEF AllInit, AllInv
<1>2. AllInv /\ [AllNext]_allVars => AllInv'
  BY AllInvStep
<1> QED
  BY <1>1, <1>2, PTL DEF AllSpec

\* Once the groups are there, the last one of a runtime has the scheduler.
LEMMA KeptOrReplaced ==
  ASSUME PoolInv, step \notin Begins, NEW w \in Workers, ~Replaced(w)
  PROVE  Kept(w)
<1> USE DEF PoolInv
<1>1. Done = DOMAIN groups /\ IsConfiguration(groups)
  BY PoolAssumption DEF Done, PoolAssumption, PoolTypeOK
<1>2. PICK g \in DOMAIN groups : \E i \in 1 .. Size(groups[g]) : groups[g].workers[i] = w
  BY <1>1 DEF IsConfiguration
<1>3. DOMAIN groups[g].workers = 1 .. Size(groups[g])
  BY GroupsHave DEF Size
<1>4. groups[g].runtime \in Scheduled
  BY <1>1, GroupsHave DEF Opens, Scheduled
<1>5. PICK h \in DOMAIN groups :
        /\ groups[h].runtime = groups[g].runtime
        /\ groups[h].workers = schedulers[groups[g].runtime]
        /\ g <= h
  BY <1>1, <1>4 DEF Opens
<1>6. ~(g < h)
  BY <1>2, <1>3, <1>5 DEF Replaced
<1>7. g = h
  BY <1>5, <1>6, GroupsHave
<1> QED
  BY <1>2, <1>3, <1>4, <1>5, <1>7 DEF Kept

\* What End can do for a process: none is left of a worker that was ended, a Start
\* that failed leaves none that End does not find, and none outlives the server
\* but those of a group that was replaced (worker.go:174, :180, :316,
\* workerpool.go:108, :169).  A pool that could not be made calls End for none.
THEOREM EndKillsProcesses == AllSpec => []EndKillsProcess
<1>1. AllInv => EndedIsDead /\ TaskIsHeld
  BY DEF AllInv, PoolInv, WorkerInv, InEnd, EndedIsDead, TaskIsHeld
<1>2. ASSUME AllInv, server = "down", NEW w \in Workers, ~Replaced(w)
      PROVE  task[w] \in {"none", "exited"}
  <2>1. step \notin Begins
    BY <1>2 DEF AllInv, PoolInv, Ends, Begins
  <2>2. Kept(w)
    BY <1>2, <2>1, KeptOrReplaced DEF AllInv
  <2> QED
    BY <1>2, <2>2 DEF AllInv, PoolInv, WorkerInv, InEnd, Ends
<1>3. AllInv => EndKillsProcess
  BY <1>1, <1>2 DEF EndKillsProcess, ServerLast
<1> QED
  BY <1>3, PoolInvariant, PTL

\* The workers of an open pool, its kinds and its schedulers.
LEMMA OpenPool ==
  ASSUME PoolInv, step = "open"
  PROVE  /\ \A w \in Workers : attached[w] /\ w \in snapshot \cap container /\ held[w] = Fields
         /\ Scheduled = {groups[g].runtime : g \in DOMAIN groups}
         /\ (\A w \in Workers : Kept(w)) <=>
              \A g, h \in DOMAIN groups : groups[g].runtime = groups[h].runtime => g = h
<1> USE DEF PoolInv
<1>1. Done = DOMAIN groups
  BY DEF Done, Begins
<1>2. IsConfiguration(groups)
  BY PoolAssumption DEF PoolAssumption, PoolTypeOK
<1>3. \A g \in DOMAIN groups :
        /\ groups[g].runtime \in Runtimes /\ groups[g].runtime \in Scheduled
        /\ groups[g].workers \in Seq(Workers) /\ Len(groups[g].workers) \in Nat \ {0}
        /\ DOMAIN groups[g].workers = 1 .. Len(groups[g].workers)
  BY <1>1, GroupsHave DEF Opens, Scheduled
<1>4. \A r \in Scheduled : \E g \in DOMAIN groups :
        groups[g].runtime = r /\ groups[g].workers = schedulers[r]
  BY <1>1 DEF Opens
<1>5. ASSUME NEW w \in Workers
      PROVE  attached[w] /\ w \in snapshot \cap container /\ held[w] = Fields
  <2>1. Good(w)
    BY <1>1, <1>2 DEF Opens, IsConfiguration, Size
  <2> QED
    BY <2>1 DEF Good, WorkerInv, InStart
<1>6. Scheduled = {groups[g].runtime : g \in DOMAIN groups}
  BY <1>3, <1>4
<1>7. ASSUME \A w \in Workers : Kept(w),
             NEW g \in DOMAIN groups, NEW h \in DOMAIN groups,
             groups[g].runtime = groups[h].runtime, g # h
      PROVE  FALSE
  <2>1. ASSUME NEW k \in DOMAIN groups
        PROVE  schedulers[groups[k].runtime] = groups[k].workers
    <3>1. groups[k].workers[1] \in Workers /\ 1 \in 1 .. Size(groups[k])
      BY <1>3 DEF Size
    <3>2. PICK r \in Scheduled : \E i \in DOMAIN schedulers[r] : schedulers[r][i] = groups[k].workers[1]
      BY <1>7, <3>1 DEF Kept
    <3>3. PICK m \in DOMAIN groups : groups[m].runtime = r /\ groups[m].workers = schedulers[r]
      BY <1>4, <3>2
    <3>4. PICK i \in 1 .. Size(groups[m]) : groups[m].workers[i] = groups[k].workers[1]
      BY <1>3, <3>2, <3>3 DEF Size
    <3>5. m = k
      BY <1>2, <3>1, <3>4 DEF IsConfiguration
    <3> QED
      BY <3>3, <3>5
  <2>2. groups[g].workers[1] = groups[h].workers[1]
    BY <1>7, <2>1
  <2> QED
    BY <1>2, <1>3, <1>7, <2>2 DEF IsConfiguration, Size
<1>8. ASSUME \A g, h \in DOMAIN groups : groups[g].runtime = groups[h].runtime => g = h,
             NEW w \in Workers
      PROVE  Kept(w)
  <2>1. PICK g \in DOMAIN groups : \E i \in 1 .. Size(groups[g]) : groups[g].workers[i] = w
    BY <1>2 DEF IsConfiguration
  <2>2. PICK h \in DOMAIN groups :
          groups[h].runtime = groups[g].runtime /\ groups[h].workers = schedulers[groups[g].runtime]
    BY <1>3, <1>4
  <2>3. g = h
    BY <1>8, <2>2
  <2> QED
    BY <1>3, <2>1, <2>2, <2>3 DEF Kept, Size
<1> QED
  BY <1>5, <1>6, <1>7, <1>8

\* A pool that opens has every worker, under control, and a scheduler for each
\* kind that a group is for (workerpool.go:99, :103, :108, :150).
THEOREM PoolOpensComplete == AllSpec => []OpensComplete
<1>1. ASSUME AllInv PROVE OpensComplete
  <2>1. PoolInv
    BY <1>1 DEF AllInv
  <2>2. TypeOK
    BY <2>1 DEF PoolInv, WorkerInv, PoolTypeOK, TypeOK
  <2>3. ASSUME step = "open", NEW k \in Kinds
        PROVE  MayRun(k) = {groups[g].runtime : g \in DOMAIN groups} \cap Contained[k]
    <3>1. Scheduled = {groups[g].runtime : g \in DOMAIN groups}
      BY <2>1, <2>3, OpenPool
    <3> QED
      BY <3>1, Zenon DEF MayRun
  <2> QED
    BY <2>1, <2>2, <2>3, OpenPool DEF OpensComplete
<1> QED
  BY <1>1, PoolInvariant, PTL

\* A pool that closed left nothing behind of the workers of its schedulers, in
\* containerd or beside it, when no process ended by itself and what was removed
\* went (workerpool.go:160, worker.go:316).
THEOREM ClosedPoolIsGone == AllSpec => []ClosedIsGone
<1>1. ASSUME AllInv, scenario = "living", step = "closed"
      PROVE  /\ ~runDir /\ server = "down" /\ client = "closed"
             /\ \A w \in Workers : Kept(w) =>
                  /\ w \notin snapshot \cup container
                  /\ task[w] = "none" /\ "streams" \notin held[w]
  BY <1>1 DEF AllInv, PoolInv, WorkerInv, WorkerTypeOK, FortunateInv, Lasts,
     At, Ends
<1>2. AllInv => ClosedIsGone
  BY <1>1, KeptOrReplaced DEF AllInv, Begins, ClosedIsGone, NothingLeft
<1> QED
  BY <1>2, PoolInvariant, PTL

=============================================================================
