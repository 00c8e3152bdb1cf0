-------------------------- MODULE SchedulerProofs --------------------------
(***************************************************************************)
(* Theorems about Scheduler, for every pool size, every set of functions   *)
(* and of calls, and every choice of faults: what its lists and its        *)
(* workers hold, that no worker is forgotten or left deployed for ever,    *)
(* and that it implements the leases of WorkerLease.                       *)
(***************************************************************************)
EXTENDS SchedulerRefinement, ListLemmas

----------------------------------------------------------------------------
(* Type correctness *)

LEMMA TypeInit == Init => TypeOK
<1> SUFFICES ASSUME Init PROVE TypeOK
  OBVIOUS
<1>1. undeployed \in Seq(Workers)
  BY ConstantsAssumption DEF Init, Workers
<1>2. deployed \in Seq(Workers) /\ running \in Seq(Workers)
  BY DEF Init
<1> QED BY <1>1, <1>2 DEF Init, TypeOK

LEMMA TypeNext == TypeOK /\ [Next]_vars => TypeOK'
<1> SUFFICES ASSUME TypeOK, [Next]_vars PROVE TypeOK'
  OBVIOUS
<1> USE DEF Goto, TimerGoto, lists, workers, procs, locals
<1>1. ASSUME NEW c \in Calls, NEW f \in Functions, Run(c, f) PROVE TypeOK'
  BY <1>1 DEF Run, TypeOK
<1>2. ASSUME NEW c \in Calls, RunDeployedFunction(c) PROVE TypeOK'
  <2>1. PICK i \in DOMAIN deployed :
          /\ deployed' = RemoveAt(deployed, i)
          /\ running' = Append(running, deployed[i])
          /\ at' = [at EXCEPT ![c] = deployed[i]]
    BY <1>2 DEF RunDeployedFunction
  <2>2. deployed \in Seq(Workers) /\ running \in Seq(Workers)
    BY DEF TypeOK
  <2>3. deployed[i] \in Workers
    BY <2>2, EntryInSet
  <2>4. deployed' \in Seq(Workers) /\ running' \in Seq(Workers)
    BY <2>1, <2>2, <2>3, RemoveAtShape
  <2> QED BY <1>2, <2>1, <2>3, <2>4 DEF RunDeployedFunction, TypeOK
<1>3. ASSUME NEW c \in Calls, NotDeployed(c) PROVE TypeOK'
  BY <1>3 DEF NotDeployed, TypeOK
<1>4. ASSUME NEW c \in Calls, RunUndeployed(c) PROVE TypeOK'
  <2>1. Head(undeployed) \in Workers /\ undeployed' \in Seq(Workers)
    BY <1>4 DEF RunUndeployed, TypeOK
  <2>2. running' \in Seq(Workers)
    BY <1>4, <2>1 DEF RunUndeployed, TypeOK
  <2> QED BY <1>4, <2>1, <2>2 DEF RunUndeployed, TypeOK
<1>5. ASSUME NEW c \in Calls, NoUndeployed(c) PROVE TypeOK'
  BY <1>5 DEF NoUndeployed, TypeOK
<1>6. ASSUME NEW c \in Calls, CodeStringError(c) PROVE TypeOK'
  BY <1>6 DEF CodeStringError, TypeOK
<1>7. ASSUME NEW c \in Calls, SendFunction(c) PROVE TypeOK'
  BY <1>7 DEF SendFunction, TypeOK
<1>8. ASSUME NEW c \in Calls, AwaitNotLoaded(c) PROVE TypeOK'
  BY <1>8 DEF AwaitNotLoaded, TypeOK
<1>9. ASSUME NEW c \in Calls, MarkRunTime(c) PROVE TypeOK'
  BY <1>9 DEF MarkRunTime, TypeOK
<1>10. ASSUME NEW c \in Calls, SendRequest(c) PROVE TypeOK'
  BY <1>10 DEF SendRequest, TypeOK
<1>11. ASSUME NEW c \in Calls, AwaitNoResponse(c) PROVE TypeOK'
  <2>1. process' \in [Workers -> {"up", "dead", "closed"}]
    BY <1>11 DEF AwaitNoResponse, TypeOK
  <2>2. /\ pc[c] = "request"
        /\ pc' = [pc EXCEPT ![c] = "hung"]
        /\ UNCHANGED <<lists, workers, loaded, locals, timer>>
    BY <1>11 DEF AwaitNoResponse
  <2> QED BY <2>1, <2>2 DEF TypeOK
<1>12. ASSUME NEW c \in Calls, SetFunction(c) PROVE TypeOK'
  BY <1>12 DEF SetFunction, TypeOK
<1>13. ASSUME NEW c \in Calls, RunComplete(c) PROVE TypeOK'
  <2>1. PICK i \in DOMAIN running : running' = RemoveAt(running, i)
    BY <1>13 DEF RunComplete
  <2>2. running' \in Seq(Workers)
    BY <2>1, RemoveAtShape DEF TypeOK
  <2>3. deployed' \in Seq(Workers)
    BY <1>13 DEF RunComplete, TypeOK
  <2> QED BY <1>13, <2>2, <2>3 DEF RunComplete, TypeOK
<1>14. ASSUME NEW c \in Calls, ScheduleDecommission(c) PROVE TypeOK'
  BY <1>14 DEF ScheduleDecommission, TypeOK
<1>15. ASSUME NEW c \in Calls, ForceDecomission(c) PROVE TypeOK'
  <2>1. Head(deployed) \in Workers /\ deployed' \in Seq(Workers)
    BY <1>15 DEF ForceDecomission, TypeOK
  <2> QED BY <1>15, <2>1 DEF ForceDecomission, TypeOK
<1>16. ASSUME NEW c \in Calls, ForceRestore(c) PROVE TypeOK'
  BY <1>16 DEF ForceRestore, DecomissionOK, DecomissionError, TypeOK
<1>17. ASSUME NEW c \in Calls, ForceReturn(c) PROVE TypeOK'
  BY <1>17 DEF ForceReturn, TypeOK
<1>18. ASSUME NEW c \in Calls, TimerExpired(c) PROVE TypeOK'
  BY <1>18 DEF TimerExpired, TypeOK
<1>19. ASSUME NEW c \in Calls, TimerDecommission(c) PROVE TypeOK'
  <2>1. deployed' \in Seq(Workers)
    BY <1>19, RemoveAtShape DEF TimerDecommission, TypeOK
  <2> QED BY <1>19, <2>1 DEF TimerDecommission, TypeOK
<1>20. ASSUME NEW c \in Calls, TimerStillRunning(c) PROVE TypeOK'
  BY <1>20 DEF TimerStillRunning, TypeOK
<1>21. ASSUME NEW c \in Calls, TimerEvicted(c) PROVE TypeOK'
  BY <1>21 DEF TimerEvicted, TypeOK
<1>22. ASSUME NEW c \in Calls, TimerRestore(c) PROVE TypeOK'
  BY <1>22 DEF TimerRestore, DecomissionOK, DecomissionError, TypeOK
<1>23. ASSUME NEW c \in Calls, TimerReturn(c) PROVE TypeOK'
  BY <1>23 DEF TimerReturn, TypeOK
<1>24. ASSUME NEW w \in Workers, Age(w) PROVE TypeOK'
  BY <1>24 DEF Age, TypeOK
<1>25. ASSUME NEW w \in Workers, End(w) PROVE TypeOK'
  BY <1>25 DEF End, TypeOK
<1>26. CASE Quiescent \/ UNCHANGED vars
  BY <1>26 DEF Quiescent, vars, TypeOK
<1> QED
  BY <1>1, <1>2, <1>3, <1>4, <1>5, <1>6, <1>7, <1>8, <1>9, <1>10, <1>11,
     <1>12, <1>13, <1>14, <1>15, <1>16, <1>17, <1>18, <1>19, <1>20, <1>21,
     <1>22, <1>23, <1>24, <1>25, <1>26
     DEF Next, CallStep, TimerStep

\* Every variable keeps its type; in particular a thread that has passed the
\* point where it chose a worker always has the name of a worker in hand.
THEOREM TypeCorrect == Spec => []TypeOK
BY TypeInit, TypeNext, PTL DEF Spec

----------------------------------------------------------------------------
(* Exclusive use of the workers *)

\* The state of one thread's hold on a worker, before and after a step.
SameHold(c) ==
  /\ at'[c] = at[c]
  /\ CallServes(c)' => CallServes(c)
  /\ CallRestores(c)' => CallRestores(c)
  /\ TimerRestores(c)' => TimerRestores(c)

LEMMA ExclusiveInit == Init => ExclusiveWorker
<1> SUFFICES ASSUME Init PROVE ExclusiveWorker
  OBVIOUS
<1> USE DEF Init
<1>1. ListsDisjoint
  BY ConstantsAssumption DEF ListsDisjoint, IsInjective, ToSet
<1>2. \A c \in Calls : ~ Holds(c)
  BY DEF Holds, CallServes, CallRestores, TimerRestores
<1> QED
  BY <1>1, <1>2
     DEF ExclusiveWorker, ServingIsRunning, RestoringIsUnlisted, OneHolder,
         Holds

\* A worker in undeployed or deployed is in no thread's hands.
LEMMA ListedIsFree ==
  ASSUME ExclusiveWorker,
         NEW w \in ToSet(undeployed) \cup ToSet(deployed),
         NEW c \in Calls, Holds(c)
  PROVE  at[c] # w
BY DEF ExclusiveWorker, ListsDisjoint, ServingIsRunning, RestoringIsUnlisted,
       Holds, Listed

\* A step that moves no worker and lets no thread take one keeps exclusion.
LEMMA ExclusiveFrame ==
  ASSUME ExclusiveWorker, UNCHANGED lists, \A c \in Calls : SameHold(c)
  PROVE  ExclusiveWorker'
<1>1. ListsDisjoint'
  BY DEF ExclusiveWorker, ListsDisjoint, lists
<1>2. ServingIsRunning'
  BY DEF ExclusiveWorker, ServingIsRunning, SameHold, lists
<1>3. RestoringIsUnlisted'
  BY DEF ExclusiveWorker, RestoringIsUnlisted, SameHold, lists, Listed
<1>4. OneHolder'
  BY DEF ExclusiveWorker, OneHolder, SameHold, Holds
<1> QED BY <1>1, <1>2, <1>3, <1>4 DEF ExclusiveWorker

\* A thread of slot c takes worker w out of undeployed or deployed: to serve,
\* then w goes to running; or to restore it, then it goes to no list.
LEMMA ExclusiveTake ==
  ASSUME ExclusiveWorker, ListsDisjoint',
         NEW c \in Calls,
         NEW w \in ToSet(undeployed) \cup ToSet(deployed),
         at'[c] = w,
         \A d \in Calls \ {c} : SameHold(d),
         \/ /\ ~ CallRestores(c)' /\ ~ TimerRestores(c)'
            /\ ToSet(running') = ToSet(running) \cup {w}
            /\ Listed' = Listed
         \/ /\ ~ CallServes(c)'
            /\ ToSet(running') = ToSet(running)
            /\ Listed' = Listed \ {w}
  PROVE  ExclusiveWorker'
<1>1. ServingIsRunning'
  BY DEF ExclusiveWorker, ServingIsRunning, SameHold
<1>2. RestoringIsUnlisted'
  BY DEF ExclusiveWorker, RestoringIsUnlisted, SameHold
<1>3. \A d \in Calls \ {c} : Holds(d)' => Holds(d) /\ at'[d] = at[d]
  BY DEF SameHold, Holds
<1>4. OneHolder'
  BY <1>3, ListedIsFree DEF ExclusiveWorker, OneHolder
<1> QED BY <1>1, <1>2, <1>4 DEF ExclusiveWorker

\* The thread of slot c that holds a worker lets go of it.
LEMMA ExclusiveGive ==
  ASSUME ExclusiveWorker, ListsDisjoint',
         NEW c \in Calls, Holds(c), ~ Holds(c)',
         at' = at,
         \A d \in Calls \ {c} : SameHold(d),
         ToSet(running) \ {at[c]} \subseteq ToSet(running'),
         Listed' \subseteq Listed \cup {at[c]}
  PROVE  ExclusiveWorker'
<1>1. \A d \in Calls \ {c} : Holds(d)' => Holds(d) /\ at[d] # at[c]
  BY DEF SameHold, Holds, ExclusiveWorker, OneHolder
<1>2. ServingIsRunning'
  BY <1>1 DEF ExclusiveWorker, ServingIsRunning, SameHold, Holds
<1>3. RestoringIsUnlisted'
  BY <1>1 DEF ExclusiveWorker, RestoringIsUnlisted, SameHold, Holds
<1>4. OneHolder'
  BY <1>1 DEF ExclusiveWorker, OneHolder
<1> QED BY <1>2, <1>3, <1>4 DEF ExclusiveWorker

LEMMA ExclusiveNext ==
  TypeOK /\ ExclusiveWorker /\ [Next]_vars => ExclusiveWorker'
<1> SUFFICES ASSUME TypeOK, ExclusiveWorker, [Next]_vars
             PROVE  ExclusiveWorker'
  OBVIOUS
<1> USE DEF Goto, TimerGoto
<1>T. /\ undeployed \in Seq(Workers) /\ deployed \in Seq(Workers)
      /\ running \in Seq(Workers)
      /\ pc \in [Calls -> {"idle", "lookup", "claim", "load", "mark",
                           "request", "set", "complete", "schedule", "evict",
                           "restore", "return", "hung", "done"}]
      /\ at \in [Calls -> Workers \cup {PoolSize}]
      /\ timer \in [Calls -> {"none", "sleep", "expired", "restoring",
                              "returning", "gone"}]
      /\ \A c \in Calls : timer[c] # "none" => pc[c] = "done"
  BY DEF TypeOK
<1>L. /\ IsInjective(undeployed) /\ IsInjective(deployed)
      /\ IsInjective(running)
      /\ ToSet(undeployed) \cap ToSet(deployed) = {}
      /\ ToSet(undeployed) \cap ToSet(running) = {}
      /\ ToSet(deployed) \cap ToSet(running) = {}
  BY DEF ExclusiveWorker, ListsDisjoint
<1>1. ASSUME NEW c \in Calls, NEW f \in Functions, Run(c, f)
      PROVE  ExclusiveWorker'
  <2>1. UNCHANGED lists /\ \A d \in Calls : SameHold(d)
    BY <1>1, <1>T
       DEF Run, SameHold, CallServes, CallRestores,
           TimerRestores, locals
  <2> QED BY <2>1, ExclusiveFrame
<1>2. ASSUME NEW c \in Calls, NotDeployed(c) PROVE ExclusiveWorker'
  <2>1. UNCHANGED lists /\ \A d \in Calls : SameHold(d)
    BY <1>2, <1>T
       DEF NotDeployed, SameHold, CallServes, CallRestores,
           TimerRestores, locals
  <2> QED BY <2>1, ExclusiveFrame
<1>3. ASSUME NEW c \in Calls, NoUndeployed(c) PROVE ExclusiveWorker'
  <2>1. UNCHANGED lists /\ \A d \in Calls : SameHold(d)
    BY <1>3, <1>T
       DEF NoUndeployed, SameHold, CallServes, CallRestores,
           TimerRestores, locals
  <2> QED BY <2>1, ExclusiveFrame
<1>4. ASSUME NEW c \in Calls, CodeStringError(c) PROVE ExclusiveWorker'
  <2>1. UNCHANGED lists /\ \A d \in Calls : SameHold(d)
    BY <1>4, <1>T
       DEF CodeStringError, SameHold, CallServes, CallRestores,
           TimerRestores, locals
  <2> QED BY <2>1, ExclusiveFrame
<1>5. ASSUME NEW c \in Calls, SendFunction(c) PROVE ExclusiveWorker'
  <2>1. UNCHANGED lists /\ \A d \in Calls : SameHold(d)
    BY <1>5, <1>T
       DEF SendFunction, SameHold, CallServes, CallRestores,
           TimerRestores, locals
  <2> QED BY <2>1, ExclusiveFrame
<1>6. ASSUME NEW c \in Calls, AwaitNotLoaded(c) PROVE ExclusiveWorker'
  <2>1. UNCHANGED lists /\ \A d \in Calls : SameHold(d)
    BY <1>6, <1>T
       DEF AwaitNotLoaded, SameHold, CallServes, CallRestores,
           TimerRestores, locals
  <2> QED BY <2>1, ExclusiveFrame
<1>7. ASSUME NEW c \in Calls, MarkRunTime(c) PROVE ExclusiveWorker'
  <2>1. UNCHANGED lists /\ \A d \in Calls : SameHold(d)
    BY <1>7, <1>T
       DEF MarkRunTime, SameHold, CallServes, CallRestores,
           TimerRestores, locals
  <2> QED BY <2>1, ExclusiveFrame
<1>8. ASSUME NEW c \in Calls, SendRequest(c) PROVE ExclusiveWorker'
  <2>1. UNCHANGED lists /\ \A d \in Calls : SameHold(d)
    BY <1>8, <1>T
       DEF SendRequest, SameHold, CallServes, CallRestores,
           TimerRestores, locals
  <2> QED BY <2>1, ExclusiveFrame
<1>9. ASSUME NEW c \in Calls, AwaitNoResponse(c) PROVE ExclusiveWorker'
  <2>1. UNCHANGED lists /\ \A d \in Calls : SameHold(d)
    BY <1>9, <1>T
       DEF AwaitNoResponse, SameHold, CallServes, CallRestores,
           TimerRestores, locals
  <2> QED BY <2>1, ExclusiveFrame
<1>10. ASSUME NEW c \in Calls, SetFunction(c) PROVE ExclusiveWorker'
  <2>1. UNCHANGED lists /\ \A d \in Calls : SameHold(d)
    BY <1>10, <1>T
       DEF SetFunction, SameHold, CallServes, CallRestores,
           TimerRestores, locals
  <2> QED BY <2>1, ExclusiveFrame
<1>11. ASSUME NEW c \in Calls, ScheduleDecommission(c) PROVE ExclusiveWorker'
  <2>1. UNCHANGED lists /\ \A d \in Calls : SameHold(d)
    BY <1>11, <1>T
       DEF ScheduleDecommission, SameHold, CallServes, CallRestores,
           TimerRestores, locals
  <2> QED BY <2>1, ExclusiveFrame
<1>12. ASSUME NEW c \in Calls, ForceRestore(c) PROVE ExclusiveWorker'
  <2>1. UNCHANGED lists /\ \A d \in Calls : SameHold(d)
    BY <1>12, <1>T
       DEF ForceRestore, DecomissionOK, DecomissionError, SameHold,
           CallServes, CallRestores, TimerRestores, locals
  <2> QED BY <2>1, ExclusiveFrame
<1>13. ASSUME NEW c \in Calls, TimerExpired(c) PROVE ExclusiveWorker'
  <2>1. UNCHANGED lists /\ \A d \in Calls : SameHold(d)
    BY <1>13, <1>T
       DEF TimerExpired, SameHold, CallServes, CallRestores,
           TimerRestores, locals
  <2> QED BY <2>1, ExclusiveFrame
<1>14. ASSUME NEW c \in Calls, TimerStillRunning(c) PROVE ExclusiveWorker'
  <2>1. UNCHANGED lists /\ \A d \in Calls : SameHold(d)
    BY <1>14, <1>T
       DEF TimerStillRunning, SameHold, CallServes, CallRestores,
           TimerRestores, locals
  <2> QED BY <2>1, ExclusiveFrame
<1>15. ASSUME NEW c \in Calls, TimerEvicted(c) PROVE ExclusiveWorker'
  <2>1. UNCHANGED lists /\ \A d \in Calls : SameHold(d)
    BY <1>15, <1>T
       DEF TimerEvicted, SameHold, CallServes, CallRestores,
           TimerRestores, locals
  <2> QED BY <2>1, ExclusiveFrame
<1>16. ASSUME NEW c \in Calls, TimerRestore(c) PROVE ExclusiveWorker'
  <2>1. UNCHANGED lists /\ \A d \in Calls : SameHold(d)
    BY <1>16, <1>T
       DEF TimerRestore, DecomissionOK, DecomissionError, SameHold,
           CallServes, CallRestores, TimerRestores, locals
  <2> QED BY <2>1, ExclusiveFrame
<1>17. ASSUME NEW c \in Calls, RunDeployedFunction(c) PROVE ExclusiveWorker'
  <2>1. PICK i \in DOMAIN deployed :
          /\ deployed' = RemoveAt(deployed, i)
          /\ running' = Append(running, deployed[i])
          /\ at' = [at EXCEPT ![c] = deployed[i]]
    BY <1>17 DEF RunDeployedFunction
  <2> DEFINE w == deployed[i]
  <2>2. w \in Workers /\ w \in ToSet(deployed)
    BY <1>T, EntryInSet
  <2>3. /\ IsInjective(deployed') /\ ToSet(deployed') = ToSet(deployed) \ {w}
        /\ IsInjective(running') /\ ToSet(running') = ToSet(running) \cup {w}
        /\ undeployed' = undeployed
    BY <1>17, <1>T, <1>L, <2>1, <2>2, RemoveAtSet, AppendSet
       DEF RunDeployedFunction
  <2>4. ListsDisjoint' /\ Listed' = Listed
    BY <1>L, <2>2, <2>3 DEF ListsDisjoint, Listed
  <2>5. /\ at'[c] = w /\ ~ CallRestores(c)' /\ ~ TimerRestores(c)'
        /\ \A d \in Calls \ {c} : SameHold(d)
    BY <1>17, <1>T, <2>1
       DEF RunDeployedFunction, SameHold, CallServes, CallRestores,
           TimerRestores
  <2> QED BY <2>2, <2>3, <2>4, <2>5, ExclusiveTake
<1>18. ASSUME NEW c \in Calls, RunUndeployed(c) PROVE ExclusiveWorker'
  <2> DEFINE w == Head(undeployed)
  <2>1. /\ undeployed # << >> /\ undeployed' = Tail(undeployed)
        /\ running' = Append(running, w) /\ deployed' = deployed
        /\ at' = [at EXCEPT ![c] = w]
    BY <1>18 DEF RunUndeployed
  <2>2. /\ w \in Workers /\ w \in ToSet(undeployed)
        /\ IsInjective(undeployed')
        /\ ToSet(undeployed') = ToSet(undeployed) \ {w}
    BY <1>T, <1>L, <2>1, TailSet
  <2>3. IsInjective(running') /\ ToSet(running') = ToSet(running) \cup {w}
    BY <1>T, <1>L, <2>1, <2>2, AppendSet
  <2>4. ListsDisjoint' /\ Listed' = Listed
    BY <1>L, <2>1, <2>2, <2>3 DEF ListsDisjoint, Listed
  <2>5. /\ at'[c] = w /\ ~ CallRestores(c)' /\ ~ TimerRestores(c)'
        /\ \A d \in Calls \ {c} : SameHold(d)
    BY <1>18, <1>T, <2>1
       DEF RunUndeployed, SameHold, CallServes, CallRestores, TimerRestores
  <2> QED BY <2>2, <2>3, <2>4, <2>5, ExclusiveTake
<1>19. ASSUME NEW c \in Calls, ForceDecomission(c) PROVE ExclusiveWorker'
  <2> DEFINE w == Head(deployed)
  <2>1. /\ deployed # << >> /\ deployed' = Tail(deployed)
        /\ undeployed' = undeployed /\ running' = running
        /\ at' = [at EXCEPT ![c] = w]
    BY <1>19 DEF ForceDecomission
  <2>2. /\ w \in Workers /\ w \in ToSet(deployed)
        /\ IsInjective(deployed') /\ ToSet(deployed') = ToSet(deployed) \ {w}
    BY <1>T, <1>L, <2>1, TailSet
  <2>3. ListsDisjoint' /\ Listed' = Listed \ {w}
    BY <1>L, <2>1, <2>2 DEF ListsDisjoint, Listed
  <2>4. /\ at'[c] = w /\ ~ CallServes(c)'
        /\ \A d \in Calls \ {c} : SameHold(d)
    BY <1>19, <1>T, <2>1
       DEF ForceDecomission, SameHold, CallServes, CallRestores, TimerRestores
  <2> QED BY <2>1, <2>2, <2>3, <2>4, ExclusiveTake
<1>20. ASSUME NEW c \in Calls, TimerDecommission(c) PROVE ExclusiveWorker'
  <2>1. PICK i \in DOMAIN deployed :
          deployed[i] = at[c] /\ deployed' = RemoveAt(deployed, i)
    BY <1>20 DEF TimerDecommission, Finds
  <2> DEFINE w == deployed[i]
  <2>2. w \in Workers /\ w \in ToSet(deployed)
    BY <1>T, EntryInSet
  <2>3. /\ IsInjective(deployed') /\ ToSet(deployed') = ToSet(deployed) \ {w}
        /\ undeployed' = undeployed /\ running' = running
    BY <1>20, <1>T, <1>L, <2>1, RemoveAtSet DEF TimerDecommission
  <2>4. ListsDisjoint' /\ Listed' = Listed \ {w}
    BY <1>L, <2>2, <2>3 DEF ListsDisjoint, Listed
  <2>5. /\ at'[c] = w /\ ~ CallServes(c)'
        /\ \A d \in Calls \ {c} : SameHold(d)
    BY <1>20, <1>T, <2>1
       DEF TimerDecommission, SameHold, CallServes, CallRestores,
           TimerRestores, locals
  <2> QED BY <2>2, <2>3, <2>4, <2>5, ExclusiveTake
<1>21. ASSUME NEW c \in Calls, RunComplete(c) PROVE ExclusiveWorker'
  <2> DEFINE w == at[c]
  <2>1. Holds(c) /\ w \in ToSet(running)
    BY <1>21
       DEF RunComplete, Holds, CallServes, ExclusiveWorker, ServingIsRunning
  <2>2. PICK i \in DOMAIN running :
          running[i] = w /\ running' = RemoveAt(running, i)
    BY <1>21, <2>1 DEF RunComplete, Finds
  <2>3. w \in Workers
    BY <1>T, <2>2, EntryInSet
  <2>4. /\ IsInjective(running') /\ ToSet(running') = ToSet(running) \ {w}
        /\ undeployed' = undeployed
    BY <1>21, <1>T, <1>L, <2>2, RemoveAtSet DEF RunComplete
  <2>5. /\ IsInjective(deployed')
        /\ ToSet(deployed') = ToSet(deployed) \cup {w}
    BY <1>21, <1>T, <1>L, <2>1, <2>3, AppendSet DEF RunComplete
  <2>6. ListsDisjoint' /\ Listed' = Listed
    BY <1>L, <2>1, <2>4, <2>5 DEF ListsDisjoint, Listed
  <2>7. /\ at' = at /\ ~ Holds(c)' /\ \A d \in Calls \ {c} : SameHold(d)
    BY <1>21, <1>T
       DEF RunComplete, SameHold, Holds, CallServes, CallRestores,
           TimerRestores, locals
  <2> QED BY <2>1, <2>4, <2>6, <2>7, ExclusiveGive
<1>22. ASSUME NEW c \in Calls, ForceReturn(c) PROVE ExclusiveWorker'
  <2> DEFINE w == at[c]
  <2>1. Holds(c) /\ w \notin Listed
    BY <1>22
       DEF ForceReturn, Holds, CallRestores, TimerRestores, ExclusiveWorker,
           RestoringIsUnlisted
  <2>2. w \in Workers
    BY <1>22 DEF ForceReturn, TypeOK
  <2>3. /\ IsInjective(undeployed')
        /\ ToSet(undeployed') = ToSet(undeployed) \cup {w}
        /\ deployed' = deployed /\ running' = running
    BY <1>22, <1>T, <1>L, <2>1, <2>2, AppendSet DEF ForceReturn, Listed
  <2>4. ListsDisjoint' /\ Listed' = Listed \cup {w}
    BY <1>L, <2>1, <2>3 DEF ListsDisjoint, Listed
  <2>5. /\ at' = at /\ ~ Holds(c)' /\ \A d \in Calls \ {c} : SameHold(d)
    BY <1>22, <1>T
       DEF ForceReturn, SameHold, Holds, CallServes, CallRestores,
           TimerRestores, locals
  <2> QED BY <2>1, <2>3, <2>4, <2>5, ExclusiveGive
<1>23. ASSUME NEW c \in Calls, TimerReturn(c) PROVE ExclusiveWorker'
  <2> DEFINE w == at[c]
  <2>1. Holds(c) /\ w \notin Listed
    BY <1>23
       DEF TimerReturn, Holds, CallRestores, TimerRestores, ExclusiveWorker,
           RestoringIsUnlisted
  <2>2. w \in Workers
    BY <1>23 DEF TimerReturn, TypeOK
  <2>3. /\ IsInjective(undeployed')
        /\ ToSet(undeployed') = ToSet(undeployed) \cup {w}
        /\ deployed' = deployed /\ running' = running
    BY <1>23, <1>T, <1>L, <2>1, <2>2, AppendSet DEF TimerReturn, Listed
  <2>4. ListsDisjoint' /\ Listed' = Listed \cup {w}
    BY <1>L, <2>1, <2>3 DEF ListsDisjoint, Listed
  <2>5. /\ at' = at /\ ~ Holds(c)' /\ \A d \in Calls \ {c} : SameHold(d)
    BY <1>23, <1>T
       DEF TimerReturn, SameHold, Holds, CallServes, CallRestores,
           TimerRestores, locals
  <2> QED BY <2>1, <2>3, <2>4, <2>5, ExclusiveGive
<1>24. CASE \/ \E w \in Workers : Age(w) \/ End(w)
          \/ Quiescent \/ UNCHANGED vars
  <2>1. UNCHANGED lists /\ \A d \in Calls : SameHold(d)
    BY <1>24
       DEF Age, End, Quiescent, vars, SameHold, CallServes, CallRestores,
           TimerRestores, locals
  <2> QED BY <2>1, ExclusiveFrame
<1> QED
  BY <1>1, <1>2, <1>3, <1>4, <1>5, <1>6, <1>7, <1>8, <1>9, <1>10, <1>11,
     <1>12, <1>13, <1>14, <1>15, <1>16, <1>17, <1>18, <1>19, <1>20, <1>21,
     <1>22, <1>23, <1>24
     DEF Next, CallStep, TimerStep

\* No worker is ever used by two threads, whatever the interleaving and
\* whatever fails: the three lists and the mutex are enough, although the
\* threads that own a worker hold no lock on it.  ExclusiveWorker is inductive
\* relative to TypeOK.
THEOREM Exclusive == Spec => []ExclusiveWorker
BY TypeCorrect, ExclusiveInit, ExclusiveNext, PTL DEF Spec

----------------------------------------------------------------------------
(* What the processes hold, and who answers *)

\* Unless its streams are closed, the process of w waits for a function.
Clean(w) == process[w] # "closed" => process[w] = "up" /\ loaded[w] = None

\* Unless its streams are closed, the process of w serves f.
Serves(w, f) == process[w] # "closed" => process[w] = "up" /\ loaded[w] = f

\* What a call knows of its worker's process at each point of Run, and what
\* its decommission goroutine knows after the restore.
CallContents(c) ==
  /\ pc[c] = "load" => cold[c]
  /\ pc[c] \in {"load", "return"} => Clean(at[c])
  /\ pc[c] \in {"mark", "request"} /\ cold[c] =>
       Clean(at[c]) \/ Serves(at[c], fn[c])
  /\ pc[c] \in {"mark", "request"} /\ ~ cold[c] =>
       Serves(at[c], fn[c]) /\ function[at[c]] = fn[c]
  /\ pc[c] = "set" => cold[c] /\ Serves(at[c], fn[c])
  /\ pc[c] = "complete" => Serves(at[c], fn[c]) /\ function[at[c]] = fn[c]
  /\ timer[c] = "returning" => Clean(at[c])
  /\ pc[c] # "idle" => fn[c] \in Functions
  /\ pc[c] = "idle" => answer[c] = None
  /\ answer[c] \in {None, fn[c]}

\* The inductive strengthening of ProcessContents and RightFunction.
ContentsInv ==
  /\ \A c \in Calls : CallContents(c)
  /\ \A w \in ToSet(undeployed) : Clean(w)
  /\ \A w \in ToSet(deployed) :
       Serves(w, function[w]) /\ function[w] \in Functions

SameCall(c) ==
  /\ pc'[c] = pc[c] /\ fn'[c] = fn[c] /\ at'[c] = at[c]
  /\ cold'[c] = cold[c] /\ answer'[c] = answer[c] /\ timer'[c] = timer[c]

SameWorker(w) ==
  /\ process'[w] = process[w] /\ loaded'[w] = loaded[w]
  /\ function'[w] = function[w]

LEMMA ContentsInit == Init => ContentsInv
<1> SUFFICES ASSUME Init PROVE ContentsInv
  OBVIOUS
<1>1. \A c \in Calls : CallContents(c)
  BY DEF Init, CallContents
<1>2. ASSUME NEW w \in ToSet(undeployed) PROVE Clean(w)
  <2>1. undeployed \in Seq(Workers)
    BY TypeInit DEF TypeOK
  <2>2. w \in Workers
    BY <1>2, <2>1, EntryInSet DEF ToSet
  <2> QED BY <2>2 DEF Init, Clean
<1>3. ToSet(deployed) = {}
  BY DEF Init, ToSet
<1> QED BY <1>1, <1>2, <1>3 DEF ContentsInv

\* A step of slot c that touches no worker but the one c holds keeps what
\* the other threads and the lists rely on.
LEMMA ContentsStep ==
  ASSUME TypeOK, ExclusiveWorker, ContentsInv,
         NEW c \in Calls,
         \A d \in Calls \ {c} : SameCall(d),
         \A w \in Workers : SameWorker(w) \/ (Holds(c) /\ w = at[c]),
         CallContents(c)',
         \A w \in ToSet(undeployed') : w \in ToSet(undeployed) \/ Clean(w)',
         \A w \in ToSet(deployed') :
           \/ w \in ToSet(deployed)
           \/ (Serves(w, function[w]) /\ function[w] \in Functions)'
  PROVE  ContentsInv'
<1>1. ASSUME NEW d \in Calls \ {c} PROVE CallContents(d)'
  <2>1. CallContents(d) /\ SameCall(d)
    BY DEF ContentsInv
  <2>2. ASSUME Holds(d) PROVE SameWorker(at[d])
    <3>1. at[d] \in Workers
      BY <2>2
         DEF TypeOK, Holds, CallServes, CallRestores, TimerRestores
    <3>2. Holds(c) => at[d] # at[c]
      BY <2>2 DEF ExclusiveWorker, OneHolder
    <3> QED BY <3>1, <3>2
  <2>3. CASE Holds(d)
    BY <2>1, <2>2, <2>3 DEF CallContents, SameCall, SameWorker, Clean, Serves
  <2>4. CASE ~ Holds(d)
    BY <2>1, <2>4
       DEF CallContents, SameCall, Holds, CallServes, CallRestores,
           TimerRestores
  <2> QED BY <2>3, <2>4
<1>2. ASSUME NEW w \in ToSet(undeployed) \cup ToSet(deployed)
      PROVE  SameWorker(w)
  <2>1. w \in Workers
    BY DEF TypeOK, ToSet
  <2> QED BY <2>1, ListedIsFree
<1>3. ASSUME NEW w \in ToSet(undeployed') PROVE Clean(w)'
  BY <1>2, <1>3 DEF ContentsInv, SameWorker, Clean
<1>4. ASSUME NEW w \in ToSet(deployed')
      PROVE  (Serves(w, function[w]) /\ function[w] \in Functions)'
  BY <1>2, <1>4 DEF ContentsInv, SameWorker, Serves
<1> QED BY <1>1, <1>3, <1>4 DEF ContentsInv

LEMMA ContentsNext ==
  TypeOK /\ ExclusiveWorker /\ ContentsInv /\ [Next]_vars => ContentsInv'
<1> SUFFICES ASSUME TypeOK, ExclusiveWorker, ContentsInv, [Next]_vars
             PROVE  ContentsInv'
  OBVIOUS
<1> USE DEF Goto, TimerGoto
<1>T. /\ undeployed \in Seq(Workers) /\ deployed \in Seq(Workers)
      /\ running \in Seq(Workers)
      /\ function \in [Workers -> Functions \cup {None}]
      /\ loaded \in [Workers -> Functions \cup {None}]
      /\ process \in [Workers -> {"up", "dead", "closed"}]
      /\ pc \in [Calls -> {"idle", "lookup", "claim", "load", "mark",
                           "request", "set", "complete", "schedule", "evict",
                           "restore", "return", "hung", "done"}]
      /\ fn \in [Calls -> Functions \cup {None}]
      /\ at \in [Calls -> Workers \cup {PoolSize}]
      /\ cold \in [Calls -> BOOLEAN]
      /\ answer \in [Calls -> Functions \cup {None}]
      /\ timer \in [Calls -> {"none", "sleep", "expired", "restoring",
                              "returning", "gone"}]
      /\ \A c \in Calls :
           /\ timer[c] # "none" => pc[c] = "done"
           /\ \/ pc[c] \in {"load", "mark", "request", "set", "complete",
                            "schedule", "restore", "return", "hung"}
              \/ timer[c] # "none"
              => at[c] \in Workers
  BY DEF TypeOK
<1>C. /\ \A c \in Calls : CallContents(c)
      /\ \A w \in ToSet(undeployed) : Clean(w)
      /\ \A w \in ToSet(deployed) :
           Serves(w, function[w]) /\ function[w] \in Functions
  BY DEF ContentsInv
<1>N. None \notin Functions
  BY ConstantsAssumption
<1>1. ASSUME NEW c \in Calls, NEW f \in Functions, Run(c, f) PROVE ContentsInv'
  <2>1. UNCHANGED <<undeployed, deployed>>
    BY <1>1 DEF Run, lists
  <2>2. \A d \in Calls \ {c} : SameCall(d)
    BY <1>1, <1>T DEF Run, SameCall, locals
  <2>3. \A w \in Workers : SameWorker(w) \/ (Holds(c) /\ w = at[c])
    BY <1>1, <1>T
       DEF Run, SameWorker, Holds, CallServes, CallRestores, TimerRestores,
           workers, procs
  <2>4. CallContents(c)'
    BY <1>1, <1>T, <1>C
       DEF Run, CallContents, Clean, Serves, workers, procs, locals
  <2> QED BY <2>1, <2>2, <2>3, <2>4, ContentsStep
<1>2. ASSUME NEW c \in Calls, NotDeployed(c) PROVE ContentsInv'
  <2>1. UNCHANGED <<undeployed, deployed>>
    BY <1>2 DEF NotDeployed, lists
  <2>2. \A d \in Calls \ {c} : SameCall(d)
    BY <1>2, <1>T DEF NotDeployed, SameCall, locals
  <2>3. \A w \in Workers : SameWorker(w) \/ (Holds(c) /\ w = at[c])
    BY <1>2, <1>T
       DEF NotDeployed, SameWorker, Holds, CallServes, CallRestores,
           TimerRestores, workers, procs
  <2>4. CallContents(c)'
    BY <1>2, <1>T, <1>C
       DEF NotDeployed, CallContents, Clean, Serves, workers, procs, locals
  <2> QED BY <2>1, <2>2, <2>3, <2>4, ContentsStep
<1>3. ASSUME NEW c \in Calls, NoUndeployed(c) PROVE ContentsInv'
  <2>1. UNCHANGED <<undeployed, deployed>>
    BY <1>3 DEF NoUndeployed, lists
  <2>2. \A d \in Calls \ {c} : SameCall(d)
    BY <1>3, <1>T DEF NoUndeployed, SameCall, locals
  <2>3. \A w \in Workers : SameWorker(w) \/ (Holds(c) /\ w = at[c])
    BY <1>3, <1>T
       DEF NoUndeployed, SameWorker, Holds, CallServes, CallRestores,
           TimerRestores, workers, procs
  <2>4. CallContents(c)'
    BY <1>3, <1>T, <1>C
       DEF NoUndeployed, CallContents, Clean, Serves, workers, procs, locals
  <2> QED BY <2>1, <2>2, <2>3, <2>4, ContentsStep
<1>4. ASSUME NEW c \in Calls, CodeStringError(c) PROVE ContentsInv'
  <2>1. UNCHANGED <<undeployed, deployed>>
    BY <1>4 DEF CodeStringError, lists
  <2>2. \A d \in Calls \ {c} : SameCall(d)
    BY <1>4, <1>T DEF CodeStringError, SameCall, locals
  <2>3. \A w \in Workers : SameWorker(w) \/ (Holds(c) /\ w = at[c])
    BY <1>4, <1>T
       DEF CodeStringError, SameWorker, Holds, CallServes, CallRestores,
           TimerRestores, workers, procs
  <2>4. CallContents(c)'
    BY <1>4, <1>T, <1>C
       DEF CodeStringError, CallContents, Clean, Serves, workers, procs,
           locals
  <2> QED BY <2>1, <2>2, <2>3, <2>4, ContentsStep
<1>5. ASSUME NEW c \in Calls, SendFunction(c) PROVE ContentsInv'
  <2>1. UNCHANGED <<undeployed, deployed>>
    BY <1>5 DEF SendFunction, lists
  <2>2. \A d \in Calls \ {c} : SameCall(d)
    BY <1>5, <1>T DEF SendFunction, SameCall, locals
  <2>3. \A w \in Workers : SameWorker(w) \/ (Holds(c) /\ w = at[c])
    BY <1>5, <1>T
       DEF SendFunction, SameWorker, Holds, CallServes, CallRestores,
           TimerRestores, workers, procs
  <2>4. CallContents(c)'
    BY <1>5, <1>T, <1>C
       DEF SendFunction, CallContents, Clean, Serves, workers, procs, locals
  <2> QED BY <2>1, <2>2, <2>3, <2>4, ContentsStep
<1>6. ASSUME NEW c \in Calls, AwaitNotLoaded(c) PROVE ContentsInv'
  <2>1. UNCHANGED <<undeployed, deployed>>
    BY <1>6 DEF AwaitNotLoaded, lists
  <2>2. \A d \in Calls \ {c} : SameCall(d)
    BY <1>6, <1>T DEF AwaitNotLoaded, SameCall, locals
  <2>3. \A w \in Workers : SameWorker(w) \/ (Holds(c) /\ w = at[c])
    BY <1>6, <1>T
       DEF AwaitNotLoaded, SameWorker, Holds, CallServes, CallRestores,
           TimerRestores, workers, procs
  <2>4. CallContents(c)'
    BY <1>6, <1>T, <1>C
       DEF AwaitNotLoaded, CallContents, Clean, Serves, workers, procs,
           locals
  <2> QED BY <2>1, <2>2, <2>3, <2>4, ContentsStep
<1>7. ASSUME NEW c \in Calls, MarkRunTime(c) PROVE ContentsInv'
  <2>1. UNCHANGED <<undeployed, deployed>>
    BY <1>7 DEF MarkRunTime, lists
  <2>2. \A d \in Calls \ {c} : SameCall(d)
    BY <1>7, <1>T DEF MarkRunTime, SameCall, locals
  <2>3. \A w \in Workers : SameWorker(w) \/ (Holds(c) /\ w = at[c])
    BY <1>7, <1>T
       DEF MarkRunTime, SameWorker, Holds, CallServes, CallRestores,
           TimerRestores, workers, procs
  <2>4. CallContents(c)'
    BY <1>7, <1>T, <1>C
       DEF MarkRunTime, CallContents, Clean, Serves, workers, procs, locals
  <2> QED BY <2>1, <2>2, <2>3, <2>4, ContentsStep
<1>8. ASSUME NEW c \in Calls, SendRequest(c) PROVE ContentsInv'
  <2>1. UNCHANGED <<undeployed, deployed>>
    BY <1>8 DEF SendRequest, lists
  <2>2. \A d \in Calls \ {c} : SameCall(d)
    BY <1>8, <1>T DEF SendRequest, SameCall, locals
  <2>3. \A w \in Workers : SameWorker(w) \/ (Holds(c) /\ w = at[c])
    BY <1>8, <1>T
       DEF SendRequest, SameWorker, Holds, CallServes, CallRestores,
           TimerRestores, workers, procs
  <2>4. CallContents(c)'
    BY <1>8, <1>T, <1>C
       DEF SendRequest, CallContents, Clean, Serves, workers, procs, locals
  <2> QED BY <2>1, <2>2, <2>3, <2>4, ContentsStep
<1>9. ASSUME NEW c \in Calls, AwaitNoResponse(c) PROVE ContentsInv'
  <2>1. UNCHANGED <<undeployed, deployed>>
    BY <1>9 DEF AwaitNoResponse, lists
  <2>2. \A d \in Calls \ {c} : SameCall(d)
    BY <1>9, <1>T DEF AwaitNoResponse, SameCall, locals
  <2>3. \A w \in Workers : SameWorker(w) \/ (Holds(c) /\ w = at[c])
    BY <1>9, <1>T
       DEF AwaitNoResponse, SameWorker, Holds, CallServes, CallRestores,
           TimerRestores, workers, procs
  <2>4. CallContents(c)'
    BY <1>9, <1>T, <1>C
       DEF AwaitNoResponse, CallContents, Clean, Serves, workers, procs,
           locals
  <2> QED BY <2>1, <2>2, <2>3, <2>4, ContentsStep
<1>10. ASSUME NEW c \in Calls, SetFunction(c) PROVE ContentsInv'
  <2>1. UNCHANGED <<undeployed, deployed>>
    BY <1>10 DEF SetFunction, lists
  <2>2. \A d \in Calls \ {c} : SameCall(d)
    BY <1>10, <1>T DEF SetFunction, SameCall, locals
  <2>3. \A w \in Workers : SameWorker(w) \/ (Holds(c) /\ w = at[c])
    BY <1>10, <1>T
       DEF SetFunction, SameWorker, Holds, CallServes, CallRestores,
           TimerRestores, workers, procs
  <2>4. CallContents(c)'
    BY <1>10, <1>T, <1>C
       DEF SetFunction, CallContents, Clean, Serves, workers, procs, locals
  <2> QED BY <2>1, <2>2, <2>3, <2>4, ContentsStep
<1>11. ASSUME NEW c \in Calls, ScheduleDecommission(c) PROVE ContentsInv'
  <2>1. UNCHANGED <<undeployed, deployed>>
    BY <1>11 DEF ScheduleDecommission, lists
  <2>2. \A d \in Calls \ {c} : SameCall(d)
    BY <1>11, <1>T DEF ScheduleDecommission, SameCall, locals
  <2>3. \A w \in Workers : SameWorker(w) \/ (Holds(c) /\ w = at[c])
    BY <1>11, <1>T
       DEF ScheduleDecommission, SameWorker, Holds, CallServes, CallRestores,
           TimerRestores, workers, procs
  <2>4. CallContents(c)'
    BY <1>11, <1>T, <1>C
       DEF ScheduleDecommission, CallContents, Clean, Serves, workers, procs,
           locals
  <2> QED BY <2>1, <2>2, <2>3, <2>4, ContentsStep
<1>12. ASSUME NEW c \in Calls, ForceRestore(c) PROVE ContentsInv'
  <2>1. UNCHANGED <<undeployed, deployed>>
    BY <1>12 DEF ForceRestore, lists
  <2>2. \A d \in Calls \ {c} : SameCall(d)
    BY <1>12, <1>T
       DEF ForceRestore, DecomissionOK, DecomissionError, SameCall, locals
  <2>3. \A w \in Workers : SameWorker(w) \/ (Holds(c) /\ w = at[c])
    BY <1>12, <1>T
       DEF ForceRestore, DecomissionOK, DecomissionError, SameWorker, Holds,
           CallServes, CallRestores, TimerRestores, workers, procs
  <2>4. CallContents(c)'
    BY <1>12, <1>T, <1>C
       DEF ForceRestore, DecomissionOK, DecomissionError, CallContents, Clean,
           Serves, workers, procs, locals
  <2> QED BY <2>1, <2>2, <2>3, <2>4, ContentsStep
<1>13. ASSUME NEW c \in Calls, TimerExpired(c) PROVE ContentsInv'
  <2>1. UNCHANGED <<undeployed, deployed>>
    BY <1>13 DEF TimerExpired, lists
  <2>2. \A d \in Calls \ {c} : SameCall(d)
    BY <1>13, <1>T DEF TimerExpired, SameCall, locals
  <2>3. \A w \in Workers : SameWorker(w) \/ (Holds(c) /\ w = at[c])
    BY <1>13, <1>T
       DEF TimerExpired, SameWorker, Holds, CallServes, CallRestores,
           TimerRestores, workers, procs
  <2>4. CallContents(c)'
    BY <1>13, <1>T, <1>C
       DEF TimerExpired, CallContents, Clean, Serves, workers, procs, locals
  <2> QED BY <2>1, <2>2, <2>3, <2>4, ContentsStep
<1>14. ASSUME NEW c \in Calls, TimerStillRunning(c) PROVE ContentsInv'
  <2>1. UNCHANGED <<undeployed, deployed>>
    BY <1>14 DEF TimerStillRunning, lists
  <2>2. \A d \in Calls \ {c} : SameCall(d)
    BY <1>14, <1>T DEF TimerStillRunning, SameCall, locals
  <2>3. \A w \in Workers : SameWorker(w) \/ (Holds(c) /\ w = at[c])
    BY <1>14, <1>T
       DEF TimerStillRunning, SameWorker, Holds, CallServes, CallRestores,
           TimerRestores, workers, procs
  <2>4. CallContents(c)'
    BY <1>14, <1>T, <1>C
       DEF TimerStillRunning, CallContents, Clean, Serves, workers, procs,
           locals
  <2> QED BY <2>1, <2>2, <2>3, <2>4, ContentsStep
<1>15. ASSUME NEW c \in Calls, TimerEvicted(c) PROVE ContentsInv'
  <2>1. UNCHANGED <<undeployed, deployed>>
    BY <1>15 DEF TimerEvicted, lists
  <2>2. \A d \in Calls \ {c} : SameCall(d)
    BY <1>15, <1>T DEF TimerEvicted, SameCall, locals
  <2>3. \A w \in Workers : SameWorker(w) \/ (Holds(c) /\ w = at[c])
    BY <1>15, <1>T
       DEF TimerEvicted, SameWorker, Holds, CallServes, CallRestores,
           TimerRestores, workers, procs
  <2>4. CallContents(c)'
    BY <1>15, <1>T, <1>C
       DEF TimerEvicted, CallContents, Clean, Serves, workers, procs, locals
  <2> QED BY <2>1, <2>2, <2>3, <2>4, ContentsStep
<1>16. ASSUME NEW c \in Calls, TimerRestore(c) PROVE ContentsInv'
  <2>1. UNCHANGED <<undeployed, deployed>>
    BY <1>16 DEF TimerRestore, lists
  <2>2. \A d \in Calls \ {c} : SameCall(d)
    BY <1>16, <1>T
       DEF TimerRestore, DecomissionOK, DecomissionError, SameCall, locals
  <2>3. \A w \in Workers : SameWorker(w) \/ (Holds(c) /\ w = at[c])
    BY <1>16, <1>T
       DEF TimerRestore, DecomissionOK, DecomissionError, SameWorker, Holds,
           CallServes, CallRestores, TimerRestores, workers, procs
  <2>4. CallContents(c)'
    <3>1. /\ pc[c] = "done" /\ timer[c] = "restoring" /\ at[c] \in Workers
          /\ UNCHANGED <<pc, fn, at, cold, answer, function, process>>
      BY <1>16, <1>T
         DEF TimerRestore, TimerGoto, TypeOK, workers, locals
    <3>2. timer'[c] = "returning" => Clean(at[c])'
      BY <1>16, <1>T, <3>1
         DEF TimerRestore, TimerGoto, DecomissionOK, DecomissionError, Clean, TypeOK
    <3> QED BY <1>C, <3>1, <3>2 DEF CallContents
  <2> QED BY <2>1, <2>2, <2>3, <2>4, ContentsStep
<1>17. ASSUME NEW c \in Calls, RunDeployedFunction(c) PROVE ContentsInv'
  <2>1. PICK i \in DOMAIN deployed :
          /\ function[deployed[i]] = fn[c]
          /\ deployed' = RemoveAt(deployed, i)
          /\ at' = [at EXCEPT ![c] = deployed[i]]
    BY <1>17 DEF RunDeployedFunction, FindsFunction
  <2>0. deployed[i] \in Workers /\ deployed[i] \in ToSet(deployed)
    BY <1>T, EntryInSet
  <2>2. \A d \in Calls \ {c} : SameCall(d)
    BY <1>17, <1>T DEF RunDeployedFunction, SameCall, locals
  <2>3. \A w \in Workers : SameWorker(w)
    BY <1>17 DEF RunDeployedFunction, SameWorker, workers, procs
  <2>4. CallContents(c)'
    BY <1>17, <1>T, <1>C, <1>N, <2>0, <2>1
       DEF RunDeployedFunction, CallContents, Clean, Serves,
       workers, procs, locals
  <2>5. undeployed' = undeployed /\ ToSet(deployed') \subseteq ToSet(deployed)
    BY <1>17, <1>T, <2>1, <2>0, RemoveAtSet
       DEF RunDeployedFunction, ExclusiveWorker, ListsDisjoint
  <2> QED BY <2>5, <2>2, <2>3, <2>4, ContentsStep
<1>18. ASSUME NEW c \in Calls, RunUndeployed(c) PROVE ContentsInv'
  <2>1. /\ undeployed # << >> /\ undeployed' = Tail(undeployed)
        /\ deployed' = deployed
        /\ at' = [at EXCEPT ![c] = Head(undeployed)]
    BY <1>18 DEF RunUndeployed
  <2>0. /\ Head(undeployed) \in Workers
        /\ Head(undeployed) \in ToSet(undeployed)
        /\ ToSet(undeployed') \subseteq ToSet(undeployed)
    BY <1>T, <2>1, TailSet DEF ExclusiveWorker, ListsDisjoint
  <2>2. \A d \in Calls \ {c} : SameCall(d)
    BY <1>18, <1>T DEF RunUndeployed, SameCall, locals
  <2>3. \A w \in Workers : SameWorker(w)
    BY <1>18 DEF RunUndeployed, SameWorker, workers, procs
  <2>4. CallContents(c)'
    BY <1>18, <1>T, <1>C, <1>N, <2>0, <2>1
       DEF RunUndeployed, CallContents, Clean, Serves,
       workers, procs, locals
  <2> QED BY <2>0, <2>1, <2>2, <2>3, <2>4, ContentsStep
<1>19. ASSUME NEW c \in Calls, ForceDecomission(c) PROVE ContentsInv'
  <2>1. /\ deployed # << >> /\ deployed' = Tail(deployed)
        /\ undeployed' = undeployed
    BY <1>19 DEF ForceDecomission
  <2>0. ToSet(deployed') \subseteq ToSet(deployed)
    BY <1>T, <2>1, TailSet DEF ExclusiveWorker, ListsDisjoint
  <2>2. \A d \in Calls \ {c} : SameCall(d)
    BY <1>19, <1>T DEF ForceDecomission, SameCall, locals
  <2>3. \A w \in Workers : SameWorker(w)
    BY <1>19 DEF ForceDecomission, SameWorker, workers, procs
  <2>4. CallContents(c)'
    BY <1>19, <1>T, <1>C, <1>N
       DEF ForceDecomission, CallContents, Clean, Serves,
       workers, procs, locals
  <2> QED BY <2>0, <2>1, <2>2, <2>3, <2>4, ContentsStep
<1>20. ASSUME NEW c \in Calls, TimerDecommission(c) PROVE ContentsInv'
  <2>1. PICK i \in DOMAIN deployed :
          deployed' = RemoveAt(deployed, i) /\ undeployed' = undeployed
    BY <1>20 DEF TimerDecommission
  <2>0. ToSet(deployed') \subseteq ToSet(deployed)
    BY <1>T, <2>1, EntryInSet, RemoveAtSet
       DEF ExclusiveWorker, ListsDisjoint
  <2>2. \A d \in Calls \ {c} : SameCall(d)
    BY <1>20, <1>T DEF TimerDecommission, SameCall, locals
  <2>3. \A w \in Workers : SameWorker(w)
    BY <1>20 DEF TimerDecommission, SameWorker, workers, procs
  <2>4. CallContents(c)'
    BY <1>20, <1>T, <1>C, <1>N
       DEF TimerDecommission, CallContents, Clean, Serves,
       workers, procs, locals
  <2> QED BY <2>0, <2>1, <2>2, <2>3, <2>4, ContentsStep
<1>21. ASSUME NEW c \in Calls, RunComplete(c) PROVE ContentsInv'
  <2>2. \A d \in Calls \ {c} : SameCall(d)
    BY <1>21, <1>T DEF RunComplete, SameCall, locals
  <2>3. \A w \in Workers : SameWorker(w)
    BY <1>21 DEF RunComplete, SameWorker, workers, procs
  <2>4. CallContents(c)'
    BY <1>21, <1>T, <1>C, <1>N DEF RunComplete, CallContents, Clean, Serves,
       workers, procs, locals
  <2>5. /\ undeployed' = undeployed
        /\ ToSet(deployed') = ToSet(deployed) \cup {at[c]}
    <3>1. at[c] \in Workers /\ at[c] \in ToSet(running)
      BY <1>21, <1>T
         DEF RunComplete, ExclusiveWorker, ServingIsRunning, CallServes
    <3> QED BY <1>21, <1>T, <3>1, AppendSet
            DEF RunComplete, ExclusiveWorker, ListsDisjoint
  <2>6. (Serves(at[c], function[at[c]]) /\ function[at[c]] \in Functions)'
    <3>1. /\ Serves(at[c], fn[c]) /\ function[at[c]] = fn[c]
          /\ fn[c] \in Functions
      BY <1>21, <1>C DEF RunComplete, CallContents
    <3> QED BY <1>21, <3>1 DEF RunComplete, Serves, workers, procs, locals
  <2>7. at'[c] = at[c]
    BY <1>21 DEF RunComplete, locals
  <2> QED BY <2>5, <2>6, <2>7, <2>2, <2>3, <2>4, ContentsStep
<1>22. ASSUME NEW c \in Calls, ForceReturn(c) PROVE ContentsInv'
  <2>2. \A d \in Calls \ {c} : SameCall(d)
    BY <1>22, <1>T DEF ForceReturn, SameCall, locals
  <2>3. \A w \in Workers : SameWorker(w)
    BY <1>22 DEF ForceReturn, SameWorker, workers, procs
  <2>4. CallContents(c)'
    BY <1>22, <1>T, <1>C, <1>N DEF ForceReturn, CallContents, Clean, Serves,
       workers, procs, locals
  <2>5. /\ deployed' = deployed
        /\ ToSet(undeployed') = ToSet(undeployed) \cup {at[c]}
    <3>1. at[c] \in Workers /\ at[c] \notin ToSet(undeployed)
      BY <1>22, <1>T
         DEF ForceReturn, ExclusiveWorker, RestoringIsUnlisted, Listed,
             CallRestores, TimerRestores
    <3> QED BY <1>22, <1>T, <3>1, AppendSet
            DEF ForceReturn, ExclusiveWorker, ListsDisjoint
  <2>6. Clean(at[c])'
    <3>1. Clean(at[c])
      BY <1>22, <1>C DEF ForceReturn, CallContents
    <3> QED BY <1>22, <3>1 DEF ForceReturn, Clean, workers, procs, locals
  <2>7. at'[c] = at[c]
    BY <1>22 DEF ForceReturn, locals
  <2> QED BY <2>5, <2>6, <2>7, <2>2, <2>3, <2>4, ContentsStep
<1>23. ASSUME NEW c \in Calls, TimerReturn(c) PROVE ContentsInv'
  <2>2. \A d \in Calls \ {c} : SameCall(d)
    BY <1>23, <1>T DEF TimerReturn, SameCall, locals
  <2>3. \A w \in Workers : SameWorker(w)
    BY <1>23 DEF TimerReturn, SameWorker, workers, procs
  <2>4. CallContents(c)'
    BY <1>23, <1>T, <1>C, <1>N DEF TimerReturn, CallContents, Clean, Serves,
       workers, procs, locals
  <2>5. /\ deployed' = deployed
        /\ ToSet(undeployed') = ToSet(undeployed) \cup {at[c]}
    <3>1. at[c] \in Workers /\ at[c] \notin ToSet(undeployed)
      BY <1>23, <1>T
         DEF TimerReturn, ExclusiveWorker, RestoringIsUnlisted, Listed,
             CallRestores, TimerRestores
    <3> QED BY <1>23, <1>T, <3>1, AppendSet
            DEF TimerReturn, ExclusiveWorker, ListsDisjoint
  <2>6. Clean(at[c])'
    <3>1. Clean(at[c])
      BY <1>23, <1>C DEF TimerReturn, CallContents
    <3> QED BY <1>23, <3>1 DEF TimerReturn, Clean, workers, procs, locals
  <2>7. at'[c] = at[c]
    BY <1>23 DEF TimerReturn, locals
  <2> QED BY <2>5, <2>6, <2>7, <2>2, <2>3, <2>4, ContentsStep
<1>24. ASSUME NEW w \in Workers, End(w) PROVE ContentsInv'
  <2>1. /\ UNCHANGED <<undeployed, deployed, function, loaded, pc, fn, at,
                       cold, answer, timer>>
        /\ process' = [process EXCEPT ![w] = "closed"]
    BY <1>24 DEF End, lists, workers, locals
  <2>2. \A v : Clean(v) /\ v \in Workers => Clean(v)'
    BY <1>T, <2>1 DEF Clean
  <2>3. \A v, f : Serves(v, f) /\ v \in Workers => Serves(v, f)'
    BY <1>T, <2>1 DEF Serves
  <2>4. \A c \in Calls : CallContents(c)'
    BY <1>T, <1>C, <2>1, <2>2, <2>3 DEF CallContents
  <2>5. /\ ToSet(undeployed) \subseteq Workers
        /\ ToSet(deployed) \subseteq Workers
    BY <1>T DEF ToSet
  <2>6. \A v \in ToSet(undeployed') : Clean(v)'
    BY <1>C, <2>1, <2>2, <2>5
  <2>7. \A v \in ToSet(deployed') :
          (Serves(v, function[v]) /\ function[v] \in Functions)'
    BY <1>C, <2>1, <2>3, <2>5 DEF Serves
  <2> QED BY <2>4, <2>6, <2>7 DEF ContentsInv
<1>25. CASE (\E w \in Workers : Age(w)) \/ Quiescent \/ UNCHANGED vars
  <2>1. UNCHANGED <<undeployed, deployed, function, loaded, process, pc, fn,
                    at, cold, answer, timer>>
    BY <1>25 DEF Age, Quiescent, vars, lists, workers, procs, locals
  <2> QED BY <1>C, <2>1 DEF ContentsInv, CallContents, Clean, Serves, ToSet
<1> QED
  BY <1>1, <1>2, <1>3, <1>4, <1>5, <1>6, <1>7, <1>8, <1>9, <1>10, <1>11,
     <1>12, <1>13, <1>14, <1>15, <1>16, <1>17, <1>18, <1>19, <1>20, <1>21,
     <1>22, <1>23, <1>24, <1>25
     DEF Next, CallStep, TimerStep

LEMMA ContentsCorrect == Spec => []ContentsInv
BY TypeCorrect, Exclusive, ContentsInit, ContentsNext, PTL DEF Spec

\* What the lists say of the processes is so, whatever fails: an undeployed
\* process waits for a function, a deployed one serves the function the
\* scheduler will look it up by, and a function is only ever sent to a process
\* that waits for one.  Only a closed worker is exempt.
THEOREM Contents == Spec => []ProcessContents
<1>1. TypeOK /\ ContentsInv => ProcessContents
  <2> SUFFICES ASSUME TypeOK, ContentsInv PROVE ProcessContents
    OBVIOUS
  <2>1. None \notin Functions
    BY ConstantsAssumption
  <2> QED BY <2>1
          DEF ContentsInv, CallContents, Clean, Serves, ProcessContents
<1> QED BY <1>1, TypeCorrect, ContentsCorrect, PTL

\* No call is ever answered by another function than its own, whatever the
\* interleaving and whatever fails.
THEOREM Answers == Spec => []RightFunction
<1>1. ContentsInv => RightFunction
  BY DEF ContentsInv, CallContents, RightFunction
<1> QED BY <1>1, ContentsCorrect, PTL

----------------------------------------------------------------------------
(* What a step of a call slot leaves alone *)

\* A step of slot c touches no other slot, and no worker but the one c holds.
LEMMA SlotStep ==
  ASSUME TypeOK, NEW c \in Calls, CallStep(c) \/ TimerStep(c)
  PROVE  /\ \A d \in Calls \ {c} : SameCall(d)
         /\ \A w \in Workers : SameWorker(w) \/ (Holds(c) /\ w = at[c])
<1> USE DEF Goto, TimerGoto, SameCall, SameWorker, Holds, CallServes,
            CallRestores, TimerRestores, workers, procs, locals
<1>T. /\ function \in [Workers -> Functions \cup {None}]
      /\ loaded \in [Workers -> Functions \cup {None}]
      /\ process \in [Workers -> {"up", "dead", "closed"}]
      /\ DOMAIN pc = Calls /\ DOMAIN fn = Calls /\ DOMAIN at = Calls
      /\ DOMAIN cold = Calls /\ DOMAIN answer = Calls /\ DOMAIN timer = Calls
  BY DEF TypeOK
<1>1. CASE \/ RunDeployedFunction(c) \/ NotDeployed(c) \/ RunUndeployed(c)
           \/ NoUndeployed(c) \/ CodeStringError(c) \/ AwaitNotLoaded(c)
  BY <1>1, <1>T DEF RunDeployedFunction, NotDeployed, RunUndeployed, NoUndeployed,
                    CodeStringError, AwaitNotLoaded
<1>2. CASE SendFunction(c)
  BY <1>2, <1>T DEF SendFunction
<1>3. CASE MarkRunTime(c) \/ SendRequest(c) \/ SetFunction(c)
  BY <1>3, <1>T DEF MarkRunTime, SendRequest, SetFunction
<1>4. CASE AwaitNoResponse(c)
  BY <1>4, <1>T DEF AwaitNoResponse
<1>5. CASE RunComplete(c) \/ ScheduleDecommission(c) \/ ForceDecomission(c)
             \/ ForceReturn(c)
  BY <1>5, <1>T DEF RunComplete, ScheduleDecommission, ForceDecomission, ForceReturn
<1>6. CASE ForceRestore(c)
  BY <1>6, <1>T DEF ForceRestore, DecomissionOK, DecomissionError
<1>7. CASE \/ TimerExpired(c) \/ TimerDecommission(c) \/ TimerStillRunning(c)
           \/ TimerEvicted(c) \/ TimerReturn(c)
  BY <1>7, <1>T DEF TimerExpired, TimerDecommission, TimerStillRunning, TimerEvicted,
                    TimerReturn
<1>8. CASE TimerRestore(c)
  BY <1>8, <1>T DEF TimerRestore, DecomissionOK, DecomissionError
<1> QED
  BY <1>1, <1>2, <1>3, <1>4, <1>5, <1>6, <1>7, <1>8 DEF CallStep, TimerStep

----------------------------------------------------------------------------
(* What a call has and has not got *)

\* A call has no answer until its request has been answered, and has one after
\* that unless its worker was closed; a restored process holds nothing, and a
\* process that is restored has not died.
CallLease(c) ==
  /\ pc[c] = "idle" => fn[c] = None
  /\ pc[c] \in {"lookup", "claim", "load", "mark", "request", "evict", "restore",
                "return"} => answer[c] = None
  /\ pc[c] \in {"set", "complete"} => answer[c] # None \/ process[at[c]] = "closed"
  /\ pc[c] = "return" \/ timer[c] = "returning" => loaded[at[c]] = None
  /\ pc[c] = "restore" \/ timer[c] = "restoring" => process[at[c]] # "dead"

LeaseInv == \A c \in Calls : CallLease(c)

LEMMA LeaseInit == Init => LeaseInv
BY DEF Init, LeaseInv, CallLease

\* A step of slot c keeps what the others have and have not got.
LEMMA LeaseStep ==
  ASSUME TypeOK, ExclusiveWorker, LeaseInv,
         NEW c \in Calls, CallStep(c) \/ TimerStep(c), CallLease(c)'
  PROVE  LeaseInv'
<1>1. ASSUME NEW d \in Calls \ {c} PROVE CallLease(d)'
  <2>1. SameCall(d) /\ CallLease(d)
    BY SlotStep DEF LeaseInv
  <2>2. CASE Holds(d)
    <3>1. at[d] \in Workers
      BY <2>2 DEF TypeOK, Holds, CallServes, CallRestores, TimerRestores
    <3>2. ~(Holds(c) /\ at[d] = at[c])
      BY <2>2 DEF ExclusiveWorker, OneHolder
    <3>3. SameWorker(at[d])
      BY <3>1, <3>2, SlotStep
    <3> QED BY <2>1, <3>3 DEF CallLease, SameCall, SameWorker
  <2>3. CASE ~ Holds(d)
    BY <2>1, <2>3 DEF CallLease, SameCall, Holds, CallServes, CallRestores, TimerRestores
  <2> QED BY <2>2, <2>3
<1> QED BY <1>1 DEF LeaseInv

LEMMA LeaseNext ==
  TypeOK /\ ExclusiveWorker /\ ContentsInv /\ LeaseInv /\ [Next]_vars => LeaseInv'
<1> SUFFICES ASSUME TypeOK, ExclusiveWorker, ContentsInv, LeaseInv, [Next]_vars
             PROVE  LeaseInv'
  OBVIOUS
<1> USE DEF Goto, TimerGoto, CallLease, workers, procs, locals
<1>T. /\ loaded \in [Workers -> Functions \cup {None}]
      /\ process \in [Workers -> {"up", "dead", "closed"}]
      /\ pc \in [Calls -> {"idle", "lookup", "claim", "load", "mark", "request",
                           "set", "complete", "schedule", "evict", "restore",
                           "return", "hung", "done"}]
      /\ DOMAIN fn = Calls /\ DOMAIN at = Calls /\ DOMAIN cold = Calls
      /\ answer \in [Calls -> Functions \cup {None}]
      /\ timer \in [Calls -> {"none", "sleep", "expired", "restoring",
                              "returning", "gone"}]
      /\ \A c \in Calls :
           /\ timer[c] # "none" => pc[c] = "done"
           /\ \/ pc[c] \in {"load", "mark", "request", "set", "complete",
                            "schedule", "restore", "return", "hung"}
              \/ timer[c] # "none"
              => at[c] \in Workers
  BY DEF TypeOK
<1>N. None \notin Functions
  BY ConstantsAssumption
<1>L. \A w \in ToSet(deployed) : w \in Workers /\ process[w] # "dead"
  BY DEF ContentsInv, Serves, TypeOK, ToSet
<1>C. \A c \in Calls : CallLease(c)
  BY DEF LeaseInv
<1>1. ASSUME NEW c \in Calls, NEW f \in Functions, Run(c, f) PROVE LeaseInv'
  BY <1>1, <1>T, <1>C DEF Run, LeaseInv, ContentsInv, CallContents
<1>2. ASSUME NEW c \in Calls,
             \/ RunDeployedFunction(c) \/ NotDeployed(c) \/ RunUndeployed(c)
             \/ NoUndeployed(c) \/ CodeStringError(c) \/ AwaitNotLoaded(c)
      PROVE  CallLease(c)'
  BY <1>2, <1>T, <1>C
     DEF RunDeployedFunction, NotDeployed, RunUndeployed, NoUndeployed,
         CodeStringError, AwaitNotLoaded
<1>3. ASSUME NEW c \in Calls, SendFunction(c) PROVE CallLease(c)'
  BY <1>3, <1>T, <1>C DEF SendFunction
<1>4. ASSUME NEW c \in Calls, MarkRunTime(c) \/ SetFunction(c) PROVE CallLease(c)'
  BY <1>4, <1>T, <1>C DEF MarkRunTime, SetFunction
<1>5. ASSUME NEW c \in Calls, SendRequest(c) PROVE CallLease(c)'
  BY <1>5, <1>T, <1>C DEF SendRequest
<1>6. ASSUME NEW c \in Calls, AwaitNoResponse(c) PROVE CallLease(c)'
  BY <1>6, <1>T, <1>C DEF AwaitNoResponse
<1>7. ASSUME NEW c \in Calls, RunComplete(c) \/ ScheduleDecommission(c) \/ ForceReturn(c)
      PROVE  CallLease(c)'
  BY <1>7, <1>T, <1>C DEF RunComplete, ScheduleDecommission, ForceReturn
<1>8. ASSUME NEW c \in Calls, ForceDecomission(c) PROVE CallLease(c)'
  <2>1. Head(deployed) \in ToSet(deployed)
    BY <1>8 DEF ForceDecomission, TypeOK, ToSet
  <2> QED BY <1>8, <1>T, <1>C, <1>L, <2>1 DEF ForceDecomission
<1>9. ASSUME NEW c \in Calls, ForceRestore(c) PROVE CallLease(c)'
  BY <1>9, <1>T, <1>C DEF ForceRestore, DecomissionOK, DecomissionError
<1>10. ASSUME NEW c \in Calls,
              TimerExpired(c) \/ TimerStillRunning(c) \/ TimerEvicted(c) \/ TimerReturn(c)
       PROVE  CallLease(c)'
  BY <1>10, <1>T, <1>C DEF TimerExpired, TimerStillRunning, TimerEvicted, TimerReturn
<1>11. ASSUME NEW c \in Calls, TimerDecommission(c) PROVE CallLease(c)'
  <2>1. at[c] \in ToSet(deployed)
    BY <1>11 DEF TimerDecommission, Finds, ToSet
  <2> QED BY <1>11, <1>T, <1>C, <1>L, <2>1 DEF TimerDecommission
<1>12. ASSUME NEW c \in Calls, TimerRestore(c) PROVE CallLease(c)'
  BY <1>12, <1>T, <1>C DEF TimerRestore, DecomissionOK, DecomissionError
<1>13. ASSUME NEW c \in Calls, CallStep(c) \/ TimerStep(c) PROVE LeaseInv'
  BY <1>2, <1>3, <1>4, <1>5, <1>6, <1>7, <1>8, <1>9, <1>10, <1>11, <1>12, <1>13,
     LeaseStep
     DEF CallStep, TimerStep
<1>14. ASSUME NEW w \in Workers, End(w) PROVE LeaseInv'
  BY <1>14, <1>T, <1>C DEF End, LeaseInv
<1>15. CASE (\E w \in Workers : Age(w)) \/ Quiescent \/ UNCHANGED vars
  BY <1>15, <1>C DEF Age, Quiescent, vars, LeaseInv
<1> QED BY <1>1, <1>13, <1>14, <1>15 DEF Next

LEMMA LeaseCorrect == Spec => []LeaseInv
BY TypeCorrect, Exclusive, ContentsCorrect, LeaseInit, LeaseNext, PTL DEF Spec

----------------------------------------------------------------------------
(* No deployed worker is left alone, and none is forgotten *)

\* A goroutine will restore w, or is about to be started.
HasTimer(w) ==
  \E c \in Calls : at[c] = w /\ (timer[c] \in {"sleep", "expired"} \/ pc[c] = "schedule")

\* Call c uses a worker it has found deployed.
Reuses(c) == pc[c] \in {"mark", "request", "complete"} /\ ~ cold[c]

\* The inductive strengthening of DeployedHasTimer: a deployed worker keeps its
\* goroutine while calls use it again.
TimerInv ==
  /\ \A w \in ToSet(deployed) : HasTimer(w)
  /\ \A c \in Calls : Reuses(c) => HasTimer(at[c])

LEMMA TimerInit == Init => TimerInv
BY DEF Init, TimerInv, Reuses, ToSet

\* A step after which every goroutine is still there, for all workers but w, and
\* which lists or reuses no worker that had none.
LEMMA TimerStays ==
  ASSUME TypeOK, TimerInv, NEW c \in Calls, CallStep(c) \/ TimerStep(c),
         \/ timer[c] \in {"sleep", "expired"} \/ pc[c] = "schedule" =>
              /\ at'[c] = at[c]
              /\ timer'[c] \in {"sleep", "expired"},
         \A w \in ToSet(deployed') : w \in ToSet(deployed) \/ HasTimer(w)',
         Reuses(c)' => at'[c] \in ToSet(deployed) \/ (Reuses(c) /\ at'[c] = at[c])
  PROVE  TimerInv'
<1>1. \A d \in Calls \ {c} : SameCall(d)
  BY SlotStep
<1>2. ASSUME NEW w, HasTimer(w) PROVE HasTimer(w)'
  BY <1>1, <1>2 DEF HasTimer, SameCall
<1>3. \A w \in ToSet(deployed') : HasTimer(w)'
  BY <1>2 DEF TimerInv
<1>4. ASSUME NEW d \in Calls, Reuses(d)' PROVE HasTimer(at[d])'
  <2>1. HasTimer(at'[d])
    BY <1>1, <1>4 DEF TimerInv, Reuses, SameCall
  <2>2. PICK e \in Calls :
          at[e] = at'[d] /\ (timer[e] \in {"sleep", "expired"} \/ pc[e] = "schedule")
    BY <2>1 DEF HasTimer
  <2> QED BY <1>1, <2>2 DEF HasTimer, SameCall
<1> QED BY <1>3, <1>4 DEF TimerInv

LEMMA TimerNext == TypeOK /\ ExclusiveWorker /\ ContentsInv /\ TimerInv /\ [Next]_vars => TimerInv'
<1> SUFFICES ASSUME TypeOK, ExclusiveWorker, ContentsInv, TimerInv, [Next]_vars PROVE TimerInv'
  OBVIOUS
<1> USE DEF Goto, TimerGoto, workers, procs, locals, lists
<1>T. /\ undeployed \in Seq(Workers) /\ deployed \in Seq(Workers)
      /\ running \in Seq(Workers)
      /\ DOMAIN pc = Calls /\ DOMAIN at = Calls /\ DOMAIN timer = Calls
      /\ cold \in [Calls -> BOOLEAN]
      /\ \A c \in Calls : timer[c] # "none" => pc[c] = "done"
  BY DEF TypeOK
<1>L. /\ IsInjective(deployed)
      /\ \A c \in Calls : CallServes(c) => at[c] \in ToSet(running)
      /\ \A w \in Workers : w \in ToSet(deployed) => w \notin ToSet(running)
  BY DEF ExclusiveWorker, ListsDisjoint, ServingIsRunning
<1>1. ASSUME NEW c \in Calls, NEW f \in Functions, Run(c, f) PROVE TimerInv'
  <2>1. \A w : HasTimer(w) => HasTimer(w)'
    BY <1>1, <1>T DEF Run, HasTimer
  <2>2. \A d \in Calls : Reuses(d)' => Reuses(d)
    BY <1>1, <1>T DEF Run, Reuses
  <2>3. at' = at /\ deployed' = deployed
    BY <1>1 DEF Run
  <2> QED BY <2>1, <2>2, <2>3 DEF TimerInv, HasTimer
<1>2. ASSUME NEW c \in Calls,
             \/ NotDeployed(c) \/ NoUndeployed(c) \/ CodeStringError(c)
             \/ SendFunction(c) \/ AwaitNotLoaded(c) \/ MarkRunTime(c)
             \/ SendRequest(c) \/ AwaitNoResponse(c) \/ SetFunction(c)
      PROVE  TimerInv'
  <2>1. timer[c] = "none" /\ pc[c] # "schedule" /\ deployed' = deployed
    BY <1>2, <1>T
       DEF NotDeployed, NoUndeployed, CodeStringError, SendFunction, AwaitNotLoaded,
           MarkRunTime, SendRequest, AwaitNoResponse, SetFunction
  <2>2. Reuses(c)' => Reuses(c) /\ at'[c] = at[c]
    <3>1. CallContents(c)
      BY DEF ContentsInv
    <3> QED BY <1>2, <1>T, <3>1
       DEF NotDeployed, NoUndeployed, CodeStringError, SendFunction, AwaitNotLoaded,
           MarkRunTime, SendRequest, AwaitNoResponse, SetFunction, Reuses, CallContents
  <2> QED BY <1>2, <2>1, <2>2, TimerStays DEF CallStep
<1>3. ASSUME NEW c \in Calls, RunDeployedFunction(c) PROVE TimerInv'
  <2>1. PICK i \in DOMAIN deployed :
          /\ deployed' = RemoveAt(deployed, i)
          /\ at' = [at EXCEPT ![c] = deployed[i]]
    BY <1>3 DEF RunDeployedFunction
  <2>2. deployed[i] \in ToSet(deployed) /\ ToSet(deployed') \subseteq ToSet(deployed)
    BY <1>T, <1>L, <2>1, EntryInSet, RemoveAtSet
  <2>3. timer[c] = "none" /\ pc[c] # "schedule"
    BY <1>3, <1>T DEF RunDeployedFunction
  <2>4. at'[c] \in ToSet(deployed)
    BY <1>T, <2>1, <2>2
  <2> QED BY <1>3, <2>2, <2>3, <2>4, TimerStays DEF CallStep
<1>4. ASSUME NEW c \in Calls, RunUndeployed(c) PROVE TimerInv'
  <2>1. timer[c] = "none" /\ pc[c] # "schedule" /\ deployed' = deployed /\ ~Reuses(c)'
    BY <1>4, <1>T DEF RunUndeployed, Reuses
  <2> QED BY <1>4, <2>1, TimerStays DEF CallStep
<1>5. ASSUME NEW c \in Calls, RunComplete(c) PROVE TimerInv'
  <2>1. /\ timer[c] = "none" /\ pc[c] = "complete" /\ ~Reuses(c)' /\ at' = at
        /\ at[c] \in Workers
    BY <1>5, <1>T DEF RunComplete, Reuses, TypeOK
  <2>2. ToSet(deployed') = ToSet(deployed) \cup {at[c]}
    BY <1>5, <1>T, <2>1, AppendSet DEF RunComplete
  <2>3. HasTimer(at[c])'
    <3>1. CASE cold[c]
      BY <1>5, <1>T, <3>1 DEF RunComplete, HasTimer
    <3>2. CASE ~ cold[c]
      <4>1. HasTimer(at[c])
        BY <2>1, <3>2 DEF TimerInv, Reuses
      <4> QED BY <1>5, <1>T, <2>1, <4>1 DEF RunComplete, HasTimer
    <3> QED BY <3>1, <3>2
  <2>4. \A w \in ToSet(deployed') : w \in ToSet(deployed) \/ HasTimer(w)'
    BY <2>1, <2>2, <2>3 DEF HasTimer
  <2> QED BY <1>5, <2>1, <2>4, TimerStays DEF CallStep
<1>6. ASSUME NEW c \in Calls, ScheduleDecommission(c) PROVE TimerInv'
  <2>1. /\ pc[c] = "schedule" /\ deployed' = deployed /\ at' = at
        /\ timer'[c] = "sleep" /\ ~Reuses(c)'
    BY <1>6, <1>T DEF ScheduleDecommission, Reuses
  <2> QED BY <1>6, <2>1, TimerStays DEF CallStep
<1>7. ASSUME NEW c \in Calls, ForceDecomission(c) PROVE TimerInv'
  <2>1. /\ timer[c] = "none" /\ pc[c] # "schedule" /\ ~Reuses(c)'
        /\ deployed # << >> /\ deployed' = Tail(deployed)
    BY <1>7, <1>T DEF ForceDecomission, Reuses
  <2>2. ToSet(deployed') \subseteq ToSet(deployed)
    BY <1>T, <1>L, <2>1, TailSet
  <2> QED BY <1>7, <2>1, <2>2, TimerStays DEF CallStep
<1>8. ASSUME NEW c \in Calls, ForceRestore(c) \/ ForceReturn(c) PROVE TimerInv'
  <2>1. timer[c] = "none" /\ pc[c] # "schedule" /\ deployed' = deployed /\ ~Reuses(c)'
    BY <1>8, <1>T DEF ForceRestore, ForceReturn, Reuses
  <2> QED BY <1>8, <2>1, TimerStays DEF CallStep
<1>9. ASSUME NEW c \in Calls, TimerExpired(c) \/ TimerStillRunning(c) PROVE TimerInv'
  <2>1. /\ timer[c] \in {"sleep", "expired"} /\ timer'[c] \in {"sleep", "expired"}
        /\ at' = at /\ deployed' = deployed /\ ~Reuses(c)'
    BY <1>9, <1>T DEF TimerExpired, TimerStillRunning, Reuses
  <2> QED BY <1>9, <2>1, TimerStays DEF TimerStep
<1>10. ASSUME NEW c \in Calls, TimerRestore(c) \/ TimerReturn(c) PROVE TimerInv'
  <2>1. /\ timer[c] \notin {"sleep", "expired"} /\ pc[c] # "schedule"
        /\ deployed' = deployed /\ ~Reuses(c)'
    BY <1>10, <1>T DEF TimerRestore, TimerReturn, Reuses
  <2> QED BY <1>10, <2>1, TimerStays DEF TimerStep
<1>11. ASSUME NEW c \in Calls, TimerDecommission(c) \/ TimerEvicted(c) PROVE TimerInv'
  <2>1. /\ at' = at /\ pc' = pc /\ cold' = cold
        /\ \A d \in Calls \ {c} : timer'[d] = timer[d]
        /\ pc[c] = "done" /\ at[c] \in Workers
    BY <1>11, <1>T DEF TimerDecommission, TimerEvicted, TypeOK
  <2>2. /\ ToSet(deployed') \subseteq ToSet(deployed) /\ at[c] \notin ToSet(deployed')
        /\ at[c] \in ToSet(undeployed) \cup ToSet(deployed)
    <3>1. CASE TimerDecommission(c)
      <4>1. PICK i \in DOMAIN deployed :
              Finds(deployed, at[c], i) /\ deployed' = RemoveAt(deployed, i)
        BY <3>1 DEF TimerDecommission
      <4>2. deployed[i] = at[c] /\ ToSet(deployed') = ToSet(deployed) \ {at[c]}
        BY <1>T, <1>L, <4>1, RemoveAtSet DEF Finds
      <4> QED BY <1>T, <4>2, EntryInSet
    <3>2. CASE TimerEvicted(c)
      BY <3>2 DEF TimerEvicted
    <3> QED BY <1>11, <3>1, <3>2
  <2>3. ASSUME NEW w, w # at[c], HasTimer(w) PROVE HasTimer(w)'
    BY <2>1, <2>3 DEF HasTimer
  <2>4. at[c] \notin ToSet(running)
    BY <2>2 DEF ExclusiveWorker, ListsDisjoint
  <2>5. \A w \in ToSet(deployed') : HasTimer(w)'
    BY <2>2, <2>3 DEF TimerInv
  <2>6. ASSUME NEW d \in Calls, Reuses(d)' PROVE HasTimer(at[d])'
    <3>1. Reuses(d) /\ at[d] # at[c]
      BY <1>L, <2>1, <2>4, <2>6 DEF Reuses, CallServes
    <3>2. HasTimer(at[d])
      BY <3>1 DEF TimerInv
    <3>3. PICK e \in Calls :
            at[e] = at[d] /\ (timer[e] \in {"sleep", "expired"} \/ pc[e] = "schedule")
      BY <3>2 DEF HasTimer
    <3> QED BY <2>1, <3>1, <3>3 DEF HasTimer
  <2> QED BY <2>5, <2>6 DEF TimerInv
<1>12. CASE (\E w \in Workers : Age(w) \/ End(w)) \/ Quiescent \/ UNCHANGED vars
  <2>1. UNCHANGED <<deployed, pc, at, cold, timer>>
    BY <1>12 DEF Age, End, Quiescent, vars
  <2> QED BY <2>1 DEF TimerInv, HasTimer, Reuses
<1> QED
  BY <1>1, <1>2, <1>3, <1>4, <1>5, <1>6, <1>7, <1>8, <1>9, <1>10, <1>11, <1>12
     DEF Next, CallStep, TimerStep

\* A worker that is deployed has a goroutine that has not returned, whichever
\* deployments, evictions and failures came before: it will be restored.
THEOREM HaveTimers == Spec => []DeployedHasTimer
<1>1. TimerInv => DeployedHasTimer
  BY DEF TimerInv, HasTimer, DeployedHasTimer
<1> QED BY <1>1, TypeCorrect, Exclusive, ContentsCorrect, TimerInit, TimerNext, PTL DEF Spec

NothingLoses == Faults \cap {"code", "restore", "end"} = {}

Waiting == ToSet(undeployed) \cup ToSet(deployed)

InHand(w) == \E c \in Calls : Holds(c) /\ at[c] = w

\* The inductive strengthening of WorkerAccounted.
AccountInv ==
  NothingLoses =>
    \A w \in Workers : process[w] # "closed" /\ (w \in Waiting \/ InHand(w))

LEMMA AccountInit == Init => AccountInv
<1> SUFFICES ASSUME Init, NEW w \in Workers
             PROVE  process[w] # "closed" /\ w \in ToSet(undeployed)
  BY DEF AccountInv, Waiting
<1>1. w + 1 \in 1 .. PoolSize /\ (w + 1) - 1 = w
  BY ConstantsAssumption DEF Workers
<1>2. DOMAIN undeployed = 1 .. PoolSize /\ undeployed[w + 1] = w
  BY <1>1 DEF Init
<1>3. w \in ToSet(undeployed)
  BY <1>1, <1>2 DEF ToSet
<1> QED BY <1>3 DEF Init

\* What a slot takes out of the lists it holds, and what it lets go of it puts
\* into them.
LEMMA AccountStep ==
  ASSUME TypeOK, AccountInv, NEW c \in Calls, CallStep(c) \/ TimerStep(c),
         \A w \in Workers : process'[w] = "closed" => process[w] = "closed",
         NothingLoses =>
           /\ \A w \in Waiting : w \in Waiting' \/ (Holds(c)' /\ at'[c] = w)
           /\ Holds(c) => at[c] \in Waiting' \/ (Holds(c)' /\ at'[c] = at[c])
  PROVE  AccountInv'
<1> SUFFICES ASSUME NothingLoses, NEW w \in Workers
             PROVE  process'[w] # "closed" /\ (w \in Waiting' \/ InHand(w)')
  BY DEF AccountInv, NothingLoses
<1>1. process'[w] # "closed"
  BY DEF AccountInv
<1>2. CASE w \in Waiting
  BY <1>1, <1>2 DEF InHand
<1>3. ASSUME NEW d \in Calls, Holds(d), at[d] = w PROVE w \in Waiting' \/ InHand(w)'
  <2>1. CASE d = c
    BY <1>3, <2>1 DEF InHand
  <2>2. CASE d # c
    <3>1. SameCall(d)
      BY <2>2, SlotStep
    <3>2. Holds(d)' /\ at'[d] = w
      BY <1>3, <3>1 DEF SameCall, Holds, CallServes, CallRestores, TimerRestores
    <3> QED BY <3>2 DEF InHand
  <2> QED BY <2>1, <2>2
<1> QED BY <1>1, <1>2, <1>3 DEF AccountInv, InHand

LEMMA AccountNext ==
  TypeOK /\ ExclusiveWorker /\ LeaseInv /\ AccountInv /\ [Next]_vars => AccountInv'
<1> SUFFICES ASSUME TypeOK, ExclusiveWorker, LeaseInv, AccountInv, [Next]_vars
             PROVE  AccountInv'
  OBVIOUS
<1> USE DEF Goto, TimerGoto, workers, procs, locals, lists
<1>T. /\ undeployed \in Seq(Workers) /\ deployed \in Seq(Workers)
      /\ running \in Seq(Workers)
      /\ process \in [Workers -> {"up", "dead", "closed"}]
      /\ DOMAIN pc = Calls /\ DOMAIN at = Calls /\ DOMAIN timer = Calls
      /\ cold \in [Calls -> BOOLEAN]
      /\ \A c \in Calls :
           /\ timer[c] # "none" => pc[c] = "done"
           /\ \/ pc[c] \in {"load", "mark", "request", "set", "complete",
                            "schedule", "restore", "return", "hung"}
              \/ timer[c] # "none"
              => at[c] \in Workers
  BY DEF TypeOK
<1>L. IsInjective(undeployed) /\ IsInjective(deployed)
  BY DEF ExclusiveWorker, ListsDisjoint
<1>1. ASSUME NEW c \in Calls,
             \/ NotDeployed(c) \/ NoUndeployed(c) \/ AwaitNotLoaded(c)
             \/ MarkRunTime(c) \/ SendRequest(c) \/ SetFunction(c)
             \/ ScheduleDecommission(c)
      PROVE  AccountInv'
  <2>1. /\ undeployed' = undeployed /\ deployed' = deployed /\ process' = process /\ at' = at
        /\ Holds(c) => Holds(c)'
    BY <1>1, <1>T
       DEF NotDeployed, NoUndeployed, AwaitNotLoaded, MarkRunTime, SendRequest,
           SetFunction, ScheduleDecommission, Holds, CallServes, CallRestores, TimerRestores
  <2> QED BY <1>1, <2>1, AccountStep DEF CallStep, Waiting
<1>2. ASSUME NEW c \in Calls, SendFunction(c) \/ AwaitNoResponse(c) PROVE AccountInv'
  <2>1. /\ undeployed' = undeployed /\ deployed' = deployed /\ at' = at
        /\ Holds(c) => Holds(c)'
    BY <1>2, <1>T
       DEF SendFunction, AwaitNoResponse, Holds, CallServes, CallRestores, TimerRestores
  <2>2. \A w \in Workers : process'[w] = "closed" => process[w] = "closed"
    BY <1>2, <1>T DEF SendFunction, AwaitNoResponse
  <2> QED BY <1>2, <2>1, <2>2, AccountStep DEF CallStep, Waiting
<1>3. ASSUME NEW c \in Calls, CodeStringError(c) PROVE AccountInv'
  <2>1. ~ NothingLoses
    BY <1>3 DEF CodeStringError, NothingLoses
  <2> QED BY <2>1 DEF AccountInv, NothingLoses
<1>4. ASSUME NEW c \in Calls, RunDeployedFunction(c) PROVE AccountInv'
  <2>1. PICK i \in DOMAIN deployed :
          /\ deployed' = RemoveAt(deployed, i)
          /\ at' = [at EXCEPT ![c] = deployed[i]]
    BY <1>4 DEF RunDeployedFunction
  <2>2. ToSet(deployed') = ToSet(deployed) \ {deployed[i]}
    BY <1>T, <1>L, <2>1, RemoveAtSet
  <2>3. /\ undeployed' = undeployed /\ process' = process /\ at'[c] = deployed[i]
        /\ Holds(c)' /\ ~ Holds(c)
    BY <1>4, <1>T, <2>1
       DEF RunDeployedFunction, Holds, CallServes, CallRestores, TimerRestores
  <2>4. \A w \in Waiting : w \in Waiting' \/ (Holds(c)' /\ at'[c] = w)
    BY <2>2, <2>3 DEF Waiting
  <2> QED BY <1>4, <2>3, <2>4, AccountStep DEF CallStep
<1>5. ASSUME NEW c \in Calls, RunUndeployed(c) PROVE AccountInv'
  <2>1. undeployed # << >> /\ undeployed' = Tail(undeployed)
    BY <1>5 DEF RunUndeployed
  <2>2. ToSet(undeployed') = ToSet(undeployed) \ {Head(undeployed)}
    BY <1>T, <1>L, <2>1, TailSet
  <2>3. /\ deployed' = deployed /\ process' = process /\ at'[c] = Head(undeployed)
        /\ Holds(c)' /\ ~ Holds(c)
    BY <1>5, <1>T DEF RunUndeployed, Holds, CallServes, CallRestores, TimerRestores
  <2>4. \A w \in Waiting : w \in Waiting' \/ (Holds(c)' /\ at'[c] = w)
    BY <2>2, <2>3 DEF Waiting
  <2> QED BY <1>5, <2>3, <2>4, AccountStep DEF CallStep
<1>6. ASSUME NEW c \in Calls, RunComplete(c) PROVE AccountInv'
  <2>1. /\ undeployed' = undeployed /\ deployed' = Append(deployed, at[c])
        /\ process' = process /\ at[c] \in Workers
    BY <1>6, <1>T DEF RunComplete
  <2>2. ToSet(deployed') = ToSet(deployed) \cup {at[c]}
    BY <1>T, <2>1, AppendSet
  <2>3. /\ \A w \in Waiting : w \in Waiting'
        /\ at[c] \in Waiting'
    BY <2>1, <2>2 DEF Waiting
  <2> QED BY <1>6, <2>1, <2>3, AccountStep DEF CallStep
<1>7. ASSUME NEW c \in Calls, ForceDecomission(c) PROVE AccountInv'
  <2>1. deployed # << >> /\ deployed' = Tail(deployed)
    BY <1>7 DEF ForceDecomission
  <2>2. ToSet(deployed') = ToSet(deployed) \ {Head(deployed)}
    BY <1>T, <1>L, <2>1, TailSet
  <2>3. /\ undeployed' = undeployed /\ process' = process /\ at'[c] = Head(deployed)
        /\ Holds(c)' /\ ~ Holds(c)
    BY <1>7, <1>T DEF ForceDecomission, Holds, CallServes, CallRestores, TimerRestores
  <2>4. \A w \in Waiting : w \in Waiting' \/ (Holds(c)' /\ at'[c] = w)
    BY <2>2, <2>3 DEF Waiting
  <2> QED BY <1>7, <2>3, <2>4, AccountStep DEF CallStep
<1>8. ASSUME NEW c \in Calls, ForceRestore(c) \/ TimerRestore(c) PROVE AccountInv'
  <2>1. /\ undeployed' = undeployed /\ deployed' = deployed /\ process' = process /\ at' = at
        /\ at[c] \in Workers
    BY <1>8, <1>T DEF ForceRestore, TimerRestore
  <2>2. ASSUME NothingLoses PROVE Holds(c)'
    <3>1. process[at[c]] \notin {"dead", "closed"}
      BY <1>8, <2>1, <2>2
         DEF ForceRestore, TimerRestore, LeaseInv, CallLease, AccountInv
    <3>2. process[at[c]] = "up"
      BY <1>T, <2>1, <3>1
    <3>3. ~ DecomissionError(at[c])
      BY <2>2, <3>2 DEF DecomissionError, NothingLoses
    <3> QED BY <1>8, <1>T, <3>3
            DEF ForceRestore, TimerRestore, Holds, CallRestores, TimerRestores
  <2> QED BY <1>8, <2>1, <2>2, AccountStep DEF CallStep, TimerStep, Waiting
<1>9. ASSUME NEW c \in Calls, ForceReturn(c) \/ TimerReturn(c) PROVE AccountInv'
  <2>1. /\ deployed' = deployed /\ undeployed' = Append(undeployed, at[c])
        /\ process' = process /\ at[c] \in Workers
    BY <1>9, <1>T DEF ForceReturn, TimerReturn
  <2>2. ToSet(undeployed') = ToSet(undeployed) \cup {at[c]}
    BY <1>T, <2>1, AppendSet
  <2>3. /\ \A w \in Waiting : w \in Waiting'
        /\ at[c] \in Waiting'
    BY <2>1, <2>2 DEF Waiting
  <2> QED BY <1>9, <2>1, <2>3, AccountStep DEF CallStep, TimerStep
<1>10. ASSUME NEW c \in Calls, TimerExpired(c) \/ TimerStillRunning(c) \/ TimerEvicted(c)
       PROVE  AccountInv'
  <2>1. /\ undeployed' = undeployed /\ deployed' = deployed /\ process' = process
        /\ ~ Holds(c)
    BY <1>10, <1>T
       DEF TimerExpired, TimerStillRunning, TimerEvicted, Holds, CallServes,
           CallRestores, TimerRestores
  <2> QED BY <1>10, <2>1, AccountStep DEF TimerStep, Waiting
<1>11. ASSUME NEW c \in Calls, TimerDecommission(c) PROVE AccountInv'
  <2>1. PICK i \in DOMAIN deployed :
          deployed[i] = at[c] /\ deployed' = RemoveAt(deployed, i)
    BY <1>11 DEF TimerDecommission, Finds
  <2>2. ToSet(deployed') = ToSet(deployed) \ {at[c]}
    BY <1>T, <1>L, <2>1, RemoveAtSet
  <2>3. /\ undeployed' = undeployed /\ process' = process /\ at' = at /\ Holds(c)'
    BY <1>11, <1>T DEF TimerDecommission, Holds, TimerRestores
  <2>4. \A w \in Waiting : w \in Waiting' \/ (Holds(c)' /\ at'[c] = w)
    BY <2>2, <2>3 DEF Waiting
  <2> QED BY <1>11, <2>3, <2>4, AccountStep DEF TimerStep
<1>12. ASSUME NEW w \in Workers, End(w) PROVE AccountInv'
  <2>1. ~ NothingLoses
    BY <1>12 DEF End, NothingLoses
  <2> QED BY <2>1 DEF AccountInv, NothingLoses
<1>13. CASE \/ \E w \in Workers : Age(w)
            \/ \E c \in Calls, f \in Functions : Run(c, f)
            \/ Quiescent \/ UNCHANGED vars
  <2>1. UNCHANGED <<undeployed, deployed, process, at, timer>>
    BY <1>13 DEF Age, Run, Quiescent, vars
  <2>2. \A c \in Calls : Holds(c) => Holds(c)'
    BY <1>13, <1>T, <2>1
       DEF Age, Run, Quiescent, vars, Holds, CallServes, CallRestores, TimerRestores
  <2> QED BY <2>1, <2>2 DEF AccountInv, NothingLoses, Waiting, InHand
<1> QED
  BY <1>1, <1>2, <1>3, <1>4, <1>5, <1>6, <1>7, <1>8, <1>9, <1>10, <1>11, <1>12, <1>13
     DEF Next, CallStep, TimerStep

\* No worker is forgotten by the lists and by the threads, unless a restore or a
\* document can fail, or the pool is closed.
THEOREM Accounted == Spec => []WorkerAccounted
<1>1. AccountInv => WorkerAccounted
  BY DEF AccountInv, NothingLoses, Waiting, InHand, WorkerAccounted
<1> QED BY <1>1, TypeCorrect, Exclusive, LeaseCorrect, AccountInit, AccountNext, PTL DEF Spec

----------------------------------------------------------------------------
(* The leases *)

Resets(w, c) == (CallRestores(c) \/ TimerRestores(c)) /\ at[c] = w

\* The phase and the lessee of w, told by the lists and the threads.
PhaseTold(w) ==
  /\ w \in ToSet(undeployed) => PhaseOf(w) = "clean" /\ LesseeOf(w) = None
  /\ w \in ToSet(deployed) => PhaseOf(w) = "ready" /\ LesseeOf(w) = None
  /\ \A c \in Calls : HeldBy(w, c) => PhaseOf(w) = "leased" /\ LesseeOf(w) = c
  /\ \A c \in Calls : Resets(w, c) => PhaseOf(w) = "resetting" /\ LesseeOf(w) = None
  /\ w \notin Waiting /\ (\A c \in Calls : ~ HeldBy(w, c) /\ ~ Resets(w, c)) =>
       PhaseOf(w) = "lost" /\ LesseeOf(w) = None

PhasesTold == \A w \in Workers : PhaseTold(w)

LEMMA PhasesAreTold == TypeOK /\ ExclusiveWorker => PhasesTold
<1> SUFFICES ASSUME TypeOK, ExclusiveWorker, NEW w \in Workers PROVE PhaseTold(w)
  BY DEF PhasesTold
<1>1. ASSUME NEW c \in Calls, HeldBy(w, c)
      PROVE  /\ w \notin ToSet(undeployed) /\ w \notin ToSet(deployed)
             /\ LesseeOf(w) = c
  <2>1. w \in ToSet(running)
    BY <1>1 DEF HeldBy, ExclusiveWorker, ServingIsRunning
  <2>2. w \notin ToSet(undeployed) /\ w \notin ToSet(deployed)
    BY <2>1 DEF ExclusiveWorker, ListsDisjoint
  <2>3. LesseeOf(w) \in Calls /\ HeldBy(w, LesseeOf(w))
    BY <1>1, Zenon DEF LesseeOf
  <2>4. LesseeOf(w) = c
    BY <1>1, <2>3 DEF HeldBy, Holds, ExclusiveWorker, OneHolder
  <2> QED BY <2>2, <2>4
<1>2. ASSUME NEW c \in Calls, Resets(w, c)
      PROVE  /\ w \notin ToSet(undeployed) /\ w \notin ToSet(deployed)
             /\ \A d \in Calls : ~ HeldBy(w, d)
  <2>1. w \notin ToSet(undeployed) /\ w \notin ToSet(deployed)
    BY <1>2 DEF Resets, ExclusiveWorker, RestoringIsUnlisted, Listed
  <2>2. ASSUME NEW d \in Calls, HeldBy(w, d) PROVE FALSE
    <3>1. d = c
      BY <1>2, <2>2 DEF Resets, HeldBy, Holds, ExclusiveWorker, OneHolder
    <3> QED BY <1>2, <2>2, <3>1
            DEF Resets, HeldBy, CallServes, CallRestores, TimerRestores, TypeOK
  <2> QED BY <2>1, <2>2
<1>3. w \notin ToSet(undeployed) \/ w \notin ToSet(deployed)
  BY DEF ExclusiveWorker, ListsDisjoint
<1>4. (\A c \in Calls : ~ HeldBy(w, c)) => LesseeOf(w) = None
  BY DEF LesseeOf
<1>5. \A c \in Calls : HeldBy(w, c) => LesseeOf(w) = c
  BY <1>1
<1>6. w \in Waiting => \A c \in Calls : ~ HeldBy(w, c)
  BY <1>1 DEF Waiting
<1>7. w \in ToSet(undeployed) => PhaseOf(w) = "clean"
  BY <1>3 DEF PhaseOf
<1>8. w \in ToSet(deployed) => PhaseOf(w) = "ready"
  BY <1>3 DEF PhaseOf
<1>9. ASSUME NEW c \in Calls, HeldBy(w, c) PROVE PhaseOf(w) = "leased"
  BY <1>1, <1>9 DEF PhaseOf
<1>10. ASSUME NEW c \in Calls, Resets(w, c) PROVE PhaseOf(w) = "resetting"
  BY <1>2, <1>10 DEF PhaseOf, Resets
<1>11. w \notin Waiting /\ (\A c \in Calls : ~ HeldBy(w, c) /\ ~ Resets(w, c)) =>
         PhaseOf(w) = "lost"
  BY DEF PhaseOf, Waiting, Resets
<1>12. \A c \in Calls : Resets(w, c) => LesseeOf(w) = None
  BY <1>2, <1>4
<1> QED BY <1>4, <1>5, <1>6, <1>7, <1>8, <1>9, <1>10, <1>11, <1>12 DEF PhaseTold, Waiting

LEMMA PhasesToldNext == TypeOK' /\ ExclusiveWorker' => PhasesTold'
BY PhasesAreTold, PTL

LEMMA RefinementInit == Init => Lease!Init
<1> SUFFICES ASSUME Init PROVE Lease!Init
  OBVIOUS
<1>1. PhasesTold
  BY TypeInit, ExclusiveInit, PhasesAreTold
<1>2. ASSUME NEW w \in Workers PROVE w \in ToSet(undeployed)
  <2>1. w + 1 \in 1 .. PoolSize /\ (w + 1) - 1 = w
    BY ConstantsAssumption DEF Workers
  <2>2. DOMAIN undeployed = 1 .. PoolSize /\ undeployed[w + 1] = w
    BY <2>1 DEF Init
  <2> QED BY <2>1, <2>2 DEF ToSet
<1>3. \A w \in Workers : PhaseOf(w) = "clean" /\ LesseeOf(w) = None
  BY <1>1, <1>2 DEF PhasesTold, PhaseTold
<1>4. {w \in Workers : process[w] = "closed"} = {}
  BY DEF Init
<1> QED BY <1>3, <1>4 DEF Init, Lease!Init

\* The state between which a step is taken.
Step == TypeOK /\ ExclusiveWorker /\ ContentsInv /\ LeaseInv /\ PhasesTold
        /\ TypeOK' /\ ExclusiveWorker' /\ PhasesTold'

Same(w) == PhaseOf(w)' = PhaseOf(w) /\ LesseeOf(w)' = LesseeOf(w)

\* A worker that stays in its list, and with its thread, keeps its phase.
LEMMA PhaseStays ==
  ASSUME Step, NEW w \in Workers,
         w \in ToSet(undeployed)' <=> w \in ToSet(undeployed),
         w \in ToSet(deployed)' <=> w \in ToSet(deployed),
         \A c \in Calls : HeldBy(w, c)' <=> HeldBy(w, c),
         \A c \in Calls : Resets(w, c)' <=> Resets(w, c)
  PROVE  Same(w)
<1>1. PhaseTold(w) /\ PhaseTold(w)'
  BY DEF Step, PhasesTold
<1>2. CASE w \in Waiting
  BY <1>1, <1>2 DEF PhaseTold, Waiting, Same
<1>3. CASE \E c \in Calls : HeldBy(w, c) \/ Resets(w, c)
  BY <1>1, <1>3 DEF PhaseTold, Same
<1>4. CASE w \notin Waiting /\ \A c \in Calls : ~ HeldBy(w, c) /\ ~ Resets(w, c)
  <2>1. w \notin Waiting'
    BY <1>4 DEF Waiting
  <2> QED BY <1>1, <1>4, <2>1 DEF PhaseTold, Same
<1> QED BY <1>2, <1>3, <1>4

\* In a step of slot c, it is enough to look at its own threads.
LEMMA PhaseStaysInSlot ==
  ASSUME Step, NEW c \in Calls, CallStep(c) \/ TimerStep(c), NEW w \in Workers,
         w \in ToSet(undeployed)' <=> w \in ToSet(undeployed),
         w \in ToSet(deployed)' <=> w \in ToSet(deployed),
         HeldBy(w, c)' <=> HeldBy(w, c),
         Resets(w, c)' <=> Resets(w, c)
  PROVE  Same(w)
<1>1. \A d \in Calls \ {c} : SameCall(d)
  BY SlotStep DEF Step
<1>2. \A d \in Calls : HeldBy(w, d)' <=> HeldBy(w, d)
  BY <1>1 DEF SameCall, HeldBy, CallServes
<1>3. \A d \in Calls : Resets(w, d)' <=> Resets(w, d)
  BY <1>1 DEF SameCall, Resets, CallRestores, TimerRestores
<1> QED BY <1>2, <1>3, PhaseStays

\* Steps that change no lease.
LEMMA NoLease ==
  ASSUME Step, \A w \in Workers : Same(w),
         UNCHANGED <<loaded, fn, answer>>,
         \A w \in Workers : process'[w] = "closed" <=> process[w] = "closed"
  PROVE  UNCHANGED Lease!vars
<1>1. {w \in Workers : process[w] = "closed"}' = {w \in Workers : process[w] = "closed"}
  OBVIOUS
<1>2. /\ [w \in Workers |-> PhaseOf(w)]' = [w \in Workers |-> PhaseOf(w)]
      /\ [w \in Workers |-> LesseeOf(w)]' = [w \in Workers |-> LesseeOf(w)]
  BY DEF Same
<1> QED BY <1>1, <1>2 DEF Lease!vars

\* A step that changes worker w only.
LEMMA OneMoves ==
  ASSUME NEW w \in Workers, \A v \in Workers \ {w} : Same(v)
  PROVE  /\ [v \in Workers |-> PhaseOf(v)]' =
              [[v \in Workers |-> PhaseOf(v)] EXCEPT ![w] = PhaseOf(w)']
         /\ [v \in Workers |-> LesseeOf(v)]' =
              [[v \in Workers |-> LesseeOf(v)] EXCEPT ![w] = LesseeOf(w)']
BY DEF Same

\* RunDeployedFunction and RunUndeployed lease the worker they move to running.
LEMMA StepLeases ==
  ASSUME Step, NEW c \in Calls, RunDeployedFunction(c) \/ RunUndeployed(c)
  PROVE  \E w \in Workers : Lease!Lease(c, w)
<1> USE DEF Goto, workers, procs, locals
<1>T. /\ undeployed \in Seq(Workers) /\ deployed \in Seq(Workers)
      /\ running \in Seq(Workers)
      /\ DOMAIN pc = Calls /\ DOMAIN at = Calls
      /\ timer[c] # "none" => pc[c] = "done"
      /\ PhasesTold /\ PhasesTold'
  BY DEF Step, TypeOK
<1>L. /\ IsInjective(undeployed) /\ IsInjective(deployed)
      /\ \A w \in Workers : w \in ToSet(undeployed) => w \notin ToSet(deployed)
  BY DEF Step, ExclusiveWorker, ListsDisjoint
<1>1. PICK w \in Workers :
        /\ at'[c] = w
        /\ \/ /\ w \in ToSet(deployed) /\ undeployed' = undeployed
              /\ ToSet(deployed') = ToSet(deployed) \ {w}
              /\ function[w] = fn[c]
           \/ /\ w \in ToSet(undeployed) /\ deployed' = deployed
              /\ ToSet(undeployed') = ToSet(undeployed) \ {w}
  <2>1. CASE RunDeployedFunction(c)
    <3>1. PICK i \in DOMAIN deployed :
            /\ function[deployed[i]] = fn[c]
            /\ deployed' = RemoveAt(deployed, i)
            /\ at' = [at EXCEPT ![c] = deployed[i]]
      BY <2>1 DEF RunDeployedFunction, FindsFunction
    <3>2. at'[c] = deployed[i] /\ undeployed' = undeployed
      BY <1>T, <2>1, <3>1 DEF RunDeployedFunction
    <3>3. deployed[i] \in Workers /\ deployed[i] \in ToSet(deployed)
      BY <1>T, EntryInSet
    <3>4. ToSet(deployed') = ToSet(deployed) \ {deployed[i]}
      BY <1>T, <1>L, <3>1, RemoveAtSet
    <3> QED BY <3>1, <3>2, <3>3, <3>4
  <2>2. CASE RunUndeployed(c)
    <3>1. /\ undeployed # << >> /\ undeployed' = Tail(undeployed) /\ deployed' = deployed
          /\ at'[c] = Head(undeployed)
      BY <1>T, <2>2 DEF RunUndeployed
    <3> QED BY <1>T, <1>L, <3>1, TailSet
  <2> QED BY <2>1, <2>2
<1>2. /\ pc[c] \in {"lookup", "claim"} /\ pc'[c] \in {"mark", "load"}
      /\ UNCHANGED <<loaded, process, fn, answer, timer>>
  BY <1>T DEF RunDeployedFunction, RunUndeployed
<1>3. HeldBy(w, c)' /\ \A v \in Workers : ~ HeldBy(v, c) /\ ~ Resets(v, c) /\ ~ Resets(v, c)'
  BY <1>T, <1>1, <1>2
     DEF HeldBy, Resets, CallServes, CallRestores, TimerRestores
<1>4. ASSUME NEW v \in Workers \ {w} PROVE Same(v)
  <2>1. ~ HeldBy(v, c)'
    BY <1>1, <1>4 DEF HeldBy
  <2> QED BY <1>1, <1>3, <2>1, PhaseStaysInSlot DEF CallStep
<1>5. PhaseOf(w)' = "leased" /\ LesseeOf(w)' = c
  BY <1>T, <1>1, <1>3 DEF PhasesTold, PhaseTold
<1>6. \A v \in Workers : LesseeOf(v) # c
  <2>1. ASSUME NEW v \in Workers, LesseeOf(v) = c PROVE FALSE
    <3>1. c # None
      BY ConstantsAssumption
    <3>2. \E d \in Calls : HeldBy(v, d)
      BY <2>1, <3>1 DEF LesseeOf
    <3> QED BY <1>T, <1>3, <2>1, <3>2 DEF PhasesTold, PhaseTold
  <2> QED BY <2>1
<1>7. fn[c] # None /\ answer[c] = None
  BY <1>2, ConstantsAssumption DEF Step, ContentsInv, CallContents, LeaseInv, CallLease
<1>8. \/ PhaseOf(w) = "clean"
      \/ PhaseOf(w) = "ready" /\ (loaded[w] = fn[c] \/ process[w] = "closed")
  BY <1>T, <1>1 DEF PhasesTold, PhaseTold, Step, ContentsInv, Serves
<1>9. {v \in Workers : process[v] = "closed"}' = {v \in Workers : process[v] = "closed"}
  BY <1>2
<1>10. Lease!Lease(c, w)
  BY <1>1, <1>2, <1>4, <1>5, <1>6, <1>7, <1>8, <1>9, OneMoves DEF Lease!Lease, Lease!Move
<1> QED BY <1>1, <1>10

\* Steps of a call that keeps its worker: a function is loaded, a request is
\* answered, or no lease changes.
LEMMA StepServes ==
  ASSUME Step, NEW c \in Calls,
         \/ SendFunction(c) \/ SendRequest(c) \/ AwaitNotLoaded(c) \/ MarkRunTime(c)
         \/ AwaitNoResponse(c) \/ SetFunction(c)
  PROVE  \/ \E w \in Workers : Lease!Load(c, w) \/ Lease!Answer(c, w)
         \/ UNCHANGED Lease!vars
<1> USE DEF Goto, workers, procs, locals, lists
<1>T. /\ loaded \in [Workers -> Functions \cup {None}]
      /\ process \in [Workers -> {"up", "dead", "closed"}]
      /\ DOMAIN pc = Calls /\ DOMAIN at = Calls /\ DOMAIN answer = Calls
      /\ at[c] \in Workers
      /\ CallServes(c) /\ CallServes(c)'
      /\ timer[c] = "none"
      /\ UNCHANGED <<undeployed, deployed, at, fn, timer>>
  BY DEF Step, TypeOK, CallServes, SendFunction, SendRequest, AwaitNotLoaded, MarkRunTime,
         AwaitNoResponse, SetFunction
<1>1. \A w \in Workers :
        /\ HeldBy(w, c)' <=> HeldBy(w, c)
        /\ ~ Resets(w, c) /\ ~ Resets(w, c)'
  BY <1>T DEF HeldBy, Resets, CallServes, CallRestores, TimerRestores
<1>2. CallStep(c)
  BY DEF CallStep
<1>3. \A w \in Workers : Same(w)
  BY <1>1, <1>2, <1>T, PhaseStaysInSlot
<1>4. /\ [w \in Workers |-> PhaseOf(w)]' = [w \in Workers |-> PhaseOf(w)]
      /\ [w \in Workers |-> LesseeOf(w)]' = [w \in Workers |-> LesseeOf(w)]
  BY <1>3 DEF Same
<1>5. HeldBy(at[c], c) /\ LesseeOf(at[c]) = c
  BY <1>T DEF HeldBy, Step, PhasesTold, PhaseTold
<1>6. CASE UNCHANGED <<loaded, answer>>
  <2>1. \A w \in Workers : process'[w] = "closed" <=> process[w] = "closed"
    BY <1>T DEF SendFunction, SendRequest, AwaitNotLoaded, MarkRunTime, AwaitNoResponse,
                SetFunction
  <2> QED BY <1>3, <1>6, <1>T, <2>1, NoLease
<1>7. CASE SendFunction(c) /\ ~ UNCHANGED <<loaded, answer>>
  <2>1. /\ loaded[at[c]] = None /\ loaded' = [loaded EXCEPT ![at[c]] = fn[c]]
        /\ UNCHANGED <<process, answer>>
    BY <1>7 DEF SendFunction
  <2>2. Lease!Load(c, at[c])
    BY <1>4, <1>5, <1>T, <2>1 DEF Lease!Load
  <2> QED BY <1>T, <2>2
<1>8. CASE SendRequest(c) /\ ~ UNCHANGED <<loaded, answer>>
  <2>1. /\ process[at[c]] = "up" /\ loaded[at[c]] # None
        /\ answer' = [answer EXCEPT ![c] = loaded[at[c]]]
        /\ UNCHANGED <<loaded, process>> /\ pc[c] = "request"
    BY <1>8 DEF SendRequest
  <2>2. loaded[at[c]] = fn[c] /\ answer[c] = None
    <3>1. CallContents(c) /\ CallLease(c) /\ cold[c] \in BOOLEAN
      BY DEF Step, ContentsInv, LeaseInv, TypeOK
    <3>2. CASE cold[c]
      BY <2>1, <3>1, <3>2 DEF CallContents, CallLease, Clean, Serves
    <3>3. CASE ~ cold[c]
      BY <2>1, <3>1, <3>3 DEF CallContents, CallLease, Clean, Serves
    <3> QED BY <3>2, <3>3
  <2>3. Lease!Answer(c, at[c])
    BY <1>4, <1>5, <1>T, <2>1, <2>2 DEF Lease!Answer
  <2> QED BY <1>T, <2>3
<1>9. CASE AwaitNotLoaded(c) \/ MarkRunTime(c) \/ AwaitNoResponse(c) \/ SetFunction(c)
  <2>1. UNCHANGED <<loaded, answer>>
    BY <1>9 DEF AwaitNotLoaded, MarkRunTime, AwaitNoResponse, SetFunction
  <2> QED BY <1>6, <2>1
<1> QED BY <1>6, <1>7, <1>8, <1>9

\* RunComplete releases the worker; CodeStringError leaves it in running, where
\* nobody finds it.
LEMMA StepReleases ==
  ASSUME Step, NEW c \in Calls, RunComplete(c) \/ CodeStringError(c)
  PROVE  \E w \in Workers : Lease!Release(c, w) \/ Lease!Lose(w)
<1> USE DEF Goto, workers, procs, locals, lists
<1>T. /\ deployed \in Seq(Workers)
      /\ DOMAIN pc = Calls /\ DOMAIN at = Calls /\ DOMAIN answer = Calls
      /\ at[c] \in Workers
      /\ timer[c] = "none"
      /\ CallServes(c) /\ ~ CallServes(c)'
      /\ UNCHANGED <<undeployed, loaded, process, at, fn, answer, timer>>
      /\ PhasesTold /\ PhasesTold'
  BY DEF Step, TypeOK, CallServes, RunComplete, CodeStringError
<1>0. PICK w \in Workers : w = at[c]
  BY <1>T
<1>1. \A v \in Workers :
        /\ HeldBy(v, c) <=> v = w
        /\ ~ HeldBy(v, c)'
        /\ ~ Resets(v, c) /\ ~ Resets(v, c)'
  BY <1>0, <1>T
     DEF HeldBy, Resets, CallServes, CallRestores, TimerRestores, RunComplete,
         CodeStringError
<1>2. PhaseOf(w) = "leased" /\ LesseeOf(w) = c
  BY <1>1, <1>T DEF PhasesTold, PhaseTold
<1>3. \/ RunComplete(c) /\ ToSet(deployed') = ToSet(deployed) \cup {w}
      \/ CodeStringError(c) /\ deployed' = deployed
  <2>1. ToSet(Append(deployed, w)) = ToSet(deployed) \cup {w}
    BY <1>T, AppendSet
  <2> QED BY <1>0, <2>1 DEF RunComplete, CodeStringError
<1>4. ASSUME NEW v \in Workers \ {w} PROVE Same(v)
  BY <1>1, <1>3, <1>4, <1>T, PhaseStaysInSlot DEF CallStep
<1>5. CASE RunComplete(c)
  <2>1. PhaseOf(w)' = "ready" /\ LesseeOf(w)' = None
    BY <1>3, <1>5, <1>T DEF PhasesTold, PhaseTold, RunComplete, CodeStringError
  <2>2. answer[c] # None \/ process[w] = "closed"
    BY <1>0, <1>5 DEF RunComplete, Step, LeaseInv, CallLease
  <2>3. Lease!Release(c, w)
    BY <1>2, <1>4, <1>T, <2>1, <2>2, OneMoves DEF Lease!Release, Lease!Move
  <2> QED BY <2>3
<1>6. CASE CodeStringError(c)
  <2>1. w \notin Waiting'
    <3>1. w \in ToSet(running)
      BY <1>0, <1>T DEF Step, ExclusiveWorker, ServingIsRunning
    <3> QED BY <1>6, <1>T, <3>1
            DEF CodeStringError, Step, ExclusiveWorker, ListsDisjoint, Waiting
  <2>2. \A d \in Calls : ~ HeldBy(w, d)' /\ ~ Resets(w, d)'
    <3>1. ASSUME NEW d \in Calls \ {c} PROVE ~ HeldBy(w, d)' /\ ~ Resets(w, d)'
      <4>1. SameCall(d)
        BY <1>6, SlotStep DEF CallStep, Step
      <4>2. ~ HeldBy(w, d) /\ ~ Resets(w, d)
        BY <1>1 DEF HeldBy, Resets, Holds, Step, ExclusiveWorker, OneHolder
      <4> QED BY <4>1, <4>2
              DEF SameCall, HeldBy, Resets, CallServes, CallRestores, TimerRestores
    <3> QED BY <1>1, <3>1
  <2>3. PhaseOf(w)' = "lost" /\ LesseeOf(w)' = None
    BY <1>T, <2>1, <2>2 DEF PhasesTold, PhaseTold
  <2>4. Lease!Lose(w)
    BY <1>2, <1>4, <1>T, <2>3, OneMoves DEF Lease!Lose, Lease!Move
  <2> QED BY <2>4
<1> QED BY <1>5, <1>6

\* A deployed worker is taken out to be restored.
LEMMA StepStartsReset ==
  ASSUME Step, NEW c \in Calls, ForceDecomission(c) \/ TimerDecommission(c)
  PROVE  \E w \in Workers : Lease!StartReset(w)
<1> USE DEF Goto, TimerGoto, workers, procs, locals, lists
<1>T. /\ deployed \in Seq(Workers) /\ IsInjective(deployed)
      /\ DOMAIN pc = Calls /\ DOMAIN at = Calls /\ DOMAIN timer = Calls
      /\ timer[c] # "none" => pc[c] = "done" /\ at[c] \in Workers
      /\ PhasesTold /\ PhasesTold'
  BY DEF Step, TypeOK, ExclusiveWorker, ListsDisjoint
<1>1. PICK w \in Workers :
        /\ w \in ToSet(deployed) /\ ToSet(deployed') = ToSet(deployed) \ {w}
        /\ at'[c] = w
  <2>1. CASE ForceDecomission(c)
    <3>1. deployed # << >> /\ deployed' = Tail(deployed) /\ at'[c] = Head(deployed)
      BY <1>T, <2>1 DEF ForceDecomission
    <3> QED BY <1>T, <3>1, TailSet
  <2>2. CASE TimerDecommission(c)
    <3>1. PICK i \in DOMAIN deployed :
            deployed[i] = at[c] /\ deployed' = RemoveAt(deployed, i)
      BY <2>2 DEF TimerDecommission, Finds
    <3>2. ToSet(deployed') = ToSet(deployed) \ {deployed[i]} /\ deployed[i] \in ToSet(deployed)
      BY <1>T, <3>1, EntryInSet, RemoveAtSet
    <3>3. at' = at /\ at[c] \in Workers
      BY <1>T, <2>2 DEF TimerDecommission
    <3> QED BY <3>1, <3>2, <3>3
  <2> QED BY <2>1, <2>2
<1>2. /\ UNCHANGED <<undeployed, loaded, process, fn, answer>>
      /\ ~ CallServes(c) /\ ~ CallServes(c)'
      /\ ~ CallRestores(c) /\ ~ TimerRestores(c)
      /\ CallRestores(c)' \/ TimerRestores(c)'
  BY <1>T
     DEF ForceDecomission, TimerDecommission, CallServes, CallRestores, TimerRestores
<1>3. /\ \A v \in Workers : ~ HeldBy(v, c) /\ ~ HeldBy(v, c)' /\ ~ Resets(v, c)
      /\ Resets(w, c)'
      /\ \A v \in Workers \ {w} : ~ Resets(v, c)'
  BY <1>1, <1>2 DEF HeldBy, Resets
<1>4. ASSUME NEW v \in Workers \ {w} PROVE Same(v)
  BY <1>1, <1>2, <1>3, <1>4, PhaseStaysInSlot DEF CallStep, TimerStep
<1>5. /\ PhaseOf(w) = "ready" /\ LesseeOf(w) = None
      /\ PhaseOf(w)' = "resetting" /\ LesseeOf(w)' = None
  BY <1>1, <1>3, <1>T DEF PhasesTold, PhaseTold
<1>6. [v \in Workers |-> LesseeOf(v)]' = [v \in Workers |-> LesseeOf(v)]
  BY <1>4, <1>5 DEF Same
<1>7. Lease!StartReset(w)
  BY <1>2, <1>4, <1>5, <1>6, OneMoves DEF Lease!StartReset, Lease!Move
<1> QED BY <1>7

\* The restore empties the process, or the worker is lost with it.
LEMMA StepResets ==
  ASSUME Step, NEW c \in Calls, ForceRestore(c) \/ TimerRestore(c)
  PROVE  \E w \in Workers : Lease!Empty(w) \/ Lease!Lose(w)
<1> USE DEF Goto, TimerGoto, workers, procs, locals, lists
<1>T. /\ DOMAIN pc = Calls /\ DOMAIN timer = Calls
      /\ timer[c] # "none" => pc[c] = "done"
      /\ at[c] \in Workers
      /\ UNCHANGED <<undeployed, deployed, process, at, fn, answer>>
      /\ CallRestores(c) \/ TimerRestores(c)
      /\ ~ CallServes(c) /\ ~ CallServes(c)'
      /\ PhasesTold /\ PhasesTold'
  BY DEF Step, TypeOK, ForceRestore, TimerRestore, CallRestores, TimerRestores, CallServes
<1>0. PICK w \in Workers : w = at[c]
  BY <1>T
<1>1. \A v \in Workers :
        /\ ~ HeldBy(v, c) /\ ~ HeldBy(v, c)'
        /\ Resets(v, c) <=> v = w
        /\ Resets(v, c)' => v = w
  BY <1>0, <1>T DEF HeldBy, Resets
<1>2. PhaseOf(w) = "resetting" /\ LesseeOf(w) = None
  BY <1>1, <1>T DEF PhasesTold, PhaseTold
<1>3. ASSUME NEW v \in Workers \ {w} PROVE Same(v)
  BY <1>1, <1>3, <1>T, PhaseStaysInSlot DEF CallStep, TimerStep
<1>4. CASE DecomissionOK(w) /\ (CallRestores(c) \/ TimerRestores(c))'
  <2>1. Resets(w, c)'
    BY <1>0, <1>4, <1>T DEF Resets
  <2>2. PhaseOf(w)' = "resetting" /\ LesseeOf(w)' = None
    BY <1>T, <2>1 DEF PhasesTold, PhaseTold
  <2>3. /\ [v \in Workers |-> PhaseOf(v)]' = [v \in Workers |-> PhaseOf(v)]
        /\ [v \in Workers |-> LesseeOf(v)]' = [v \in Workers |-> LesseeOf(v)]
    BY <1>2, <1>3, <2>2 DEF Same
  <2>4. Lease!Empty(w)
    BY <1>2, <1>4, <1>T, <2>3 DEF Lease!Empty, DecomissionOK
  <2> QED BY <2>4
<1>5. CASE DecomissionError(w) /\ ~ (CallRestores(c) \/ TimerRestores(c))'
  <2>1. w \notin Waiting'
    BY <1>0, <1>T DEF Step, ExclusiveWorker, RestoringIsUnlisted, Listed, Waiting
  <2>2. \A d \in Calls : ~ HeldBy(w, d)' /\ ~ Resets(w, d)'
    <3>1. ASSUME NEW d \in Calls \ {c} PROVE ~ HeldBy(w, d)' /\ ~ Resets(w, d)'
      <4>1. SameCall(d)
        BY SlotStep DEF CallStep, TimerStep, Step
      <4>2. ~ HeldBy(w, d) /\ ~ Resets(w, d)
        BY <1>1 DEF HeldBy, Resets, Holds, Step, ExclusiveWorker, OneHolder
      <4> QED BY <4>1, <4>2
              DEF SameCall, HeldBy, Resets, CallServes, CallRestores, TimerRestores
    <3>2. ~ HeldBy(w, c)' /\ ~ Resets(w, c)'
      BY <1>1, <1>5 DEF Resets
    <3> QED BY <3>1, <3>2
  <2>3. PhaseOf(w)' = "lost" /\ LesseeOf(w)' = None
    BY <1>T, <2>1, <2>2 DEF PhasesTold, PhaseTold
  <2>4. Lease!Lose(w)
    BY <1>2, <1>3, <1>5, <1>T, <2>3, OneMoves DEF Lease!Lose, Lease!Move, DecomissionError
  <2> QED BY <2>4
<1> QED
  BY <1>0, <1>4, <1>5, <1>T
     DEF ForceRestore, TimerRestore, CallRestores, TimerRestores

\* The restored worker is undeployed again.
LEMMA StepEndsReset ==
  ASSUME Step, NEW c \in Calls, ForceReturn(c) \/ TimerReturn(c)
  PROVE  \E w \in Workers : Lease!EndReset(w)
<1> USE DEF Goto, TimerGoto, workers, procs, locals, lists
<1>T. /\ undeployed \in Seq(Workers)
      /\ DOMAIN pc = Calls /\ DOMAIN timer = Calls
      /\ timer[c] # "none" => pc[c] = "done"
      /\ at[c] \in Workers
      /\ undeployed' = Append(undeployed, at[c])
      /\ UNCHANGED <<deployed, loaded, process, at, fn, answer>>
      /\ CallRestores(c) \/ TimerRestores(c)
      /\ pc[c] = "return" \/ timer[c] = "returning"
      /\ ~ CallServes(c) /\ ~ CallServes(c)'
      /\ ~ CallRestores(c)' /\ ~ TimerRestores(c)'
      /\ PhasesTold /\ PhasesTold'
  BY DEF Step, TypeOK, ForceReturn, TimerReturn, CallRestores, TimerRestores, CallServes
<1>0. PICK w \in Workers : w = at[c]
  BY <1>T
<1>1. \A v \in Workers :
        /\ ~ HeldBy(v, c) /\ ~ HeldBy(v, c)'
        /\ Resets(v, c) <=> v = w
        /\ ~ Resets(v, c)'
  BY <1>0, <1>T DEF HeldBy, Resets
<1>2. ToSet(undeployed') = ToSet(undeployed) \cup {w}
  BY <1>0, <1>T, AppendSet
<1>3. ASSUME NEW v \in Workers \ {w} PROVE Same(v)
  BY <1>1, <1>2, <1>3, <1>T, PhaseStaysInSlot DEF CallStep, TimerStep
<1>4. /\ PhaseOf(w) = "resetting" /\ LesseeOf(w) = None
      /\ PhaseOf(w)' = "clean" /\ LesseeOf(w)' = None
  BY <1>1, <1>2, <1>T DEF PhasesTold, PhaseTold
<1>5. [v \in Workers |-> LesseeOf(v)]' = [v \in Workers |-> LesseeOf(v)]
  BY <1>3, <1>4 DEF Same
<1>6. loaded[w] = None
  BY <1>0, <1>T DEF Step, LeaseInv, CallLease
<1>7. Lease!EndReset(w)
  BY <1>3, <1>4, <1>5, <1>6, <1>T, OneMoves DEF Lease!EndReset, Lease!Move
<1> QED BY <1>7

\* Steps that move no worker.
LEMMA StepMovesNothing ==
  ASSUME Step, NEW c \in Calls,
         \/ NotDeployed(c) \/ NoUndeployed(c) \/ ScheduleDecommission(c)
         \/ TimerExpired(c) \/ TimerStillRunning(c) \/ TimerEvicted(c)
  PROVE  UNCHANGED Lease!vars
<1> USE DEF Goto, TimerGoto, workers, procs, locals, lists
<1>T. /\ UNCHANGED <<undeployed, deployed, loaded, process, at, fn, answer>>
      /\ ~ Holds(c) /\ ~ Holds(c)'
  BY DEF Step, TypeOK, NotDeployed, NoUndeployed, ScheduleDecommission, TimerExpired,
         TimerStillRunning, TimerEvicted, Holds, CallServes, CallRestores, TimerRestores
<1>1. \A w \in Workers :
        ~ HeldBy(w, c) /\ ~ HeldBy(w, c)' /\ ~ Resets(w, c) /\ ~ Resets(w, c)'
  BY <1>T DEF HeldBy, Resets, Holds
<1>2. \A w \in Workers : Same(w)
  BY <1>1, <1>T, PhaseStaysInSlot DEF CallStep, TimerStep
<1> QED BY <1>2, <1>T, NoLease

\* Steps of no slot.
LEMMA StepOutside ==
  ASSUME Step,
         \/ \E c \in Calls, f \in Functions : Run(c, f)
         \/ \E w \in Workers : Age(w) \/ End(w)
         \/ Quiescent \/ UNCHANGED vars
  PROVE  [Lease!Next]_(Lease!vars)
<1> USE DEF Goto, workers, procs, locals, lists
<1>1. /\ UNCHANGED <<undeployed, deployed, loaded, at, answer, timer>>
      /\ \A c \in Calls : CallServes(c)' <=> CallServes(c)
      /\ \A c \in Calls : CallRestores(c)' <=> CallRestores(c)
      /\ \A c \in Calls : TimerRestores(c)' <=> TimerRestores(c)
  BY DEF Run, Age, End, Quiescent, vars, CallServes, CallRestores, TimerRestores, Step, TypeOK
<1>2. \A w \in Workers, c \in Calls :
        (HeldBy(w, c)' <=> HeldBy(w, c)) /\ (Resets(w, c)' <=> Resets(w, c))
  BY <1>1 DEF HeldBy, Resets
<1>3. \A w \in Workers : Same(w)
  BY <1>1, <1>2, PhaseStays
<1>4. /\ [w \in Workers |-> PhaseOf(w)]' = [w \in Workers |-> PhaseOf(w)]
      /\ [w \in Workers |-> LesseeOf(w)]' = [w \in Workers |-> LesseeOf(w)]
  BY <1>3 DEF Same
<1>5. ASSUME NEW c \in Calls, NEW f \in Functions, Run(c, f) PROVE Lease!Ask(c, f)
  <2>1. fn[c] = None
    BY <1>5 DEF Run, Step, LeaseInv, CallLease
  <2> QED BY <1>1, <1>4, <1>5, <2>1 DEF Run, Lease!Ask
<1>6. ASSUME NEW w \in Workers, End(w) PROVE Lease!Close(w)
  <2>1. {v \in Workers : process[v] = "closed"}' =
          {v \in Workers : process[v] = "closed"} \cup {w}
    BY <1>6 DEF End, Step, TypeOK
  <2> QED BY <1>1, <1>4, <1>6, <2>1 DEF End, Lease!Close
<1>7. CASE (\E w \in Workers : Age(w)) \/ Quiescent \/ UNCHANGED vars
  <2>1. UNCHANGED <<loaded, fn, answer, process>>
    BY <1>7 DEF Age, Quiescent, vars
  <2> QED BY <1>3, <2>1, NoLease
<1> QED BY <1>5, <1>6, <1>7 DEF Lease!Next

LEMMA RefinementNext == Step /\ [Next]_vars => [Lease!Next]_(Lease!vars)
<1> SUFFICES ASSUME Step, [Next]_vars PROVE [Lease!Next]_(Lease!vars)
  OBVIOUS
<1>1. ASSUME NEW c \in Calls, CallStep(c) \/ TimerStep(c) PROVE [Lease!Next]_(Lease!vars)
  BY <1>1, StepLeases, StepServes, StepReleases, StepStartsReset, StepResets,
     StepEndsReset, StepMovesNothing
     DEF CallStep, TimerStep, Lease!Next
<1> QED BY <1>1, StepOutside DEF Next

\* The lists, locks and goroutines of the scheduler do what WorkerLease promises:
\* one call at a time has a worker, only clean workers and those with the call's
\* function are leased, and a worker that was used is reset before another
\* function is loaded into it.
THEOREM Implements == Spec => ImplementsLease
<1>1. ASSUME TypeOK, ExclusiveWorker, ContentsInv, LeaseInv, TypeOK', ExclusiveWorker'
      PROVE  Step
  <2>1. PhasesTold
    BY <1>1, PhasesAreTold
  <2>2. PhasesTold'
    BY <1>1, PhasesToldNext
  <2> QED BY <1>1, <2>1, <2>2 DEF Step
<1> QED
  BY <1>1, RefinementInit, RefinementNext, TypeCorrect, Exclusive, ContentsCorrect,
     LeaseCorrect, PTL
     DEF Spec, ImplementsLease, Lease!Spec
=============================================================================
