------------------------ MODULE SchedulerRefinement ------------------------
(***************************************************************************)
(* The three lists and the goroutines of Scheduler implement the leases of *)
(* WorkerLease.  A worker's phase is read off the list that names it; a    *)
(* worker in no list, or left in running by a call that returned, is told  *)
(* apart by the thread that holds it, if any.                              *)
(***************************************************************************)
EXTENDS Scheduler

HeldBy(w, c) == CallServes(c) /\ at[c] = w

PhaseOf(w) ==
  IF w \in ToSet(undeployed) THEN "clean"
  ELSE IF w \in ToSet(deployed) THEN "ready"
  ELSE IF \E c \in Calls : HeldBy(w, c) THEN "leased"
  ELSE IF \E c \in Calls : (CallRestores(c) \/ TimerRestores(c)) /\ at[c] = w
    THEN "resetting"
  ELSE "lost"

LesseeOf(w) ==
  IF \E c \in Calls : HeldBy(w, c) THEN CHOOSE c \in Calls : HeldBy(w, c)
                                   ELSE None

Lease == INSTANCE WorkerLease WITH
  phase <- [w \in Workers |-> PhaseOf(w)],
  lessee <- [w \in Workers |-> LesseeOf(w)],
  content <- loaded,
  asked <- fn,
  closed <- {w \in Workers : process[w] = "closed"}

\* Every step of the scheduler is a step of the leases or none at all, also
\* while the invoker shuts down (scheduler.go:218).
ImplementsLease == Lease!Spec
=============================================================================
