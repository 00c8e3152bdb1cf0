----------------------- MODULE MCSchedulerRefinement -----------------------
(***************************************************************************)
(* Instances of SchedulerRefinement for TLC.  Call slots are               *)
(* interchangeable, and so are functions, in the run without liveness.     *)
(* Workers are not: their order in the lists matters.                      *)
(***************************************************************************)
EXTENDS SchedulerRefinement, TLC

NoFaults == {}
AllFaults == FaultKinds

Symmetric == Permutations(Calls) \cup Permutations(Functions)
=============================================================================
