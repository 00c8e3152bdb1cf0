---------------------------- MODULE MCCRIService ----------------------------
(***************************************************************************)
(* CRIService for TLC: every call beside every other.                      *)
(***************************************************************************)
EXTENDS CRIService, TLC

ASSUME ServiceAssumption == CRIAssumption

\* Handlers are interchangeable, and so are the containers of refunction pods.
Symmetry == Permutations(Handlers) \cup Permutations(Refunction)

=============================================================================
