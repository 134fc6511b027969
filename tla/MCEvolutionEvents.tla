--------------------------- MODULE MCEvolutionEvents ---------------------------
(***************************************************************************)
(* Instances of EvolutionEvents for TLC.                                   *)
(***************************************************************************)
EXTENDS EvolutionEvents, TLC

Symmetry == Permutations(Coordinators) \cup Permutations(Events)
=============================================================================
