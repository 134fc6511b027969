------------------------------ MODULE MCRunControl ------------------------------
(* RunControl on small instances.                                              *)
EXTENDS RunControl, TLC

Symmetry == Permutations(Keys) \cup Permutations(Signatures)
=============================================================================
