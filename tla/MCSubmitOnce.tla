---------------------------- MODULE MCSubmitOnce ----------------------------
(* SubmitOnce on small instances: one request, one or two callers.          *)
EXTENDS SubmitOnce, TLC

CONSTANTS r1, a, b, w

CallerSymmetry == Permutations(Submitters)
=============================================================================
