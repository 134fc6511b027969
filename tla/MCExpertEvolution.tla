-------------------------- MODULE MCExpertEvolution --------------------------
(* One evolution task with its commands, for TLC. *)
EXTENDS ExpertEvolution
=============================================================================
