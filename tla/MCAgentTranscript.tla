--------------------------- MODULE MCAgentTranscript ---------------------------
(* AgentTranscript on small instances: two or three turns of a few calls.      *)
EXTENDS AgentTranscript, TLC
=============================================================================
