---------------------------- MODULE MCWorkbenchRuns ----------------------------
(* WorkbenchRuns on small instances: two tasks, clients with two keys.        *)
EXTENDS WorkbenchRuns

CONSTANTS t1, t2, k1, k2
=============================================================================
