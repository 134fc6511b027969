--------------------------- MODULE MCVaspWorkflow ---------------------------
EXTENDS VaspWorkflow

\* A chain: each stage takes its inputs from the one before it.
MCDepends == [s \in Stages |-> IF s = 1 THEN {} ELSE {s - 1}]

\* The first stage can be forced twice, beside a job of an earlier forced attempt.
MCMaxForced == [s \in Stages |-> IF s = 1 THEN 2 ELSE 1]
MCNoneForced == [s \in Stages |-> 0]
=============================================================================
