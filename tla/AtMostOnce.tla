------------------------------ MODULE AtMostOnce ------------------------------
(***************************************************************************)
(* What "submit once" promises about a set of request ids: each is         *)
(* accepted by the cluster at most once, the client's view of an accepted  *)
(* request is never that it is free, and a view that is bound to the       *)
(* accepted job stays bound.                                               *)
(***************************************************************************)
EXTENDS Naturals

CONSTANT Ids

VARIABLES
    accepted,   \* how many jobs the cluster accepted for an id
    view        \* what the client knows of an id

vars == <<accepted, view>>

Init ==
    /\ accepted = [i \in Ids |-> 0]
    /\ view = [i \in Ids |-> "free"]

\* The client is about to submit: from now on a job may exist.
Venture(i) ==
    /\ view[i] = "free"
    /\ view' = [view EXCEPT ![i] = "doubt"]
    /\ UNCHANGED accepted

Accept(i) ==
    /\ view[i] = "doubt"
    /\ accepted[i] = 0
    /\ accepted' = [accepted EXCEPT ![i] = 1]
    /\ UNCHANGED view

\* The client learns of the job: from sbatch itself or by reconciliation.
Bind(i) ==
    /\ view[i] = "doubt"
    /\ accepted[i] = 1
    /\ view' = [view EXCEPT ![i] = "bound"]
    /\ UNCHANGED accepted

\* The client makes sure that there is no job and may start again.
Absolve(i) ==
    /\ view[i] = "doubt"
    /\ accepted[i] = 0
    /\ view' = [view EXCEPT ![i] = "free"]
    /\ UNCHANGED accepted

Next == \E i \in Ids : Venture(i) \/ Accept(i) \/ Bind(i) \/ Absolve(i)

Spec == Init /\ [][Next]_vars
=============================================================================
