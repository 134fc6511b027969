---------------------------- MODULE VaspWorkflow ----------------------------
(***************************************************************************)
(* The staged VASP workflow (scientific/applications/vasp/unified:         *)
(* service.py, periodic.py, approvals.py, resources.py).                   *)
(*                                                                         *)
(* A workflow is a chain of stages.  Its manifest keeps a state for the    *)
(* whole and one for each stage; the job registry keeps one row for each   *)
(* submission attempt.  The tools load the manifest, act on the registry   *)
(* and on the scheduler, and save the manifest: a process can die before   *)
(* the save, an sbatch can time out, a query can fail.  A stage starts     *)
(* only on validated results of the stages it depends on and, where its    *)
(* resources ask for it, with a decision the user approved.                *)
(*                                                                         *)
(* How one submission talks to the scheduler is the subject of SubmitOnce; *)
(* here it is one step with the outcomes that module shows.  An attempt is *)
(* named <<stage, number>>; number 0 is the request derived from the       *)
(* stage, each other one was forced.                                       *)
(***************************************************************************)
EXTENDS Naturals, FiniteSets, FiniteSetsExt

CONSTANTS NumStages,      \* stages, in the order of the profile
          Depends,        \* the stages each stage takes its inputs from
          NeedsApproval,  \* stages outside the automatic resource budget
          MaxForced,      \* forced attempts of each stage
          MaxDeaths,      \* processes that die
          MaxApprovals,   \* decisions about one stage the user approves
          None            \* "no row", "no request"

Stages   == 1..NumStages
Attempts == UNION {{s} \X (0..MaxForced[s]) : s \in Stages}

StageStates == {"PLANNED", "PREFLIGHTED", "SUBMITTED", "RUNNING", "RECONCILING",
                "SCHEDULER_COMPLETED", "VALIDATED", "VALIDATION_FAILED", "FAILED"}
RowStates   == {"SUBMITTING", "SUBMITTED", "RUNNING", "COMPLETED", "FAILED", "COLLECTED",
                "VALIDATED", "UNKNOWN_RECONCILIATION_REQUIRED"}
Rows        == [state : RowStates, job : Attempts \cup {None}]

ASSUME StagesAssumption ==
    /\ NumStages \in Nat \ {0} /\ {MaxDeaths, MaxApprovals} \subseteq Nat
    /\ MaxForced \in [Stages -> Nat]
    /\ Depends \in [Stages -> SUBSET Stages]
    /\ \A s \in Stages : Depends[s] \subseteq 1..(s - 1)
    /\ NeedsApproval \subseteq Stages
    /\ None \notin Attempts /\ None \notin Rows

Active == {"SUBMITTED", "RUNNING"}

VARIABLES manifest,   \* the state, and for each stage its state and request
          registry,   \* the row of each attempt
          jobs,       \* the job of each attempt, as the scheduler knows it
          evidence,   \* the jobs whose results passed validation
          pending,    \* stages with a decision about the stored revision
          approved,   \* those of them the user has approved
          approvals,  \* how often a decision about the stage was approved
          deaths

vars == <<manifest, registry, jobs, evidence, pending, approved, approvals, deaths>>

decisionVars == <<pending, approved, approvals>>

Init ==
    /\ manifest = [state   |-> "PLANNED",
                   stage   |-> [s \in Stages |-> "PLANNED"],
                   request |-> [s \in Stages |-> None],
                   bound   |-> {}]
    /\ registry = [a \in Attempts |-> None]
    /\ jobs = [a \in Attempts |-> "none"]
    /\ evidence = {} /\ pending = {} /\ approved = {}
    /\ approvals = [s \in Stages |-> 0]
    /\ deaths = 0

-----------------------------------------------------------------------------
(***************************************************************************)
(* Every save is a new revision, and a decision names the revision it is   *)
(* about: what was asked and approved before is about another one.         *)
(***************************************************************************)
SavedWith(m, asked) ==
    manifest' = m /\ pending' = asked /\ approved' = {} /\ UNCHANGED <<approvals, deaths>>

Dies(m, asked) ==
    /\ deaths < MaxDeaths /\ deaths' = deaths + 1
    /\ manifest' = m
    /\ pending' = asked /\ approved' = IF m = manifest THEN approved ELSE {}
    /\ UNCHANGED approvals

\* A tool that acts on the registry first ends with the save, or dies before it.
SavedOrDead(m) == SavedWith(m, {}) \/ Dies(manifest, pending)

Row(s) == LET a == IF manifest.request[s] = None THEN <<s, 0>> ELSE manifest.request[s]
          IN  [id |-> a, row |-> registry[a]]

HasJob(s) == Row(s).row # None /\ Row(s).row.job # None

AttemptsOf(s) == {a \in Attempts : a[1] = s}

\* What squeue and sacct list under the job name: it names the stage, not the attempt.
Candidates(s) == {a \in AttemptsOf(s) : jobs[a] # "none"}

\* The scheduler's answer about a job.
SchedulerState(job) ==
    CASE jobs[job] = "running" -> "RUNNING" [] jobs[job] = "failed" -> "FAILED"
      [] OTHER -> "COMPLETED"

\* Mutant of DependencySatisfied: a job that completed is enough.
DependencyCompleted(m, s) ==
    \A d \in Depends[s] : m.stage[d] \in {"VALIDATED", "SCHEDULER_COMPLETED"}

DependencySatisfied(m, s) == \A d \in Depends[s] : m.stage[d] = "VALIDATED"

-----------------------------------------------------------------------------
(***************************************************************************)
(* "prepare" and "preflight".                                              *)
(***************************************************************************)
AwaitingState == "AWAITING_RESOURCE_CONFIRMATION"

\* The transitions that prepare, preflight and status consult.
Allowed(from, to) ==
    to \in CASE from = "PLANNED"     -> {"PREPARED", "FAILED"}
             [] from = "PREPARED"    -> {"PREFLIGHTED", "FAILED"}
             [] from = "PREFLIGHTED" -> {"SUBMITTED", "FAILED"}
             [] from = "SUBMITTED"   -> {"RUNNING", "SCHEDULER_COMPLETED", "RECONCILING", "FAILED"}
             [] from = "RUNNING"     -> {"SCHEDULER_COMPLETED", "RECONCILING", "FAILED"}
             [] from = "RECONCILING" -> {"SUBMITTED", "RUNNING", "SCHEDULER_COMPLETED", "FAILED"}
             [] from = AwaitingState -> {"PREFLIGHTED", "SUBMITTED", "PREPARED", "FAILED"}
             [] from = "SCHEDULER_COMPLETED" -> {"VALIDATED", "VALIDATION_FAILED",
                                                 "PREFLIGHTED", "FAILED"}
             [] from = "VALIDATED"   -> {"PREFLIGHTED", "FAILED"}
             [] OTHER                -> {}

Prepare ==
    /\ Allowed(manifest.state, "PREPARED")
    /\ \E state \in {"PREPARED", "FAILED"} : SavedWith([manifest EXCEPT !.state = state], {})
    /\ UNCHANGED <<registry, jobs, evidence>>

\* The next stage whose inputs are there.
Ready(m, state) == {s \in Stages : m.stage[s] = state /\ DependencySatisfied(m, s)}

Preflighted ==
    [manifest EXCEPT !.state = "PREFLIGHTED",
                     !.stage = [s \in Stages |->
                         IF s \in Ready(manifest, "PLANNED") /\ s = Min(Ready(manifest, "PLANNED"))
                         THEN "PREFLIGHTED" ELSE @[s]]]

Preflight ==
    /\ Allowed(manifest.state, "PREFLIGHTED")
    /\ \/ SavedWith(Preflighted, {})
       \/ SavedWith([manifest EXCEPT !.state = "FAILED"], {})
    /\ UNCHANGED <<registry, jobs, evidence>>

-----------------------------------------------------------------------------
(***************************************************************************)
(* "submit": choose the stage, bind its identity, ask or use the decision, *)
(* submit the request, and save.                                           *)
(***************************************************************************)
\* The caller names a stage, or the first that is ready is taken.  A workflow that has
\* begun is submitted again only for a stage that was never submitted.
Submittable(s) ==
    /\ DependencySatisfied(manifest, s)
    /\ \/ manifest.state \in {"PREFLIGHTED", AwaitingState}
       \/ manifest.state = "VALIDATED" /\ manifest.stage[s] \in {"PLANNED", "PREFLIGHTED"}
       \/ /\ manifest.state \in Active \cup {"RECONCILING", "SCHEDULER_COMPLETED"}
          /\ Row(s).row = None /\ manifest.request[s] = None

\* The manifest in hand when the decision is taken: the identity is bound.
InHand(s) ==
    LET progressed == IF manifest.state = "VALIDATED"
                      THEN [manifest EXCEPT !.state = "PREFLIGHTED", !.stage[s] = "PREFLIGHTED"]
                      ELSE manifest
    IN  [progressed EXCEPT !.bound = @ \cup {s}]

\* What of it is stored by then: binding a new identity saves, an old one does not.
Stored(s) == IF s \in manifest.bound THEN manifest ELSE InHand(s)

\* Mutant of MayRun: any decision the user ever approved for the stage.
MayRunOnceApproved(s) == s \notin NeedsApproval \/ approvals[s] > 0

\* The automatic budget, or an approved decision about the revision in hand.
MayRun(s) == s \notin NeedsApproval \/ (s \in manifest.bound /\ s \in approved)

SubmitAsks(s) ==
    /\ Submittable(s) /\ ~MayRun(s)
    /\ \/ SavedWith([InHand(s) EXCEPT !.state = AwaitingState], {s})
       \/ Dies(Stored(s), IF s \in manifest.bound THEN pending \cup {s} ELSE {s})
    /\ UNCHANGED <<registry, jobs, evidence>>

\* The user approves a decision about the stored revision.
Approve(s) ==
    /\ s \in pending \ approved /\ approvals[s] < MaxApprovals
    /\ approved' = approved \cup {s}
    /\ approvals' = [approvals EXCEPT ![s] = @ + 1]
    /\ UNCHANGED <<manifest, registry, jobs, evidence, pending, deaths>>

\* The manifest after the request id came back with a job, or without a decision.
Submitted(s, id) ==
    [InHand(s) EXCEPT !.state = "SUBMITTED", !.stage[s] = "SUBMITTED", !.request[s] = id]
Unresolved(s)    == [InHand(s) EXCEPT !.state = "RECONCILING"]
NotSubmitted(s)  == [InHand(s) EXCEPT !.state = "FAILED"]

\* The save at the end of a submit that reached the executor.
Finish(s, m) == SavedWith(m, {}) \/ Dies(Stored(s), IF Stored(s) = manifest THEN pending ELSE {})

NewRow(id, state, job) == registry' = [registry EXCEPT ![id] = [state |-> state, job |-> job]]
NewJob(id) == jobs' = [jobs EXCEPT ![id] = "running"]

\* One sbatch for the request: accepted, rejected or answered with a reply nobody can
\* read, or its reply is lost.
Sbatch(s, id) ==
    \/ NewRow(id, "SUBMITTED", id) /\ NewJob(id) /\ Finish(s, Submitted(s, id))
    \/ /\ NewRow(id, "FAILED", None)
       /\ NewJob(id) \/ UNCHANGED jobs
       /\ Finish(s, NotSubmitted(s))
    \/ /\ NewRow(id, "SUBMITTING", None)
       /\ NewJob(id) \/ UNCHANGED jobs
       /\ Finish(s, Unresolved(s))

\* Mutant of Retryable: every request with a job is submitted anew.
RetryableAlways(row) == row # None /\ row.job # None

\* A request whose job the scheduler reported as failed gets a new attempt.
Retryable(row) == row # None /\ row.job # None /\ row.state = "FAILED"

Forced(s) ==
    \E n \in 1..MaxForced[s] :
        /\ registry[<<s, n>>] = None
        /\ \A k \in 1..(n - 1) : registry[<<s, k>>] # None
        /\ Sbatch(s, <<s, n>>)

\* A request with a row but no job: only a scan that finds nothing allows an sbatch.
\* The stage has no other attempt then, so a job that is found is its own; one of a request
\* recorded as failed, or in a state nobody can read, is reported for reconciliation.
Reconciled(s, id) ==
    \/ Candidates(s) = {} /\ Sbatch(s, id)
    \/ \E job \in Candidates(s) :
           /\ NewRow(id, SchedulerState(job), job) /\ UNCHANGED jobs
           /\ Finish(s, IF registry[id].state = "FAILED" THEN Unresolved(s)
                        ELSE Submitted(s, id))
    \/ \E job \in Candidates(s) :
           /\ NewRow(id, "UNKNOWN_RECONCILIATION_REQUIRED", job) /\ UNCHANGED jobs
           /\ Finish(s, Unresolved(s))
    \/ UNCHANGED <<registry, jobs>> /\ Finish(s, Unresolved(s))

SubmitRuns(s) ==
    /\ Submittable(s) /\ MayRun(s)
    /\ LET id == Row(s).id
           row == Row(s).row
       IN  \/ row = None /\ Sbatch(s, id)
           \/ Retryable(row) /\ Forced(s)
           \/ row # None /\ row.job = None /\ row.state \in {"SUBMITTING", "FAILED"}
                  /\ Reconciled(s, id)
           \/ /\ UNCHANGED <<registry, jobs>>
              /\ \/ Finish(s, NotSubmitted(s))   \* an input or the preflight is refused
                 \/ /\ row # None /\ row.state = "UNKNOWN_RECONCILIATION_REQUIRED"
                    /\ Finish(s, Unresolved(s))
    /\ UNCHANGED evidence

-----------------------------------------------------------------------------
(***************************************************************************)
(* "status" and "wait": pull each job the registry knows, then the stages, *)
(* then the workflow.                                                      *)
(***************************************************************************)
Answer(s) == IF HasJob(s) THEN SchedulerState(Row(s).row.job) ELSE "NOT_FOUND"

Pulled(s) == {Answer(s)} \cup IF HasJob(s) THEN {"UNKNOWN"} ELSE {}

\* One observation of each stage, from the pairs of a stage and what can be seen of it.
Observations(pairs) ==
    {seen \in [Stages -> {p[2] : p \in pairs}] : \A s \in Stages : <<s, seen[s]>> \in pairs}

Pulls == Observations(UNION {{s} \X Pulled(s) : s \in Stages})

OnRecord(a) == Row(a[1]).id = a

\* The rows after each stage was pulled with the outcome seen.
RowsAfter(seen) ==
    [a \in Attempts |->
        IF OnRecord(a) /\ HasJob(a[1]) /\ seen[a[1]] \in {"RUNNING", "COMPLETED", "FAILED"}
        THEN [registry[a] EXCEPT !.state = seen[a[1]]]
        ELSE registry[a]]

\* One observation of a stage, read as a stage state.
Mapped(s, raw) ==
    IF raw \in {"UNKNOWN", "UNKNOWN_RECONCILIATION_REQUIRED"}
       \/ (raw = "NOT_FOUND" /\ manifest.request[s] # None) THEN "RECONCILING"
    ELSE IF raw = "NOT_FOUND"
    THEN IF manifest.stage[s] = "PREFLIGHTED" THEN "PREFLIGHTED" ELSE "PLANNED"
    ELSE IF raw = "COMPLETED" THEN "SCHEDULER_COMPLETED" ELSE raw

\* A validated stage is not downgraded by a completion, or for want of a row.
StagesAfter(seen) ==
    [s \in Stages |->
        IF manifest.stage[s] = "VALIDATED"
           /\ Mapped(s, seen[s]) \in {"SCHEDULER_COMPLETED", "PLANNED"}
        THEN "VALIDATED" ELSE Mapped(s, seen[s])]

Undecided(raw) == raw \in {"NOT_FOUND", "UNKNOWN", "UNKNOWN_RECONCILIATION_REQUIRED"}

MustReconcile(seen) == \E s \in Stages : Mapped(s, seen[s]) = "RECONCILING"

\* Mutant of AllCompleted: a stage that was never submitted counts as unfinished.
AllStagesCompleted(seen) == \A s \in Stages : seen[s] = "COMPLETED"

AllCompleted(seen) == \A s \in Stages : Undecided(seen[s]) \/ seen[s] = "COMPLETED"

\* The state the observations imply; the present one when nothing was decided.
Implied(seen) ==
    IF \E s \in Stages : seen[s] = "FAILED" THEN "FAILED"
    ELSE IF MustReconcile(seen) THEN "RECONCILING"
    ELSE IF \A s \in Stages : Undecided(seen[s]) THEN manifest.state
    ELSE IF ~AllCompleted(seen) THEN "RUNNING"
    ELSE IF manifest.state = "VALIDATED" THEN "VALIDATED" ELSE "SCHEDULER_COMPLETED"

\* An implied state that cannot follow: kept in the final states, a failure elsewhere.
Observed(implied) ==
    IF implied = manifest.state \/ Allowed(manifest.state, implied) THEN implied
    ELSE IF manifest.state \in {"SCHEDULER_COMPLETED", "VALIDATED", "VALIDATION_FAILED", "FAILED"}
    THEN manifest.state ELSE "FAILED"

Status(seen) ==
    /\ registry' = RowsAfter(seen)
    /\ SavedOrDead([manifest EXCEPT !.state = Observed(Implied(seen)),
                                    !.stage = StagesAfter(seen)])
    /\ UNCHANGED <<jobs, evidence>>

-----------------------------------------------------------------------------
(***************************************************************************)
(* "resume": reconcile the stages in turn; a query that fails, or an       *)
(* answer that names several jobs or a job in a state nobody can read,     *)
(* ends the call.                                                          *)
(***************************************************************************)
\* What the shared name can be found to stand for.
Named(s) ==
    CASE Candidates(s) = {}             -> {"NOT_FOUND"}
      [] Cardinality(Candidates(s)) > 1 -> {"MULTIPLE"}
      [] OTHER -> {"UNKNOWN"} \cup {SchedulerState(a) : a \in Candidates(s)}

\* What the reconciliation of s can find: by its job, else by the name, or not at all.
Found(s) ==
    IF Row(s).row = None THEN {"NOT_FOUND"}
    ELSE {"ERROR"} \cup Named(s) \cup IF HasJob(s) THEN {Answer(s)} ELSE {}

\* The stages are asked in turn, until one stops the call.
Stops == {"MULTIPLE", "UNKNOWN", "ERROR"}

Asked(found, s) == \A t \in 1..(s - 1) : found[t] \notin Stops

Findings ==
    LET pairs == UNION {{s} \X Found(s) : s \in Stages} IN
    {found \in Observations(pairs \cup (Stages \X {"NOT_FOUND"})) :
         \A s \in Stages : IF Asked(found, s) THEN <<s, found[s]>> \in pairs
                                            ELSE found[s] = "NOT_FOUND"}

RowReconciled(s, found) ==
    LET row == Row(s).row IN
    CASE found \in {"NOT_FOUND", "ERROR"} -> row
      [] found = "MULTIPLE" -> [row EXCEPT !.state = "UNKNOWN_RECONCILIATION_REQUIRED"]
      [] OTHER -> [state |-> IF found = "UNKNOWN" THEN "UNKNOWN_RECONCILIATION_REQUIRED"
                             ELSE found,
                   job |-> IF HasJob(s) THEN row.job ELSE CHOOSE a \in Candidates(s) : TRUE]

\* The stage whose registry row, or manifest, proves that its results are valid.
ProvenValid(s, rows) ==
    \/ manifest.stage[s] = "VALIDATED"
    \/ rows[Row(s).id] # None /\ rows[Row(s).id].state = "VALIDATED"

\* The first stage that nothing upstream blocks failed at the scheduler.
BlockingStageFailed(found, rows) ==
    LET open == {s \in Stages : ~ProvenValid(s, rows) /\ \A d \in Depends[s] : ProvenValid(d, rows)}
    IN  open # {} /\ found[Min(open)] = "FAILED"

EverySubmissionFailed(found) ==
    /\ \E s \in Stages : found[s] # "NOT_FOUND"
    /\ \A s \in Stages : found[s] \in {"NOT_FOUND", "FAILED"}

Recovered(found, rows) ==
    IF \E s \in Stages : found[s] \in {"MULTIPLE", "UNKNOWN"} THEN "RECONCILING"
    ELSE IF \E s \in Stages : found[s] = "ERROR" THEN "FAILED"
    ELSE IF BlockingStageFailed(found, rows) \/ EverySubmissionFailed(found) THEN "PREFLIGHTED"
    ELSE IF \E s \in Stages : found[s] = "RUNNING" THEN "RUNNING" ELSE "RECONCILING"

Resume(found) ==
    LET rows == [a \in Attempts |-> IF OnRecord(a) THEN RowReconciled(a[1], found[a[1]])
                                    ELSE registry[a]]
    IN  /\ registry' = rows
        /\ SavedOrDead([manifest EXCEPT !.state = Recovered(found, rows)])
        /\ UNCHANGED <<jobs, evidence>>

-----------------------------------------------------------------------------
(***************************************************************************)
(* "collect": download and validate what the registry says is finished.    *)
(* Results that can validate may still be refused: the structure they are  *)
(* compared with lies in the workspace and changes.                        *)
(***************************************************************************)
Collected(s) ==
    IF ~HasJob(s) THEN {"NOT_FOUND"}
    ELSE IF Row(s).row.state \notin {"COMPLETED", "COLLECTED", "VALIDATED"} THEN {Row(s).row.state}
    ELSE {"UNKNOWN", "VALIDATION_FAILED"}
         \cup IF jobs[Row(s).row.job] = "completed" THEN {"VALIDATED"} ELSE {}

\* Collection has transitions of its own.
CollectAllowed(from, to) ==
    to \in CASE from \in {"PLANNED", "PREPARED"} -> {"VALIDATION_FAILED", "RECONCILING"}
             [] from = "PREFLIGHTED" -> {"VALIDATED", "VALIDATION_FAILED", "RUNNING", "RECONCILING"}
             [] from = "SUBMITTED"   -> {"VALIDATED", "SCHEDULER_COMPLETED", "VALIDATION_FAILED",
                                         "RUNNING", "RECONCILING"}
             [] from = "RECONCILING" -> {"VALIDATED", "SCHEDULER_COMPLETED", "VALIDATION_FAILED",
                                         "RUNNING"}
             [] from \in {"RUNNING", "SCHEDULER_COMPLETED", "VALIDATED", "VALIDATION_FAILED"} ->
                                        {"VALIDATED", "SCHEDULER_COMPLETED", "VALIDATION_FAILED",
                                         "RECONCILING"}
             [] from = "FAILED"      -> {"VALIDATION_FAILED"}
             [] OTHER                -> {}

\* The state a collection ends in.  An error of a stage is FAILED, or UNKNOWN.
Decided(seen) ==
    LET some(state) == \E s \in Stages : seen[s] = state IN
    IF MustReconcile(seen) THEN "RECONCILING"
    ELSE IF some("FAILED") \/ some("VALIDATION_FAILED") THEN "VALIDATION_FAILED"
    ELSE IF \A s \in Stages : seen[s] = "VALIDATED" THEN "VALIDATED"
    ELSE IF some("VALIDATED") THEN "SCHEDULER_COMPLETED" ELSE "RUNNING"

Collect(seen) ==
    LET next == Decided(seen)
    IN  /\ registry' = [a \in Attempts |->
               IF ~OnRecord(a) THEN registry[a]
               ELSE IF seen[a[1]] = "VALIDATED" THEN [registry[a] EXCEPT !.state = "VALIDATED"]
               ELSE IF seen[a[1]] = "VALIDATION_FAILED" /\ registry[a].state = "COMPLETED"
               THEN [registry[a] EXCEPT !.state = "COLLECTED"] ELSE registry[a]]
        /\ SavedOrDead([manifest EXCEPT
               !.state = IF next = manifest.state \/ CollectAllowed(manifest.state, next)
                         THEN next ELSE "FAILED",
               !.stage = StagesAfter(seen)])
        /\ evidence' = evidence \cup {Row(s).row.job : s \in {t \in Stages : seen[t] = "VALIDATED"}}
        /\ UNCHANGED jobs

-----------------------------------------------------------------------------
\* The job ends: with results that validate, with others, or with a failure.
JobEnds(a) ==
    /\ jobs[a] = "running"
    /\ \E end \in {"completed", "invalid", "failed"} : jobs' = [jobs EXCEPT ![a] = end]
    /\ UNCHANGED <<manifest, registry, evidence, decisionVars, deaths>>

Next ==
    \/ Prepare \/ Preflight
    \/ \E s \in Stages : SubmitAsks(s) \/ Approve(s) \/ SubmitRuns(s)
    \/ \E seen \in Pulls : Status(seen)
    \/ \E seen \in Observations(UNION {{s} \X Collected(s) : s \in Stages}) : Collect(seen)
    \/ \E found \in Findings : Resume(found)
    \/ \E a \in Attempts : JobEnds(a)

Spec == Init /\ [][Next]_vars

\* A pull of an active workflow with every query answered.
Wait ==
    /\ manifest.state \in Active
    /\ \E seen \in Observations({<<s, Answer(s)>> : s \in Stages}) : Status(seen)

\* Jobs end, and somebody waits: while the workflow is active its status is pulled again
\* and again, and now and then every query is answered.
FairSpec == Spec /\ WF_vars(Wait) /\ WF_vars(\E a \in Attempts : JobEnds(a))
-----------------------------------------------------------------------------
\* Each variable has its type; only an attempt whose request has a row has a job.
TypeOK ==
    /\ manifest \in [state   : StageStates \cup {"PREPARED", AwaitingState},
                     stage   : [Stages -> StageStates],
                     request : [Stages -> Attempts \cup {None}],
                     bound   : SUBSET Stages]
    /\ registry \in [Attempts -> Rows \cup {None}]
    /\ jobs \in [Attempts -> {"none", "running", "completed", "invalid", "failed"}]
    /\ \A a \in Attempts : jobs[a] # "none" => registry[a] # None
    /\ evidence \subseteq {a \in Attempts : jobs[a] = "completed"}
    /\ approved \subseteq pending /\ pending \subseteq Stages
    /\ approvals \in [Stages -> 0..MaxApprovals] /\ deaths \in 0..MaxDeaths

\* A stage runs only on results that passed validation: a job exists only when each
\* stage it takes its inputs from has a validated job, whatever was re-collected, could
\* not be queried or was submitted again meanwhile (_dependency_errors, service.py).
RunsOnEvidence ==
    /\ TypeOK
    /\ \A a \in Attempts : jobs[a] # "none" =>
           \A d \in Depends[a[1]] : AttemptsOf(d) \cap evidence # {}

\* Each job of a stage outside the budget was approved on its own: an approval serves
\* for a second job only when the process died between the submission and the save,
\* and there is at most one such job for each death
\* (resources.py decide, approvals.py valid_receipt).
EachJobApproved ==
    \A s \in NeedsApproval :
        Cardinality({a \in AttemptsOf(s) : jobs[a] # "none"}) <= approvals[s] + deaths

\* A second job of a stage is never started while the job on record is alive or done
\* (periodic.py submit, "never for RUNNING/PENDING, COMPLETED, or ambiguous state"): the
\* first request failed before any other was forced, and of the jobs that did not fail all
\* but one are jobs whose id the registry never got or whose process died before the save
\* - the one way in which the code does submit beside a live job.
RetriesAccounted ==
    \A s \in Stages :
        LET submitted == {a \in AttemptsOf(s) : jobs[a] # "none"}
            unfailed  == {a \in submitted : jobs[a] # "failed"}
            lost      == {a \in submitted : registry[a].job = None} IN
        /\ submitted \subseteq {<<s, 0>>} \/ jobs[<<s, 0>>] = "failed"
        /\ Cardinality(unfailed) <= 1 + Cardinality(lost) + deaths

\* A workflow that waits for a job the registry knows does not wait for ever: its end
\* reaches the manifest, also when later stages were never submitted
\* (_next_workflow_state, "poll until the heat death of the cluster").
WaitSettles ==
    (manifest.state \in Active /\ \E s \in Stages : HasJob(s)) ~> manifest.state \notin Active

\* Not true of the code: a status query fails the workflow only on evidence that a job
\* failed ("only an explicit contradiction escalates to FAILED", _apply_observed_state).
\* Between the preflight and the submit of a later stage, it does so for a completed one.
StatusFailsOnEvidence ==
    \A seen \in Pulls :
        manifest.state # "FAILED" /\ Observed(Implied(seen)) = "FAILED"
            => \E a \in Attempts : jobs[a] = "failed"

\* Not true of the code: a stage has one live job.  When the sbatch of a forced attempt
\* times out, its id is not recorded and the failed request is forced once more.
OneLiveJob ==
    \A s \in Stages : Cardinality({a \in AttemptsOf(s) : jobs[a] = "running"}) <= 1
=============================================================================
