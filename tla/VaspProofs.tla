------------------------------ MODULE VaspProofs ------------------------------
(***************************************************************************)
(* Theorems about VaspWorkflow for every number of stages, every graph of    *)
(* dependencies, and any number of forced attempts, approvals and deaths: a  *)
(* stage runs on validated results, each job beside an unfailed one of its   *)
(* stage is owed to a lost reply or a death, and each job outside the budget *)
(* has an approval of its own.                                               *)
(***************************************************************************)
EXTENDS VaspWorkflow, FiniteSetTheorems, TLAPS

-----------------------------------------------------------------------------
(* The inductive invariant.                                                 *)

ManifestType ==
    [state   : StageStates \cup {"PREPARED", AwaitingState},
     stage   : [Stages -> StageStates],
     request : [Stages -> Attempts \cup {None}],
     bound   : SUBSET Stages]

\* The request of a stage is one of its attempts, has a row, and was forced only
\* after the job of the first one failed.
Requests ==
    \A s \in Stages : manifest.request[s] # None =>
        /\ manifest.request[s] \in AttemptsOf(s) /\ registry[manifest.request[s]] # None
        /\ manifest.request[s][2] # 0 => jobs[<<s, 0>>] = "failed"

\* The job a row names is a job of its stage, and has failed if the row says so; a
\* submission in progress has no job yet.
RowsTrue ==
    \A a \in Attempts : registry[a] # None /\ registry[a].job # None =>
        /\ registry[a].job \in AttemptsOf(a[1]) /\ jobs[registry[a].job] # "none"
        /\ registry[a].state # "SUBMITTING"
        /\ registry[a].state = "FAILED" => jobs[registry[a].job] = "failed"

\* A stage has a forced attempt only after the job of its first request failed.
FirstFailed == \A a \in Attempts : a[2] # 0 /\ jobs[a] # "none" => jobs[<<a[1], 0>>] = "failed"

HasEvidence(s) == AttemptsOf(s) \cap evidence # {}

ValidatedTrue == \A s \in Stages : manifest.stage[s] = "VALIDATED" => HasEvidence(s)

Supplied == \A a \in Attempts : jobs[a] # "none" => \A d \in Depends[a[1]] : HasEvidence(d)

IInv == /\ StagesAssumption /\ TypeOK
        /\ Requests /\ RowsTrue /\ ValidatedTrue /\ Supplied /\ FirstFailed

LEMMA AttemptFacts ==
    /\ \A a \in Attempts : a[1] \in Stages /\ a[2] \in 0..MaxForced[a[1]] /\ a = <<a[1], a[2]>>
                           /\ a \in AttemptsOf(a[1])
    /\ \A s \in Stages : \A n \in 0..MaxForced[s] : <<s, n>> \in Attempts /\ <<s, n>> \in AttemptsOf(s)
    /\ \A s \in Stages : \A a \in AttemptsOf(s) : a \in Attempts /\ a[1] = s
    /\ StagesAssumption => \A s \in Stages : <<s, 0>> \in AttemptsOf(s)
BY DEF Attempts, AttemptsOf, StagesAssumption

LEMMA IInvInit == StagesAssumption /\ Init => IInv
<1> SUFFICES ASSUME StagesAssumption, Init
             PROVE  IInv
  OBVIOUS
<1>1. manifest \in ManifestType
  BY DEF Init, ManifestType, StageStates
<1>2. TypeOK
  BY <1>1 DEF Init, TypeOK, ManifestType, StagesAssumption
<1>3. Requests /\ RowsTrue /\ ValidatedTrue /\ Supplied /\ FirstFailed
  BY DEF Init, Requests, RowsTrue, ValidatedTrue, Supplied, FirstFailed
<1> QED BY <1>2, <1>3 DEF IInv

LEMMA TypeFacts ==
    ASSUME IInv
    PROVE  /\ manifest \in ManifestType /\ registry \in [Attempts -> Rows \cup {None}]
           /\ jobs \in [Attempts -> {"none", "running", "completed", "invalid", "failed"}]
           /\ \A a \in Attempts : jobs[a] # "none" => registry[a] # None
           /\ evidence \subseteq Attempts /\ \A a \in evidence : jobs[a] = "completed"
           /\ approved \subseteq pending /\ pending \subseteq Stages
           /\ approvals \in [Stages -> 0..MaxApprovals] /\ deaths \in 0..MaxDeaths
           /\ MaxDeaths \in Nat /\ MaxApprovals \in Nat /\ None \notin Rows /\ None \notin Attempts
BY DEF IInv, TypeOK, ManifestType, StagesAssumption

\* The request a stage goes by, and its row.
LEMMA RowFacts ==
    ASSUME IInv, NEW s \in Stages
    PROVE  /\ Row(s).id \in AttemptsOf(s) /\ Row(s).id \in Attempts
           /\ Row(s).row = registry[Row(s).id] /\ Row(s).row \in Rows \cup {None}
           /\ Row(s).id[2] # 0 => jobs[<<s, 0>>] = "failed"
           /\ HasJob(s) => /\ Row(s).row \in Rows /\ Row(s).row.job \in AttemptsOf(s)
                           /\ Row(s).row.job \in Candidates(s)
                           /\ Row(s).row.state # "SUBMITTING"
                           /\ Row(s).row.state = "FAILED" => jobs[Row(s).row.job] = "failed"
<1>1. Row(s).id = IF manifest.request[s] = None THEN <<s, 0>> ELSE manifest.request[s]
  BY DEF Row
<1>2. Row(s).row = registry[Row(s).id]
  BY DEF Row
<1>3. Row(s).id \in AttemptsOf(s) /\ (Row(s).id[2] # 0 => jobs[<<s, 0>>] = "failed")
  <2>1. CASE manifest.request[s] = None
    BY <1>1, <2>1, AttemptFacts DEF IInv
  <2>2. CASE manifest.request[s] # None
    BY <1>1, <2>2 DEF IInv, Requests
  <2> QED BY <2>1, <2>2
<1>4. Row(s).id \in Attempts /\ Row(s).id[1] = s /\ Row(s).row \in Rows \cup {None}
  BY <1>2, <1>3, AttemptFacts, TypeFacts
<1>5. ASSUME HasJob(s)
      PROVE  /\ Row(s).row \in Rows /\ Row(s).row.job \in AttemptsOf(s)
             /\ Row(s).row.job \in Candidates(s)
             /\ Row(s).row.state # "SUBMITTING"
             /\ Row(s).row.state = "FAILED" => jobs[Row(s).row.job] = "failed"
  BY <1>2, <1>4, <1>5 DEF HasJob, IInv, RowsTrue, Candidates
<1> QED BY <1>2, <1>3, <1>4, <1>5

-----------------------------------------------------------------------------
(* How an operation ends: with the save of the manifest, or before it.      *)

Saving ==
    /\ manifest' \in ManifestType
    /\ approvals' = approvals /\ deaths' \in 0..MaxDeaths
    /\ approved' \subseteq approved /\ approved' \subseteq pending' /\ pending' \subseteq Stages
    /\ (approved' = {} /\ deaths' = deaths) \/ deaths' = deaths + 1

LEMMA SavedIsSaving ==
    ASSUME IInv, NEW m \in ManifestType, NEW asked \in SUBSET Stages, SavedWith(m, asked)
    PROVE  Saving /\ manifest' = m
BY TypeFacts DEF SavedWith, Saving

LEMMA DiesIsSaving ==
    ASSUME IInv, NEW m \in ManifestType, NEW asked \in SUBSET Stages, Dies(m, asked),
           m = manifest => approved \subseteq asked
    PROVE  Saving /\ manifest' = m
BY TypeFacts DEF Dies, Saving

LEMMA SavedOrDeadIsSaving ==
    ASSUME IInv, NEW m \in ManifestType, SavedOrDead(m)
    PROVE  Saving /\ manifest' \in {manifest, m}
<1>1. CASE SavedWith(m, {})
  BY <1>1, SavedIsSaving
<1>2. CASE Dies(manifest, pending)
  BY <1>2, DiesIsSaving, TypeFacts
<1> QED BY <1>1, <1>2 DEF SavedOrDead

\* The manifest that a submit has in hand, and those it can end with.
LEMMA InHandTyped ==
    ASSUME IInv, NEW s \in Stages
    PROVE  /\ InHand(s) \in ManifestType /\ Stored(s) \in ManifestType
           /\ InHand(s).request = manifest.request
           /\ s \in InHand(s).bound
           /\ \A t \in Stages : InHand(s).stage[t] = "VALIDATED" => manifest.stage[t] = "VALIDATED"
<1>1. manifest \in ManifestType
  BY TypeFacts
<1> DEFINE progressed == IF manifest.state = "VALIDATED"
                         THEN [manifest EXCEPT !.state = "PREFLIGHTED", !.stage[s] = "PREFLIGHTED"]
                         ELSE manifest
<1>2. /\ progressed \in ManifestType /\ progressed.request = manifest.request
      /\ \A t \in Stages : progressed.stage[t] = "VALIDATED" => manifest.stage[t] = "VALIDATED"
  BY <1>1 DEF ManifestType, StageStates
<1>3. InHand(s) = [progressed EXCEPT !.bound = @ \cup {s}]
  BY DEF InHand
<1> HIDE DEF progressed
<1>4. /\ InHand(s) \in ManifestType /\ InHand(s).request = manifest.request
      /\ s \in InHand(s).bound
      /\ \A t \in Stages : InHand(s).stage[t] = "VALIDATED" => manifest.stage[t] = "VALIDATED"
  BY <1>2, <1>3 DEF ManifestType
<1> QED BY <1>1, <1>4 DEF Stored

\* What a submit keeps of the manifest: no stage becomes valid, and the only request
\* that can change is the one submitted.
KeepsStages(m, s, id) ==
    /\ \A t \in Stages : m.stage[t] = "VALIDATED" => manifest.stage[t] = "VALIDATED"
    /\ \A t \in Stages : m.request[t] = manifest.request[t] \/ (t = s /\ m.request[t] = id)

LEMMA EndsTyped ==
    ASSUME IInv, NEW s \in Stages, NEW id \in AttemptsOf(s)
    PROVE  /\ Submitted(s, id) \in ManifestType /\ KeepsStages(Submitted(s, id), s, id)
           /\ Unresolved(s) \in ManifestType /\ KeepsStages(Unresolved(s), s, None)
           /\ NotSubmitted(s) \in ManifestType /\ KeepsStages(NotSubmitted(s), s, None)
           /\ Stored(s) \in ManifestType /\ KeepsStages(Stored(s), s, None)
           /\ [InHand(s) EXCEPT !.state = AwaitingState] \in ManifestType
           /\ KeepsStages([InHand(s) EXCEPT !.state = AwaitingState], s, None)
<1>1. /\ InHand(s) \in ManifestType /\ InHand(s).request = manifest.request
      /\ \A t \in Stages : InHand(s).stage[t] = "VALIDATED" => manifest.stage[t] = "VALIDATED"
  BY InHandTyped
<1>2. id \in Attempts
  BY AttemptFacts
<1>3. Submitted(s, id) \in ManifestType /\ KeepsStages(Submitted(s, id), s, id)
  BY <1>1, <1>2 DEF Submitted, KeepsStages, ManifestType, StageStates
<1>4. /\ Unresolved(s) \in ManifestType /\ KeepsStages(Unresolved(s), s, None)
      /\ NotSubmitted(s) \in ManifestType /\ KeepsStages(NotSubmitted(s), s, None)
  BY <1>1 DEF Unresolved, NotSubmitted, KeepsStages, ManifestType, StageStates
<1>5. Stored(s) \in ManifestType /\ KeepsStages(Stored(s), s, None)
  BY <1>1, TypeFacts DEF Stored, KeepsStages
<1>6. /\ [InHand(s) EXCEPT !.state = AwaitingState] \in ManifestType
      /\ KeepsStages([InHand(s) EXCEPT !.state = AwaitingState], s, None)
  BY <1>1 DEF KeepsStages, ManifestType
<1> QED BY <1>3, <1>4, <1>5, <1>6

LEMMA FinishIsSaving ==
    ASSUME IInv, NEW s \in Stages, NEW m \in ManifestType, Finish(s, m)
    PROVE  Saving /\ manifest' \in {m, Stored(s)}
<1>1. CASE SavedWith(m, {})
  BY <1>1, SavedIsSaving
<1>2. CASE Dies(Stored(s), IF Stored(s) = manifest THEN pending ELSE {})
  <2> DEFINE asked == IF Stored(s) = manifest THEN pending ELSE {}
  <2>1. asked \in SUBSET Stages /\ (Stored(s) = manifest => approved \subseteq asked)
    BY TypeFacts
  <2>2. Stored(s) \in ManifestType
    BY InHandTyped
  <2> HIDE DEF asked
  <2>3. Dies(Stored(s), asked)
    BY <1>2 DEF asked
  <2> QED BY <2>1, <2>2, <2>3, DiesIsSaving
<1> QED BY <1>1, <1>2 DEF Finish

-----------------------------------------------------------------------------
(* A submission.                                                            *)

NewJobTrue(id) == jobs' = jobs \/ (jobs[id] = "none" /\ NewJob(id) /\ registry'[id] # None)

NewRowTrue(s, id) ==
    \/ registry' = registry
    \/ \E r \in Rows :
           /\ registry' = [registry EXCEPT ![id] = r]
           /\ r.job # None => /\ r.job \in AttemptsOf(s) /\ jobs'[r.job] # "none"
                              /\ r.state # "SUBMITTING"
                              /\ r.state = "FAILED" => jobs'[r.job] = "failed"

ManifestTrue(s, id) ==
    /\ \A t \in Stages : manifest'.stage[t] = "VALIDATED" => manifest.stage[t] = "VALIDATED"
    /\ \A t \in Stages :
           \/ manifest'.request[t] = manifest.request[t]
           \/ t = s /\ manifest'.request[t] = None
           \/ t = s /\ manifest'.request[t] = id /\ registry'[id] # None

\* What one submission of stage s does, as attempt id.
Outcome(s, id) ==
    /\ id \in AttemptsOf(s) /\ (id[2] # 0 => jobs[<<s, 0>>] = "failed")
    /\ NewJobTrue(id) /\ NewRowTrue(s, id) /\ ManifestTrue(s, id) /\ Saving

LEMMA FinishTrue ==
    ASSUME IInv, NEW s \in Stages, NEW id \in AttemptsOf(s),
           \/ Finish(s, Submitted(s, id)) /\ registry'[id] # None
           \/ Finish(s, Unresolved(s)) \/ Finish(s, NotSubmitted(s))
    PROVE  Saving /\ ManifestTrue(s, id)
<1>1. /\ Submitted(s, id) \in ManifestType /\ KeepsStages(Submitted(s, id), s, id)
      /\ Unresolved(s) \in ManifestType /\ KeepsStages(Unresolved(s), s, None)
      /\ NotSubmitted(s) \in ManifestType /\ KeepsStages(NotSubmitted(s), s, None)
      /\ KeepsStages(Stored(s), s, None)
  BY EndsTyped
<1>2. CASE Finish(s, Submitted(s, id)) /\ registry'[id] # None
  <2>1. Saving /\ manifest' \in {Submitted(s, id), Stored(s)}
    BY <1>1, <1>2, FinishIsSaving
  <2> QED BY <1>1, <1>2, <2>1 DEF KeepsStages, ManifestTrue
<1>3. CASE Finish(s, Unresolved(s))
  <2>1. Saving /\ manifest' \in {Unresolved(s), Stored(s)}
    BY <1>1, <1>3, FinishIsSaving
  <2> QED BY <1>1, <2>1 DEF KeepsStages, ManifestTrue
<1>4. CASE Finish(s, NotSubmitted(s))
  <2>1. Saving /\ manifest' \in {NotSubmitted(s), Stored(s)}
    BY <1>1, <1>4, FinishIsSaving
  <2> QED BY <1>1, <2>1 DEF KeepsStages, ManifestTrue
<1> QED BY <1>2, <1>3, <1>4

\* One sbatch, for a request that has no job and may have one.
LEMMA SbatchOutcome ==
    ASSUME IInv, NEW s \in Stages, NEW id \in AttemptsOf(s), Sbatch(s, id),
           jobs[id] = "none", id[2] # 0 => jobs[<<s, 0>>] = "failed"
    PROVE  Outcome(s, id)
<1>0. /\ id \in Attempts /\ registry \in [Attempts -> Rows \cup {None}] /\ None \notin Rows
      /\ jobs \in [Attempts -> {"none", "running", "completed", "invalid", "failed"}]
      /\ None \notin Attempts
  BY AttemptFacts, TypeFacts
<1>1. /\ [state |-> "SUBMITTED", job |-> id] \in Rows
      /\ [state |-> "FAILED", job |-> None] \in Rows
      /\ [state |-> "SUBMITTING", job |-> None] \in Rows
  BY <1>0 DEF Rows, RowStates
<1>2. CASE NewRow(id, "SUBMITTED", id) /\ NewJob(id) /\ Finish(s, Submitted(s, id))
  <2>1. registry' = [registry EXCEPT ![id] = [state |-> "SUBMITTED", job |-> id]]
    BY <1>2 DEF NewRow
  <2>2. registry'[id] # None /\ jobs'[id] = "running"
    BY <1>0, <1>1, <1>2, <2>1 DEF NewJob
  <2>3. NewRowTrue(s, id)
    BY <1>1, <2>1, <2>2 DEF NewRowTrue
  <2>4. NewJobTrue(id)
    BY <1>2, <2>2 DEF NewJobTrue
  <2> QED BY <1>2, <2>2, <2>3, <2>4, FinishTrue DEF Outcome
<1>3. CASE /\ NewRow(id, "FAILED", None) /\ (NewJob(id) \/ UNCHANGED jobs)
           /\ Finish(s, NotSubmitted(s))
  <2>1. registry' = [registry EXCEPT ![id] = [state |-> "FAILED", job |-> None]]
    BY <1>3 DEF NewRow
  <2>2. registry'[id] # None
    BY <1>0, <1>1, <2>1
  <2>3. NewRowTrue(s, id)
    BY <1>1, <2>1 DEF NewRowTrue
  <2>4. NewJobTrue(id)
    BY <1>3, <2>2 DEF NewJobTrue
  <2> QED BY <1>3, <2>3, <2>4, FinishTrue DEF Outcome
<1>4. CASE /\ NewRow(id, "SUBMITTING", None) /\ (NewJob(id) \/ UNCHANGED jobs)
           /\ Finish(s, Unresolved(s))
  <2>1. registry' = [registry EXCEPT ![id] = [state |-> "SUBMITTING", job |-> None]]
    BY <1>4 DEF NewRow
  <2>2. registry'[id] # None
    BY <1>0, <1>1, <2>1
  <2>3. NewRowTrue(s, id)
    BY <1>1, <2>1 DEF NewRowTrue
  <2>4. NewJobTrue(id)
    BY <1>4, <2>2 DEF NewJobTrue
  <2> QED BY <1>4, <2>3, <2>4, FinishTrue DEF Outcome
<1> QED BY <1>2, <1>3, <1>4 DEF Sbatch

\* What the scheduler says of a job it has.
LEMMA SchedulerStateTrue ==
    ASSUME NEW job
    PROVE  /\ SchedulerState(job) \in {"RUNNING", "FAILED", "COMPLETED"}
           /\ SchedulerState(job) = "FAILED" => jobs[job] = "failed"
BY DEF SchedulerState

LEMMA ReconciledOutcome ==
    ASSUME IInv, NEW s \in Stages, Reconciled(s, Row(s).id)
    PROVE  Outcome(s, Row(s).id)
<1> DEFINE id == Row(s).id
<1> SUFFICES Outcome(s, id)
  OBVIOUS
<1>0. /\ id \in AttemptsOf(s) /\ id \in Attempts /\ (id[2] # 0 => jobs[<<s, 0>>] = "failed")
      /\ registry \in [Attempts -> Rows \cup {None}] /\ None \notin Rows
  BY RowFacts, TypeFacts
<1>1. \/ Candidates(s) = {} /\ Sbatch(s, id)
      \/ \E job \in Candidates(s) :
             /\ \/ NewRow(id, SchedulerState(job), job)
                \/ NewRow(id, "UNKNOWN_RECONCILIATION_REQUIRED", job)
             /\ UNCHANGED jobs
             /\ Finish(s, Unresolved(s)) \/ Finish(s, Submitted(s, id))
      \/ UNCHANGED <<registry, jobs>> /\ Finish(s, Unresolved(s))
  BY DEF Reconciled
<1> HIDE DEF id
<1>2. CASE Candidates(s) = {} /\ Sbatch(s, id)
  <2>1. jobs[id] = "none"
    BY <1>0, <1>2 DEF Candidates
  <2> QED BY <1>0, <1>2, <2>1, SbatchOutcome DEF id
<1>3. ASSUME NEW job \in Candidates(s),
             NEW state \in {SchedulerState(job), "UNKNOWN_RECONCILIATION_REQUIRED"},
             NewRow(id, state, job), UNCHANGED jobs,
             Finish(s, Unresolved(s)) \/ Finish(s, Submitted(s, id))
      PROVE  Outcome(s, id)
  <2>1. job \in AttemptsOf(s) /\ job \in Attempts /\ jobs[job] # "none"
    BY AttemptFacts DEF Candidates
  <2> DEFINE r == [state |-> state, job |-> job]
  <2>2. r \in Rows /\ r.job = job /\ r.state = state
    BY <2>1, SchedulerStateTrue DEF Rows, RowStates
  <2>3. registry' = [registry EXCEPT ![id] = r]
    BY <1>3 DEF NewRow
  <2> HIDE DEF r
  <2>4. registry'[id] # None
    BY <1>0, <2>2, <2>3
  <2>5. NewRowTrue(s, id)
    BY <1>3, <2>1, <2>2, <2>3, SchedulerStateTrue DEF NewRowTrue
  <2>6. NewJobTrue(id)
    BY <1>3 DEF NewJobTrue
  <2>7. Saving /\ ManifestTrue(s, id)
    BY <1>0, <1>3, <2>4, FinishTrue
  <2> QED BY <1>0, <2>5, <2>6, <2>7 DEF Outcome
<1>4. CASE UNCHANGED <<registry, jobs>> /\ Finish(s, Unresolved(s))
  <2>1. Saving /\ ManifestTrue(s, id)
    BY <1>0, <1>4, FinishTrue
  <2>2. NewRowTrue(s, id) /\ NewJobTrue(id)
    BY <1>4 DEF NewRowTrue, NewJobTrue
  <2> QED BY <1>0, <2>1, <2>2 DEF Outcome
<1> QED BY <1>1, <1>2, <1>3, <1>4

LEMMA SubmitOutcome ==
    ASSUME IInv, NEW s \in Stages, SubmitRuns(s)
    PROVE  \E id \in AttemptsOf(s) : Outcome(s, id)
<1> DEFINE id == Row(s).id
           row == Row(s).row
<1>0. /\ id \in AttemptsOf(s) /\ id \in Attempts /\ (id[2] # 0 => jobs[<<s, 0>>] = "failed")
      /\ row = registry[id]
      /\ registry \in [Attempts -> Rows \cup {None}] /\ None \notin Rows
      /\ \A a \in Attempts : registry[a] = None => jobs[a] = "none"
  BY RowFacts, TypeFacts
<1>1. \/ row = None /\ Sbatch(s, id)
      \/ Retryable(row) /\ Forced(s)
      \/ Reconciled(s, id)
      \/ UNCHANGED <<registry, jobs>> /\ (Finish(s, NotSubmitted(s)) \/ Finish(s, Unresolved(s)))
  BY DEF SubmitRuns
<1>2. CASE row = None /\ Sbatch(s, id)
  <2>1. jobs[id] = "none"
    BY <1>0, <1>2
  <2> HIDE DEF id, row
  <2> QED BY <1>0, <1>2, <2>1, SbatchOutcome
<1>3. CASE Retryable(row) /\ Forced(s)
  <2>1. PICK n \in 1..MaxForced[s] : registry[<<s, n>>] = None /\ Sbatch(s, <<s, n>>)
    BY <1>3 DEF Forced
  <2>2. <<s, n>> \in AttemptsOf(s) /\ <<s, n>> \in Attempts /\ jobs[<<s, n>>] = "none"
    BY <1>0, <2>1, AttemptFacts
  <2>3. jobs[<<s, 0>>] = "failed"
    <3>1. row # None /\ row.job # None /\ row.state = "FAILED"
      BY <1>3 DEF Retryable
    <3>2. row.job \in AttemptsOf(s) /\ jobs[row.job] = "failed"
      BY <3>1, RowFacts DEF HasJob
    <3>3. row.job \in Attempts /\ row.job = <<s, row.job[2]>>
      BY <3>2, AttemptFacts
    <3>4. row.job[2] # 0 => jobs[<<s, 0>>] = "failed"
      BY <3>2, <3>3, AttemptFacts DEF IInv, FirstFailed
    <3> QED BY <3>2, <3>3, <3>4
  <2> QED BY <2>1, <2>2, <2>3, SbatchOutcome
<1>4. CASE Reconciled(s, id)
  BY <1>0, <1>4, ReconciledOutcome
<1>5. CASE UNCHANGED <<registry, jobs>> /\ (Finish(s, NotSubmitted(s)) \/ Finish(s, Unresolved(s)))
  <2> HIDE DEF id, row
  <2> QED BY <1>0, <1>5, FinishTrue DEF Outcome, NewRowTrue, NewJobTrue
<1> QED BY <1>1, <1>2, <1>3, <1>4, <1>5

LEMMA OutcomeKeeps ==
    ASSUME IInv, NEW s \in Stages, NEW id \in AttemptsOf(s), Outcome(s, id),
           DependencySatisfied(manifest, s), UNCHANGED evidence
    PROVE  IInv'
<1>0. /\ id \in Attempts /\ id[1] = s /\ <<s, 0>> \in Attempts
      /\ registry \in [Attempts -> Rows \cup {None}] /\ None \notin Rows
      /\ jobs \in [Attempts -> {"none", "running", "completed", "invalid", "failed"}]
      /\ \A a \in Attempts : jobs[a] # "none" => registry[a] # None
      /\ id[2] # 0 => jobs[<<s, 0>>] = "failed"
  BY AttemptFacts, TypeFacts DEF IInv, Outcome
<1>1. /\ registry' \in [Attempts -> Rows \cup {None}]
      /\ \A a \in Attempts : registry[a] # None => registry'[a] # None
      /\ \A a \in Attempts : a # id => registry'[a] = registry[a]
  BY <1>0 DEF Outcome, NewRowTrue
<1>2. /\ jobs' \in [Attempts -> {"none", "running", "completed", "invalid", "failed"}]
      /\ \A a \in Attempts : jobs'[a] # jobs[a] =>
             a = id /\ jobs[a] = "none" /\ jobs'[a] = "running" /\ registry'[a] # None
  BY <1>0 DEF Outcome, NewJobTrue, NewJob
<1>3. TypeOK'
  <2>1. Saving /\ approvals' \in [Stages -> 0..MaxApprovals]
    BY TypeFacts DEF Outcome, Saving
  <2>2. \A a \in Attempts : jobs'[a] # "none" => registry'[a] # None
    BY <1>0, <1>1, <1>2
  <2>3. evidence' \subseteq {a \in Attempts : jobs'[a] = "completed"}
    BY <1>2, TypeFacts
  <2> QED BY <1>1, <1>2, <2>1, <2>2, <2>3 DEF TypeOK, Saving, ManifestType
<1>4. Requests'
  <2> SUFFICES ASSUME NEW t \in Stages, manifest'.request[t] # None
               PROVE  /\ manifest'.request[t] \in AttemptsOf(t)
                      /\ registry'[manifest'.request[t]] # None
                      /\ manifest'.request[t][2] # 0 => jobs'[<<t, 0>>] = "failed"
    BY DEF Requests, AttemptsOf
  <2>1. <<t, 0>> \in Attempts /\ (jobs[<<t, 0>>] = "failed" => jobs'[<<t, 0>>] = "failed")
    BY <1>2, AttemptFacts DEF IInv
  <2>2. CASE manifest'.request[t] = manifest.request[t]
    BY <1>1, <2>1, <2>2, AttemptFacts DEF IInv, Requests
  <2>3. CASE t = s /\ manifest'.request[t] = id /\ registry'[id] # None
    BY <1>0, <2>1, <2>3
  <2> QED BY <2>2, <2>3 DEF Outcome, ManifestTrue
<1>5. RowsTrue'
  <2> SUFFICES ASSUME NEW a \in Attempts, registry'[a] # None, registry'[a].job # None
               PROVE  /\ registry'[a].job \in AttemptsOf(a[1]) /\ jobs'[registry'[a].job] # "none"
                      /\ registry'[a].state # "SUBMITTING"
                      /\ registry'[a].state = "FAILED" => jobs'[registry'[a].job] = "failed"
    BY DEF RowsTrue, AttemptsOf
  <2>1. CASE registry'[a] = registry[a]
    <3>1. /\ registry[a].job \in AttemptsOf(a[1]) /\ jobs[registry[a].job] # "none"
          /\ registry[a].state # "SUBMITTING"
          /\ registry[a].state = "FAILED" => jobs[registry[a].job] = "failed"
      BY <2>1 DEF IInv, RowsTrue
    <3>2. registry[a].job \in Attempts
      BY <3>1, AttemptFacts
    <3> QED BY <1>2, <2>1, <3>1, <3>2
  <2>2. CASE registry'[a] # registry[a]
    <3>1. a = id
      BY <1>1, <2>2
    <3>2. PICK r \in Rows :
             /\ registry' = [registry EXCEPT ![id] = r]
             /\ r.job # None => /\ r.job \in AttemptsOf(s) /\ jobs'[r.job] # "none"
                                /\ r.state # "SUBMITTING"
                                /\ r.state = "FAILED" => jobs'[r.job] = "failed"
      BY <2>2 DEF Outcome, NewRowTrue
    <3>3. registry'[a] = r
      BY <1>0, <3>1, <3>2
    <3> QED BY <1>0, <3>1, <3>2, <3>3
  <2> QED BY <2>1, <2>2
<1>6. ValidatedTrue'
  BY DEF Outcome, ManifestTrue, IInv, ValidatedTrue, HasEvidence, AttemptsOf
<1>7. Supplied'
  <2> SUFFICES ASSUME NEW a \in Attempts, jobs'[a] # "none", NEW d \in Depends[a[1]]
               PROVE  HasEvidence(d)
    BY DEF Supplied, HasEvidence, AttemptsOf
  <2>1. CASE jobs[a] # "none"
    BY <2>1 DEF IInv, Supplied
  <2>2. CASE jobs[a] = "none"
    <3>1. a = id /\ d \in Depends[s]
      BY <1>0, <1>2, <2>2
    <3>2. manifest.stage[d] = "VALIDATED"
      BY <3>1 DEF DependencySatisfied
    <3>3. d \in Stages
      BY <3>1 DEF IInv, StagesAssumption
    <3> QED BY <3>2, <3>3 DEF IInv, ValidatedTrue
  <2> QED BY <2>1, <2>2
<1>8. FirstFailed'
  <2> SUFFICES ASSUME NEW a \in Attempts, a[2] # 0, jobs'[a] # "none"
               PROVE  jobs'[<<a[1], 0>>] = "failed"
    BY DEF FirstFailed
  <2>1. jobs[<<a[1], 0>>] = "failed"
    <3>1. CASE jobs[a] # "none"
      BY <3>1 DEF IInv, FirstFailed
    <3>2. CASE jobs[a] = "none"
      BY <1>0, <1>2, <3>2
    <3> QED BY <3>1, <3>2
  <2>2. <<a[1], 0>> \in Attempts
    BY AttemptFacts DEF IInv
  <2> QED BY <1>2, <2>1, <2>2
<1>9. StagesAssumption'
  BY DEF IInv
<1> QED BY <1>3, <1>4, <1>5, <1>6, <1>7, <1>8, <1>9 DEF IInv

-----------------------------------------------------------------------------
(* The operations that submit nothing.                                      *)

\* The registry keeps its rows, and what they say of a job stays true.
RegistryTrue ==
    /\ registry' \in [Attempts -> Rows \cup {None}]
    /\ \A a \in Attempts : registry[a] # None => registry'[a] # None
    /\ \A a \in Attempts : registry'[a] # None /\ registry'[a].job # None =>
           /\ registry'[a].job \in AttemptsOf(a[1]) /\ jobs[registry'[a].job] # "none"
           /\ registry'[a].state # "SUBMITTING"
           /\ registry'[a].state = "FAILED" => jobs[registry'[a].job] = "failed"

LEMMA QuietKeeps ==
    ASSUME IInv, UNCHANGED jobs, Saving, RegistryTrue,
           manifest'.request = manifest.request,
           evidence \subseteq evidence', evidence' \subseteq {a \in Attempts : jobs[a] = "completed"},
           \A s \in Stages : manifest'.stage[s] = "VALIDATED" => HasEvidence(s)'
    PROVE  IInv'
<1>1. TypeOK'
  <2>1. approvals' \in [Stages -> 0..MaxApprovals]
    BY TypeFacts DEF Saving
  <2>2. \A a \in Attempts : jobs[a] # "none" => registry'[a] # None
    BY TypeFacts DEF RegistryTrue
  <2> QED BY <2>1, <2>2, TypeFacts DEF TypeOK, Saving, ManifestType, RegistryTrue
<1>2. Requests'
  <2> SUFFICES ASSUME NEW s \in Stages, manifest.request[s] # None
               PROVE  /\ manifest.request[s] \in AttemptsOf(s)
                      /\ registry'[manifest.request[s]] # None
                      /\ manifest.request[s][2] # 0 => jobs[<<s, 0>>] = "failed"
    BY DEF Requests, AttemptsOf
  <2> QED BY AttemptFacts DEF IInv, Requests, RegistryTrue
<1>3. RowsTrue' /\ ValidatedTrue'
  BY DEF RowsTrue, ValidatedTrue, RegistryTrue, AttemptsOf
<1>4. Supplied' /\ FirstFailed'
  BY DEF IInv, Supplied, FirstFailed, HasEvidence, AttemptsOf
<1>5. StagesAssumption'
  BY DEF IInv
<1> QED BY <1>1, <1>2, <1>3, <1>4, <1>5 DEF IInv

LEMMA SameRegistryTrue ==
    ASSUME IInv, UNCHANGED registry
    PROVE  RegistryTrue
BY TypeFacts DEF RegistryTrue, IInv, RowsTrue

\* Preparing, the preflight and a question to the user only save the manifest.
LEMMA ManifestOnlyKeeps ==
    ASSUME IInv, UNCHANGED <<registry, jobs, evidence>>, Saving,
           manifest'.request = manifest.request,
           \A s \in Stages : manifest'.stage[s] = "VALIDATED" => manifest.stage[s] = "VALIDATED"
    PROVE  IInv'
<1>1. \A s \in Stages : manifest'.stage[s] = "VALIDATED" => HasEvidence(s)'
  BY DEF IInv, ValidatedTrue, HasEvidence, AttemptsOf
<1>2. evidence' \subseteq {a \in Attempts : jobs[a] = "completed"}
  BY TypeFacts
<1> QED BY <1>1, <1>2, SameRegistryTrue, QuietKeeps

LEMMA PrepareKeeps == IInv /\ (Prepare \/ Preflight) => IInv'
<1> SUFFICES ASSUME IInv, Prepare \/ Preflight
             PROVE  IInv'
  OBVIOUS
<1>1. manifest \in ManifestType
  BY TypeFacts
<1>2. ASSUME NEW m \in ManifestType, SavedWith(m, {}), UNCHANGED <<registry, jobs, evidence>>,
             m.request = manifest.request,
             \A s \in Stages : m.stage[s] = "VALIDATED" => manifest.stage[s] = "VALIDATED"
      PROVE  IInv'
  <2>1. Saving /\ manifest' = m
    BY <1>2, SavedIsSaving
  <2> QED BY <1>2, <2>1, ManifestOnlyKeeps
<1>3. ASSUME NEW state \in {"PREPARED", "FAILED"}
      PROVE  /\ [manifest EXCEPT !.state = state] \in ManifestType
             /\ [manifest EXCEPT !.state = state].request = manifest.request
             /\ [manifest EXCEPT !.state = state].stage = manifest.stage
  BY <1>1 DEF ManifestType, StageStates
<1>4. /\ Preflighted \in ManifestType /\ Preflighted.request = manifest.request
      /\ \A s \in Stages : Preflighted.stage[s] = "VALIDATED" => manifest.stage[s] = "VALIDATED"
  BY <1>1 DEF Preflighted, ManifestType, StageStates
<1>5. CASE Prepare
  <2>1. PICK state \in {"PREPARED", "FAILED"} : SavedWith([manifest EXCEPT !.state = state], {})
    BY <1>5 DEF Prepare
  <2> QED BY <1>2, <1>3, <1>5, <2>1 DEF Prepare
<1>6. CASE Preflight
  <2>1. \/ SavedWith(Preflighted, {}) \/ SavedWith([manifest EXCEPT !.state = "FAILED"], {})
    BY <1>6 DEF Preflight
  <2>2. UNCHANGED <<registry, jobs, evidence>>
    BY <1>6 DEF Preflight
  <2>3. CASE SavedWith(Preflighted, {})
    BY <1>2, <1>4, <2>2, <2>3
  <2>4. CASE SavedWith([manifest EXCEPT !.state = "FAILED"], {})
    BY <1>2, <1>3, <2>2, <2>4
  <2> QED BY <2>1, <2>3, <2>4
<1> QED BY <1>5, <1>6

LEMMA AsksSaving ==
    ASSUME IInv, NEW s \in Stages, SubmitAsks(s)
    PROVE  Saving /\ manifest' \in {[InHand(s) EXCEPT !.state = AwaitingState], Stored(s)}
<1> DEFINE asking == [InHand(s) EXCEPT !.state = AwaitingState]
           asked == IF s \in manifest.bound THEN pending \cup {s} ELSE {s}
<1>1. asking \in ManifestType /\ Stored(s) \in ManifestType /\ asked \in SUBSET Stages
  <2>1. <<s, 0>> \in AttemptsOf(s)
    BY AttemptFacts DEF IInv
  <2> QED BY <2>1, EndsTyped, TypeFacts
<1>2. Stored(s) = manifest => approved \subseteq asked
  BY InHandTyped, TypeFacts DEF Stored
<1>3. SavedWith(asking, {s}) \/ Dies(Stored(s), asked)
  BY DEF SubmitAsks
<1> HIDE DEF asking, asked
<1>4. CASE SavedWith(asking, {s})
  BY <1>1, <1>4, SavedIsSaving DEF asking
<1>5. CASE Dies(Stored(s), asked)
  BY <1>1, <1>2, <1>5, DiesIsSaving
<1> QED BY <1>3, <1>4, <1>5

LEMMA AsksKeeps ==
    ASSUME IInv, NEW s \in Stages, SubmitAsks(s)
    PROVE  IInv'
<1>1. Saving /\ manifest' \in {[InHand(s) EXCEPT !.state = AwaitingState], Stored(s)}
  BY AsksSaving
<1>2. KeepsStages(manifest', s, None)
  <2>1. <<s, 0>> \in AttemptsOf(s)
    BY AttemptFacts DEF IInv
  <2> QED BY <1>1, <2>1, EndsTyped
<1>3. manifest'.request = manifest.request
  <2>1. InHand(s).request = manifest.request /\ InHand(s) \in ManifestType
    BY InHandTyped
  <2> QED BY <1>1, <2>1 DEF Stored, ManifestType
<1> QED BY <1>1, <1>2, <1>3, ManifestOnlyKeeps DEF SubmitAsks, KeepsStages

\* What a row of attempt a may say.
RowSays(a, row) ==
    /\ row \in Rows
    /\ row.job # None =>
           /\ row.job \in AttemptsOf(a[1]) /\ jobs[row.job] # "none"
           /\ row.state # "SUBMITTING"
           /\ row.state = "FAILED" => jobs[row.job] = "failed"

LEMMA EditedRegistryTrue ==
    ASSUME IInv, registry' = [a \in Attempts |-> registry'[a]],
           \A a \in Attempts : registry'[a] = registry[a] \/ RowSays(a, registry'[a])
    PROVE  RegistryTrue
<1>1. ASSUME NEW a \in Attempts
      PROVE  /\ registry'[a] \in Rows \cup {None} /\ (registry[a] # None => registry'[a] # None)
             /\ registry'[a] # None /\ registry'[a].job # None =>
                    /\ registry'[a].job \in AttemptsOf(a[1]) /\ jobs[registry'[a].job] # "none"
                    /\ registry'[a].state # "SUBMITTING"
                    /\ registry'[a].state = "FAILED" => jobs[registry'[a].job] = "failed"
  <2>1. CASE registry'[a] = registry[a]
    BY <2>1, TypeFacts DEF IInv, RowsTrue
  <2>2. CASE RowSays(a, registry'[a])
    BY <2>2, TypeFacts DEF RowSays
  <2> QED BY <2>1, <2>2
<1>2. registry' \in [Attempts -> Rows \cup {None}]
  BY <1>1
<1> QED BY <1>1, <1>2 DEF RegistryTrue

\* A row whose state is the answer of the scheduler about its job.
LEMMA RowAnswered ==
    ASSUME IInv, NEW s \in Stages, HasJob(s), NEW state \in RowStates \ {"SUBMITTING"},
           state = "FAILED" => jobs[Row(s).row.job] = "failed"
    PROVE  RowSays(Row(s).id, [registry[Row(s).id] EXCEPT !.state = state])
<1>1. /\ Row(s).row = registry[Row(s).id] /\ Row(s).row \in Rows
      /\ Row(s).row.job \in AttemptsOf(s) /\ Row(s).row.job \in Candidates(s)
      /\ Row(s).id \in AttemptsOf(s)
  BY RowFacts
<1> DEFINE row == [registry[Row(s).id] EXCEPT !.state = state]
<1>2. row \in Rows /\ row.job = Row(s).row.job /\ row.state = state
  BY <1>1 DEF Rows
<1>3. Row(s).id[1] = s
  BY <1>1, AttemptFacts
<1> HIDE DEF row
<1>4. RowSays(Row(s).id, row)
  BY <1>1, <1>2, <1>3 DEF Candidates, RowSays
<1> QED BY <1>4 DEF row

StageObservations == {"NOT_FOUND", "UNKNOWN", "UNKNOWN_RECONCILIATION_REQUIRED", "SUBMITTED",
                      "RUNNING", "COMPLETED", "FAILED", "VALIDATED", "VALIDATION_FAILED"}

\* The stages after an observation: one that is new among the valid ones was seen valid.
LEMMA StagesAfterTyped ==
    ASSUME IInv, NEW seen, \A s \in Stages : seen[s] \in StageObservations
    PROVE  /\ StagesAfter(seen) \in [Stages -> StageStates]
           /\ \A s \in Stages : StagesAfter(seen)[s] = "VALIDATED" =>
                  manifest.stage[s] = "VALIDATED" \/ seen[s] = "VALIDATED"
<1>1. ASSUME NEW s \in Stages, NEW raw \in StageObservations
      PROVE  /\ Mapped(s, raw) \in StageStates
             /\ Mapped(s, raw) = "VALIDATED" => raw = "VALIDATED"
  <2>1. CASE raw = "NOT_FOUND"
    BY <2>1 DEF Mapped, StageStates
  <2>2. CASE raw # "NOT_FOUND"
    BY <2>2 DEF Mapped, StageStates, StageObservations
  <2> QED BY <2>1, <2>2
<1>2. "VALIDATED" \in StageStates
  BY DEF StageStates
<1> QED BY <1>1, <1>2 DEF StagesAfter

LEMMA ObservationsFacts ==
    ASSUME NEW pairs, NEW seen \in Observations(pairs), NEW s \in Stages
    PROVE  <<s, seen[s]>> \in pairs
BY DEF Observations

LEMMA StatusKeeps ==
    ASSUME IInv, NEW seen \in Pulls, Status(seen)
    PROVE  IInv' /\ Saving
<1> DEFINE m == [manifest EXCEPT !.state = Observed(Implied(seen)), !.stage = StagesAfter(seen)]
<1>0. manifest \in ManifestType
  BY TypeFacts
<1>1. ASSUME NEW s \in Stages
      PROVE  /\ seen[s] \in {"NOT_FOUND", "UNKNOWN", "RUNNING", "FAILED", "COMPLETED"}
             /\ seen[s] = "FAILED" => HasJob(s) /\ jobs[Row(s).row.job] = "failed"
  <2>1. <<s, seen[s]>> \in UNION {{t} \X Pulled(t) : t \in Stages}
    BY ObservationsFacts DEF Pulls
  <2>2. PICK t \in Stages : <<s, seen[s]>> \in {t} \X Pulled(t)
    BY <2>1
  <2>3. seen[s] \in Pulled(s)
    BY <2>2
  <2> QED BY <2>3, SchedulerStateTrue DEF Pulled, Answer
<1>2. /\ registry' = RowsAfter(seen) /\ SavedOrDead(m)
      /\ UNCHANGED <<jobs, evidence>>
  BY DEF Status
<1>3. RegistryTrue
  <2>1. ASSUME NEW a \in Attempts
        PROVE  registry'[a] = registry[a] \/ RowSays(a, registry'[a])
    <3> DEFINE t == a[1]
    <3>1. CASE OnRecord(a) /\ HasJob(t) /\ seen[t] \in {"RUNNING", "COMPLETED", "FAILED"}
      <4>1. t \in Stages /\ Row(t).id = a
        BY <3>1, AttemptFacts DEF OnRecord
      <4>2. registry'[a] = [registry[a] EXCEPT !.state = seen[t]]
        BY <1>2, <3>1 DEF RowsAfter
      <4>3. seen[t] \in RowStates \ {"SUBMITTING"}
        BY <3>1 DEF RowStates
      <4>4. RowSays(Row(t).id, [registry[Row(t).id] EXCEPT !.state = seen[t]])
        BY <1>1, <3>1, <4>1, <4>3, RowAnswered
      <4> QED BY <4>1, <4>2, <4>4
    <3>2. CASE ~(OnRecord(a) /\ HasJob(t) /\ seen[t] \in {"RUNNING", "COMPLETED", "FAILED"})
      BY <1>2, <3>2 DEF RowsAfter
    <3> QED BY <3>1, <3>2
  <2>2. registry' = [a \in Attempts |-> registry'[a]]
    BY <1>2 DEF RowsAfter
  <2> QED BY <2>1, <2>2, EditedRegistryTrue
<1>4. /\ StagesAfter(seen) \in [Stages -> StageStates]
      /\ \A s \in Stages : StagesAfter(seen)[s] = "VALIDATED" => manifest.stage[s] = "VALIDATED"
  <2>1. \A s \in Stages : seen[s] \in StageObservations /\ seen[s] # "VALIDATED"
    BY <1>1 DEF StageObservations
  <2> QED BY <2>1, StagesAfterTyped
<1>5. Observed(Implied(seen)) \in StageStates \cup {"PREPARED", AwaitingState}
  <2>1. Implied(seen) \in StageStates \cup {"PREPARED", AwaitingState}
    BY <1>0 DEF Implied, ManifestType, StageStates
  <2> QED BY <1>0, <2>1 DEF Observed, ManifestType, StageStates
<1>6. m \in ManifestType /\ m.request = manifest.request /\ m.stage = StagesAfter(seen)
  BY <1>0, <1>4, <1>5 DEF ManifestType
<1> HIDE DEF m
<1>7. Saving /\ manifest' \in {manifest, m}
  BY <1>2, <1>6, SavedOrDeadIsSaving
<1>8. \A s \in Stages : manifest'.stage[s] = "VALIDATED" => HasEvidence(s)'
  BY <1>2, <1>4, <1>6, <1>7 DEF IInv, ValidatedTrue, HasEvidence, AttemptsOf
<1>9. evidence' \subseteq {a \in Attempts : jobs[a] = "completed"} /\ evidence \subseteq evidence'
  BY <1>2, TypeFacts
<1>10. UNCHANGED jobs /\ manifest'.request = manifest.request
  BY <1>2, <1>6, <1>7
<1> QED BY <1>3, <1>7, <1>8, <1>9, <1>10, QuietKeeps

\* What a collection sees of a stage: valid results only of a completed job.
LEMMA CollectedFacts ==
    ASSUME IInv, NEW s \in Stages, NEW raw \in Collected(s)
    PROVE  /\ raw \in StageObservations
           /\ raw = "VALIDATED" => HasJob(s) /\ jobs[Row(s).row.job] = "completed"
           /\ raw = "VALIDATION_FAILED" => HasJob(s)
<1>1. HasJob(s) => /\ Row(s).row \in Rows /\ Row(s).row.state # "SUBMITTING"
  BY RowFacts
<1>2. CASE ~HasJob(s)
  BY <1>2 DEF Collected, StageObservations
<1>3. CASE HasJob(s) /\ Row(s).row.state \notin {"COMPLETED", "COLLECTED", "VALIDATED"}
  <2>1. raw = Row(s).row.state
    BY <1>3 DEF Collected
  <2> QED BY <1>1, <1>3, <2>1 DEF Rows, RowStates, StageObservations
<1>4. CASE HasJob(s) /\ Row(s).row.state \in {"COMPLETED", "COLLECTED", "VALIDATED"}
  BY <1>4 DEF Collected, StageObservations
<1> QED BY <1>2, <1>3, <1>4

Collections == Observations(UNION {{s} \X Collected(s) : s \in Stages})

LEMMA CollectKeeps ==
    ASSUME IInv, NEW seen \in Collections, Collect(seen)
    PROVE  IInv' /\ Saving
<1> DEFINE next  == Decided(seen)
           valid == {t \in Stages : seen[t] = "VALIDATED"}
           state == IF next = manifest.state \/ CollectAllowed(manifest.state, next)
                    THEN next ELSE "FAILED"
           m     == [manifest EXCEPT !.state = state, !.stage = StagesAfter(seen)]
           edited(a) ==
               IF ~OnRecord(a) THEN registry[a]
               ELSE IF seen[a[1]] = "VALIDATED" THEN [registry[a] EXCEPT !.state = "VALIDATED"]
               ELSE IF seen[a[1]] = "VALIDATION_FAILED" /\ registry[a].state = "COMPLETED"
               THEN [registry[a] EXCEPT !.state = "COLLECTED"] ELSE registry[a]
<1>0. manifest \in ManifestType
  BY TypeFacts
<1>1. ASSUME NEW s \in Stages
      PROVE  /\ seen[s] \in StageObservations
             /\ seen[s] = "VALIDATED" => HasJob(s) /\ jobs[Row(s).row.job] = "completed"
             /\ seen[s] = "VALIDATION_FAILED" => HasJob(s)
  <2>1. <<s, seen[s]>> \in UNION {{t} \X Collected(t) : t \in Stages}
    BY ObservationsFacts DEF Collections
  <2>2. PICK t \in Stages : <<s, seen[s]>> \in {t} \X Collected(t)
    BY <2>1
  <2>3. seen[s] \in Collected(s)
    BY <2>2
  <2> QED BY <2>3, CollectedFacts
<1>2. /\ registry' = [a \in Attempts |-> edited(a)]
      /\ SavedOrDead(m)
      /\ evidence' = evidence \cup {Row(s).row.job : s \in valid} /\ UNCHANGED jobs
  BY DEF Collect
<1>3. /\ \A s \in valid : s \in Stages /\ seen[s] = "VALIDATED"
      /\ \A s \in Stages : seen[s] = "VALIDATED" => s \in valid
  OBVIOUS
<1> HIDE DEF valid
<1>4. RegistryTrue
  <2>1. ASSUME NEW a \in Attempts
        PROVE  edited(a) = registry[a] \/ RowSays(a, edited(a))
    <3> DEFINE t == a[1]
    <3>0. t \in Stages
      BY AttemptFacts
    <3>1. CASE OnRecord(a) /\ seen[t] = "VALIDATED"
      <4>1. RowSays(Row(t).id, [registry[Row(t).id] EXCEPT !.state = "VALIDATED"])
        BY <1>1, <3>0, <3>1, RowAnswered DEF RowStates
      <4> QED BY <3>1, <4>1 DEF OnRecord
    <3>2. CASE OnRecord(a) /\ seen[t] = "VALIDATION_FAILED" /\ registry[a].state = "COMPLETED"
      <4>1. RowSays(Row(t).id, [registry[Row(t).id] EXCEPT !.state = "COLLECTED"])
        BY <1>1, <3>0, <3>2, RowAnswered DEF RowStates
      <4> QED BY <3>2, <4>1 DEF OnRecord
    <3> QED BY <3>1, <3>2
  <2> HIDE DEF edited
  <2>2. registry' = [a \in Attempts |-> registry'[a]]
    BY <1>2
  <2>3. \A a \in Attempts : registry'[a] = edited(a)
    BY <1>2
  <2> QED BY <2>1, <2>2, <2>3, EditedRegistryTrue
<1>5. /\ StagesAfter(seen) \in [Stages -> StageStates]
      /\ \A s \in Stages : StagesAfter(seen)[s] = "VALIDATED" =>
             manifest.stage[s] = "VALIDATED" \/ seen[s] = "VALIDATED"
  BY <1>1, StagesAfterTyped
<1>6. state \in StageStates
  <2>1. next \in {"RECONCILING", "VALIDATION_FAILED", "VALIDATED", "SCHEDULER_COMPLETED", "RUNNING"}
    BY DEF Decided
  <2> HIDE DEF next
  <2> QED BY <2>1 DEF StageStates
<1> HIDE DEF state
<1>7. m \in ManifestType /\ m.request = manifest.request /\ m.stage = StagesAfter(seen)
  BY <1>0, <1>5, <1>6 DEF ManifestType
<1> HIDE DEF m
<1>8. Saving /\ manifest' \in {manifest, m}
  BY <1>2, <1>7, SavedOrDeadIsSaving
<1>9. \A s \in valid : /\ Row(s).row.job \in AttemptsOf(s) /\ Row(s).row.job \in Attempts
                       /\ jobs[Row(s).row.job] = "completed"
  <2> SUFFICES ASSUME NEW s \in Stages, seen[s] = "VALIDATED"
               PROVE  /\ Row(s).row.job \in AttemptsOf(s) /\ Row(s).row.job \in Attempts
                      /\ jobs[Row(s).row.job] = "completed"
    BY <1>3
  <2>1. HasJob(s) /\ jobs[Row(s).row.job] = "completed"
    BY <1>1
  <2>2. Row(s).row.job \in AttemptsOf(s)
    BY <2>1, RowFacts
  <2> QED BY <2>1, <2>2, AttemptFacts
<1>10. evidence' \subseteq {a \in Attempts : jobs[a] = "completed"} /\ evidence \subseteq evidence'
  BY <1>2, <1>9, TypeFacts
<1>11. \A s \in Stages : manifest'.stage[s] = "VALIDATED" => HasEvidence(s)'
  <2> SUFFICES ASSUME NEW s \in Stages, manifest'.stage[s] = "VALIDATED"
               PROVE  \E a \in AttemptsOf(s) : a \in evidence'
    BY DEF HasEvidence, AttemptsOf
  <2>1. CASE manifest.stage[s] = "VALIDATED"
    BY <1>10, <2>1 DEF IInv, ValidatedTrue, HasEvidence
  <2>2. CASE manifest.stage[s] # "VALIDATED"
    <3>1. seen[s] = "VALIDATED"
      BY <1>5, <1>7, <1>8, <2>2
    <3>2. s \in valid
      BY <1>3, <3>1
    <3>3. Row(s).row.job \in evidence'
      BY <1>2, <3>2
    <3> QED BY <1>9, <3>2, <3>3
  <2> QED BY <2>1, <2>2
<1>12. UNCHANGED jobs /\ manifest'.request = manifest.request
  BY <1>2, <1>7, <1>8
<1> QED BY <1>4, <1>8, <1>10, <1>11, <1>12, QuietKeeps

\* The end of a job.
LEMMA JobEndsKeeps ==
    ASSUME IInv, NEW a \in Attempts, JobEnds(a)
    PROVE  IInv'
<1>1. PICK end \in {"completed", "invalid", "failed"} : jobs' = [jobs EXCEPT ![a] = end]
  BY DEF JobEnds
<1>2. /\ jobs' \in [Attempts -> {"none", "running", "completed", "invalid", "failed"}]
      /\ \A b \in Attempts : jobs[b] # jobs'[b] => jobs[b] = "running" /\ jobs'[b] # "none"
  BY <1>1, TypeFacts DEF JobEnds
<1>3. UNCHANGED <<manifest, registry, evidence, pending, approved, approvals, deaths>>
  BY DEF JobEnds, decisionVars
<1>4. \A s \in Stages : <<s, 0>> \in Attempts
  BY AttemptFacts DEF IInv
<1>5. TypeOK'
  <2>1. evidence' \subseteq {b \in Attempts : jobs'[b] = "completed"}
    BY <1>2, <1>3, TypeFacts
  <2>2. \A b \in Attempts : jobs'[b] # "none" => registry'[b] # None
    BY <1>2, <1>3, TypeFacts
  <2>3. manifest' \in ManifestType
    BY <1>3, TypeFacts
  <2> QED BY <1>2, <1>3, <2>1, <2>2, <2>3, TypeFacts DEF TypeOK, ManifestType
<1>6. Requests'
  BY <1>2, <1>3, <1>4 DEF IInv, Requests, AttemptsOf
<1>7. RowsTrue'
  BY <1>2, <1>3, AttemptFacts DEF IInv, RowsTrue, AttemptsOf
<1>8. ValidatedTrue'
  BY <1>3 DEF IInv, ValidatedTrue, HasEvidence, AttemptsOf
<1>9. Supplied'
  BY <1>2, <1>3 DEF IInv, Supplied, HasEvidence, AttemptsOf
<1>10. FirstFailed'
  BY <1>2, <1>4, AttemptFacts DEF IInv, FirstFailed
<1>11. StagesAssumption'
  BY DEF IInv
<1> QED BY <1>5, <1>6, <1>7, <1>8, <1>9, <1>10, <1>11 DEF IInv

LEMMA ApproveKeeps ==
    ASSUME IInv, NEW s \in Stages, Approve(s)
    PROVE  IInv'
<1>1. /\ approved' = approved \cup {s} /\ approvals' = [approvals EXCEPT ![s] = @ + 1]
      /\ s \in pending /\ approvals[s] < MaxApprovals
      /\ UNCHANGED <<manifest, registry, jobs, evidence, pending, deaths>>
  BY DEF Approve
<1>2. approvals' \in [Stages -> 0..MaxApprovals]
  BY <1>1, TypeFacts
<1>3. TypeOK'
  BY <1>1, <1>2 DEF IInv, TypeOK
<1>4. /\ Requests' /\ RowsTrue' /\ ValidatedTrue' /\ Supplied' /\ FirstFailed'
      /\ StagesAssumption'
  BY <1>1 DEF IInv, Requests, RowsTrue, ValidatedTrue, Supplied, FirstFailed,
              HasEvidence, AttemptsOf
<1> QED BY <1>3, <1>4 DEF IInv

LEMMA SubmitKeeps ==
    ASSUME IInv, NEW s \in Stages, SubmitRuns(s)
    PROVE  IInv'
<1>1. PICK id \in AttemptsOf(s) : Outcome(s, id)
  BY SubmitOutcome
<1>2. DependencySatisfied(manifest, s) /\ UNCHANGED evidence
  BY DEF SubmitRuns, Submittable
<1> QED BY <1>1, <1>2, OutcomeKeeps

LEMMA StutterKeeps == IInv /\ UNCHANGED vars => IInv'
<1> SUFFICES ASSUME IInv, UNCHANGED vars
             PROVE  IInv'
  OBVIOUS
<1>1. TypeOK'
  BY DEF IInv, TypeOK, vars
<1>2. /\ Requests' /\ RowsTrue' /\ ValidatedTrue' /\ Supplied' /\ FirstFailed'
      /\ StagesAssumption'
  BY DEF IInv, Requests, RowsTrue, ValidatedTrue, Supplied, FirstFailed,
         HasEvidence, AttemptsOf, vars
<1> QED BY <1>1, <1>2 DEF IInv

-----------------------------------------------------------------------------
(* Resume.                                                                  *)

LEMMA AttemptsFinite ==
    ASSUME StagesAssumption, NEW s \in Stages
    PROVE  IsFiniteSet(AttemptsOf(s))
<1>1. IsFiniteSet({s})
  BY FS_Singleton
<1>2. IsFiniteSet(0..MaxForced[s])
  <2>1. 0 \in Int /\ MaxForced[s] \in Int
    BY DEF StagesAssumption
  <2> QED BY <2>1, FS_Interval
<1>3. IsFiniteSet({s} \X (0..MaxForced[s]))
  BY <1>1, <1>2, FS_Product
<1>4. AttemptsOf(s) \subseteq {s} \X (0..MaxForced[s])
  BY AttemptFacts
<1> QED BY <1>3, <1>4, FS_Subset

\* A single candidate is the job the row names.
LEMMA OneCandidate ==
    ASSUME IInv, NEW s \in Stages, Candidates(s) # {}, ~(Cardinality(Candidates(s)) > 1)
    PROVE  /\ (CHOOSE a \in Candidates(s) : TRUE) \in Candidates(s)
           /\ \A a \in Candidates(s) : a = CHOOSE b \in Candidates(s) : TRUE
           /\ HasJob(s) => Row(s).row.job = CHOOSE a \in Candidates(s) : TRUE
<1>1. IsFiniteSet(Candidates(s))
  BY AttemptsFinite, FS_Subset DEF Candidates, IInv
<1>2. Cardinality(Candidates(s)) = 1
  BY <1>1, FS_CardinalityType, FS_EmptySet
<1>3. PICK x : Candidates(s) = {x}
  BY <1>1, <1>2, FS_Singleton
<1> QED BY <1>3, RowFacts

\* The job a reconciliation speaks of: the one on record, else the only candidate.
JobFound(s) == IF HasJob(s) THEN Row(s).row.job ELSE CHOOSE a \in Candidates(s) : TRUE

LEMMA FoundFacts ==
    ASSUME IInv, NEW s \in Stages, NEW found \in Found(s) \cup {"NOT_FOUND"}
    PROVE  /\ found \in {"NOT_FOUND", "ERROR", "MULTIPLE", "UNKNOWN", "RUNNING", "FAILED", "COMPLETED"}
           /\ found \in {"MULTIPLE", "UNKNOWN"} => Row(s).row # None
           /\ found \in {"UNKNOWN", "RUNNING", "FAILED", "COMPLETED"} =>
                  /\ JobFound(s) \in Candidates(s)
                  /\ found = "FAILED" => jobs[JobFound(s)] = "failed"
<1>1. CASE found = "NOT_FOUND" \/ Row(s).row = None
  BY <1>1 DEF Found
<1>2. CASE Row(s).row # None /\ HasJob(s) /\ found = Answer(s)
  BY <1>2, SchedulerStateTrue, RowFacts DEF Answer, JobFound
<1>3. CASE Row(s).row # None /\ found = "ERROR"
  BY <1>3
<1>4. CASE Row(s).row # None /\ found \in Named(s)
  <2>1. CASE Candidates(s) = {} \/ Cardinality(Candidates(s)) > 1
    BY <1>4, <2>1 DEF Named
  <2>2. CASE Candidates(s) # {} /\ ~(Cardinality(Candidates(s)) > 1)
    <3>1. JobFound(s) \in Candidates(s) /\ \A a \in Candidates(s) : a = JobFound(s)
      BY <2>2, OneCandidate DEF JobFound
    <3>2. found \in {"UNKNOWN"} \cup {SchedulerState(a) : a \in Candidates(s)}
      BY <1>4, <2>2 DEF Named
    <3>3. found \in {"UNKNOWN", SchedulerState(JobFound(s))}
      BY <3>1, <3>2
    <3> QED BY <1>4, <3>1, <3>3, SchedulerStateTrue
  <2> QED BY <2>1, <2>2
<1> QED BY <1>1, <1>2, <1>3, <1>4 DEF Found

LEMMA RowReconciledSays ==
    ASSUME IInv, NEW s \in Stages, NEW found \in Found(s) \cup {"NOT_FOUND"}
    PROVE  \/ RowReconciled(s, found) = registry[Row(s).id]
           \/ RowSays(Row(s).id, RowReconciled(s, found))
<1>0. /\ Row(s).row = registry[Row(s).id] /\ Row(s).id[1] = s /\ Row(s).row \in Rows \cup {None}
  BY RowFacts, AttemptFacts
<1>1. /\ found \in {"NOT_FOUND", "ERROR", "MULTIPLE", "UNKNOWN", "RUNNING", "FAILED", "COMPLETED"}
      /\ found \in {"MULTIPLE", "UNKNOWN"} => Row(s).row # None
      /\ found \in {"UNKNOWN", "RUNNING", "FAILED", "COMPLETED"} =>
             /\ JobFound(s) \in Candidates(s)
             /\ found = "FAILED" => jobs[JobFound(s)] = "failed"
  BY FoundFacts
<1>2. CASE found \in {"NOT_FOUND", "ERROR"}
  BY <1>0, <1>2 DEF RowReconciled
<1>3. CASE found = "MULTIPLE"
  <2> DEFINE row == [registry[Row(s).id] EXCEPT !.state = "UNKNOWN_RECONCILIATION_REQUIRED"]
  <2>1. RowReconciled(s, found) = row
    BY <1>0, <1>3 DEF RowReconciled
  <2>2. CASE HasJob(s)
    <3>1. "UNKNOWN_RECONCILIATION_REQUIRED" \in RowStates \ {"SUBMITTING"}
      BY DEF RowStates
    <3> QED BY <2>1, <2>2, <3>1, RowAnswered
  <2>3. CASE ~HasJob(s)
    <3>1. row \in Rows /\ row.job = None
      BY <1>0, <1>1, <1>3, <2>3 DEF HasJob, Rows, RowStates
    <3> HIDE DEF row
    <3> QED BY <2>1, <3>1 DEF RowSays
  <2> QED BY <2>2, <2>3
<1>4. CASE found \in {"UNKNOWN", "RUNNING", "FAILED", "COMPLETED"}
  <2> DEFINE state == IF found = "UNKNOWN" THEN "UNKNOWN_RECONCILIATION_REQUIRED" ELSE found
             row   == [state |-> state, job |-> JobFound(s)]
  <2>1. RowReconciled(s, found) = row
    BY <1>0, <1>4 DEF RowReconciled, JobFound
  <2>2. /\ JobFound(s) \in AttemptsOf(s) /\ JobFound(s) \in Attempts
        /\ jobs[JobFound(s)] # "none"
    BY <1>1, <1>4, AttemptFacts DEF Candidates
  <2>3. row \in Rows /\ row.job = JobFound(s) /\ row.state = state
    BY <1>4, <2>2 DEF Rows, RowStates
  <2>4. state # "SUBMITTING" /\ (state = "FAILED" => jobs[JobFound(s)] = "failed")
    BY <1>1, <1>4
  <2> HIDE DEF row, state
  <2> QED BY <1>0, <2>1, <2>2, <2>3, <2>4 DEF RowSays
<1> QED BY <1>1, <1>2, <1>3, <1>4

LEMMA FindingsFacts ==
    ASSUME NEW found \in Findings, NEW s \in Stages
    PROVE  found[s] \in Found(s) \cup {"NOT_FOUND"}
<1> DEFINE pairs == UNION {{t} \X Found(t) : t \in Stages}
<1>1. IF Asked(found, s) THEN <<s, found[s]>> \in pairs ELSE found[s] = "NOT_FOUND"
  BY DEF Findings
<1>2. CASE <<s, found[s]>> \in pairs
  <2>1. PICK t \in Stages : <<s, found[s]>> \in {t} \X Found(t)
    BY <1>2
  <2>2. found[s] \in Found(s)
    BY <2>1
  <2> QED BY <2>2
<1> HIDE DEF pairs
<1> QED BY <1>1, <1>2

LEMMA ResumeKeeps ==
    ASSUME IInv, NEW found \in Findings, Resume(found)
    PROVE  IInv' /\ Saving
<1> DEFINE rows == [a \in Attempts |-> IF OnRecord(a) THEN RowReconciled(a[1], found[a[1]])
                                      ELSE registry[a]]
           m    == [manifest EXCEPT !.state = Recovered(found, rows)]
<1>0. manifest \in ManifestType
  BY TypeFacts
<1>1. registry' = rows /\ SavedOrDead(m) /\ UNCHANGED <<jobs, evidence>>
  BY DEF Resume
<1>4. RegistryTrue
  <2>1. ASSUME NEW a \in Attempts
        PROVE  registry'[a] = registry[a] \/ RowSays(a, registry'[a])
    <3>1. CASE OnRecord(a)
      <4>1. a[1] \in Stages /\ Row(a[1]).id = a
        BY <3>1, AttemptFacts DEF OnRecord
      <4>2. registry'[a] = RowReconciled(a[1], found[a[1]])
        BY <1>1, <3>1
      <4> QED BY <4>1, <4>2, FindingsFacts, RowReconciledSays
    <3>2. CASE ~OnRecord(a)
      BY <1>1, <3>2
    <3> QED BY <3>1, <3>2
  <2>2. registry' = [a \in Attempts |-> registry'[a]]
    BY <1>1
  <2> QED BY <2>1, <2>2, EditedRegistryTrue
<1> HIDE DEF rows
<1>5. Recovered(found, rows) \in StageStates
  BY DEF Recovered, StageStates
<1>6. m \in ManifestType /\ m.request = manifest.request /\ m.stage = manifest.stage
  BY <1>0, <1>5 DEF ManifestType
<1> HIDE DEF m
<1>7. Saving /\ manifest' \in {manifest, m}
  BY <1>1, <1>6, SavedOrDeadIsSaving
<1>8. manifest'.request = manifest.request /\ manifest'.stage = manifest.stage
  BY <1>6, <1>7
<1>9. \A s \in Stages : manifest'.stage[s] = "VALIDATED" => HasEvidence(s)'
  BY <1>1, <1>8 DEF IInv, ValidatedTrue, HasEvidence, AttemptsOf
<1>10. evidence' \subseteq {a \in Attempts : jobs[a] = "completed"} /\ evidence \subseteq evidence'
  BY <1>1, TypeFacts
<1>11. UNCHANGED jobs
  BY <1>1
<1> QED BY <1>4, <1>7, <1>8, <1>9, <1>10, <1>11, QuietKeeps

-----------------------------------------------------------------------------
(* The theorems.                                                            *)

LEMMA IInvNext == IInv /\ [Next]_vars => IInv'
<1> SUFFICES ASSUME IInv, [Next]_vars
             PROVE  IInv'
  OBVIOUS
<1>1. CASE Prepare \/ Preflight
  BY <1>1, PrepareKeeps
<1>2. CASE \E s \in Stages : SubmitAsks(s) \/ Approve(s) \/ SubmitRuns(s)
  BY <1>2, AsksKeeps, ApproveKeeps, SubmitKeeps
<1>3. CASE (\E seen \in Pulls : Status(seen)) \/ (\E seen \in Collections : Collect(seen))
  BY <1>3, StatusKeeps, CollectKeeps
<1>4. CASE \E found \in Findings : Resume(found)
  BY <1>4, ResumeKeeps
<1>5. CASE \E a \in Attempts : JobEnds(a)
  BY <1>5, JobEndsKeeps
<1>6. CASE UNCHANGED vars
  BY <1>6, StutterKeeps
<1> QED BY <1>1, <1>2, <1>3, <1>4, <1>5, <1>6 DEF Next, Collections

LEMMA IInvAlways == Spec => []IInv
<1>1. StagesAssumption /\ Init => IInv
  BY IInvInit
<1> QED BY <1>1, IInvNext, StagesAssumption, PTL DEF Spec

\* Type correctness: each variable has its type, an attempt has a job only when its
\* request has a row, only completed jobs are evidence, and an approved decision is pending.
THEOREM TypeCorrect == Spec => []TypeOK
<1>1. IInv => TypeOK
  BY DEF IInv
<1> QED BY <1>1, IInvAlways, PTL

\* A stage runs only on results that passed validation, whatever is re-collected,
\* could not be queried or is submitted again meanwhile (_dependency_errors, service.py).
THEOREM StagesRunOnEvidence == Spec => []RunsOnEvidence
<1>1. IInv => RunsOnEvidence
  BY DEF IInv, RunsOnEvidence, Supplied, HasEvidence
<1> QED BY <1>1, IInvAlways, PTL

-----------------------------------------------------------------------------
(* The retries.                                                             *)

Submissions(s) == {a \in AttemptsOf(s) : jobs[a] # "none"}
Unfailed(s)    == {a \in Submissions(s) : jobs[a] # "failed"}
Lost(s)        == {a \in Submissions(s) : registry[a].job = None}

\* Only the first request of the stage was ever submitted.
OnlyFirst(s) ==
    /\ registry[<<s, 0>>] # None /\ registry[<<s, 0>>].job \in {None, <<s, 0>>}
    /\ \A a \in AttemptsOf(s) : a # <<s, 0>> => registry[a] = None
    /\ manifest.request[s] # None =>
           manifest.request[s] = <<s, 0>> /\ registry[<<s, 0>>].job # None

\* A row names its own job; the request of the stage has one, and so has the first request
\* before any other is submitted; each unfailed job not on record is owed to a loss.
Retries(s) ==
    /\ \A a \in AttemptsOf(s) : registry[a] # None => registry[a].job \in {None, a}
    /\ manifest.request[s] # None => registry[manifest.request[s]].job # None
    /\ \A a \in AttemptsOf(s) : a # <<s, 0>> /\ registry[a] # None =>
           registry[<<s, 0>>] # None /\ registry[<<s, 0>>].job # None
    /\ Cardinality(Unfailed(s) \ {Row(s).id}) <= Cardinality(Lost(s)) + deaths

RInv == IInv /\ \A s \in Stages : Retries(s)

LEMMA RowIdIs ==
    ASSUME NEW s
    PROVE  Row(s).id = IF manifest.request[s] = None THEN <<s, 0>> ELSE manifest.request[s]
BY DEF Row

LEMMA SubmissionsFinite ==
    ASSUME IInv, NEW s \in Stages
    PROVE  /\ IsFiniteSet(Unfailed(s)) /\ IsFiniteSet(Lost(s))
           /\ Cardinality(Unfailed(s)) \in Nat /\ Cardinality(Lost(s)) \in Nat
           /\ \A T \in SUBSET Unfailed(s) :
                  /\ IsFiniteSet(T) /\ Cardinality(T) \in Nat
                  /\ Cardinality(T) <= Cardinality(Unfailed(s))
           /\ deaths \in Nat
<1>1. IsFiniteSet(AttemptsOf(s))
  BY AttemptsFinite DEF IInv
<1>2. IsFiniteSet(Unfailed(s)) /\ IsFiniteSet(Lost(s))
  BY <1>1, FS_Subset DEF Unfailed, Lost, Submissions
<1>3. \A T \in SUBSET Unfailed(s) : IsFiniteSet(T) /\ Cardinality(T) <= Cardinality(Unfailed(s))
  BY <1>2, FS_Subset
<1> QED BY <1>2, <1>3, FS_CardinalityType, TypeFacts

\* A stage of which only the first request was ever submitted has no job beside it.
LEMMA OnlyFirstRetries == \A s \in Stages : IInv /\ OnlyFirst(s) => Retries(s)
<1> SUFFICES ASSUME IInv, NEW s \in Stages, OnlyFirst(s)
             PROVE  Retries(s)
  OBVIOUS
<1>1. Row(s).id = <<s, 0>>
  BY RowIdIs DEF OnlyFirst
<1>2. Unfailed(s) \ {<<s, 0>>} = {}
  BY TypeFacts, AttemptFacts DEF Unfailed, Submissions, OnlyFirst
<1>3. Cardinality({}) = 0
  BY FS_EmptySet
<1>4. Cardinality(Unfailed(s) \ {Row(s).id}) <= Cardinality(Lost(s)) + deaths
  <2>1. Cardinality(Unfailed(s) \ {Row(s).id}) = 0
    BY <1>1, <1>2, <1>3
  <2>2. Cardinality(Lost(s)) \in Nat /\ deaths \in Nat
    BY SubmissionsFinite
  <2> QED BY <2>1, <2>2
<1>5. <<s, 0>> \in AttemptsOf(s)
  BY AttemptFacts DEF IInv
<1> QED BY <1>4, <1>5 DEF Retries, OnlyFirst

LEMMA OnlyFirstNext == \A s \in Stages : IInv' /\ OnlyFirst(s)' => Retries(s)'
<1>1. (\A s \in Stages : IInv /\ OnlyFirst(s) => Retries(s))'
  BY OnlyFirstRetries, PTL
<1> QED BY <1>1 DEF Stages

\* A request with no job is the first one of its stage, and the only one.
LEMMA OnlyRequest ==
    ASSUME RInv, NEW s \in Stages, ~HasJob(s)
    PROVE  /\ Row(s).id = <<s, 0>> /\ manifest.request[s] = None
           /\ registry[<<s, 0>>] # None => registry[<<s, 0>>].job = None
           /\ \A a \in AttemptsOf(s) : a # <<s, 0>> => registry[a] = None
           /\ Candidates(s) \subseteq {<<s, 0>>}
<1>0. IInv /\ Retries(s)
  BY DEF RInv
<1>1. Row(s).row = registry[Row(s).id]
  BY <1>0, RowFacts
<1>2. manifest.request[s] = None
  BY <1>0, <1>1, RowIdIs DEF HasJob, Retries, IInv, Requests
<1>3. Row(s).id = <<s, 0>> /\ (registry[<<s, 0>>] # None => registry[<<s, 0>>].job = None)
  BY <1>1, <1>2, RowIdIs DEF HasJob
<1>4. \A a \in AttemptsOf(s) : a # <<s, 0>> => registry[a] = None
  BY <1>0, <1>3 DEF Retries
<1> QED BY <1>0, <1>2, <1>3, <1>4, TypeFacts, AttemptFacts DEF Candidates

LEMMA FinishRequest ==
    ASSUME IInv, NEW s \in Stages, NEW m, Finish(s, m)
    PROVE  /\ \/ manifest' = m /\ deaths' = deaths
              \/ manifest'.request = manifest.request /\ deaths' = deaths + 1
           /\ deaths \in Nat /\ deaths' \in Nat /\ deaths <= deaths'
<1>1. Stored(s).request = manifest.request
  BY InHandTyped DEF Stored
<1> QED BY <1>1, TypeFacts DEF Finish, SavedWith, Dies

LEMMA EndsRequest ==
    ASSUME IInv, NEW s \in Stages, NEW id
    PROVE  /\ Submitted(s, id).request = [manifest.request EXCEPT ![s] = id]
           /\ Unresolved(s).request = manifest.request
           /\ NotSubmitted(s).request = manifest.request
<1>1. InHand(s) \in ManifestType /\ InHand(s).request = manifest.request
  BY InHandTyped
<1> QED BY <1>1 DEF Submitted, Unresolved, NotSubmitted, ManifestType

\* What one sbatch leaves: a job on record or a death, or a row without a job.
LEMMA SbatchFacts ==
    ASSUME IInv, NEW s \in Stages, NEW id \in AttemptsOf(s), Sbatch(s, id)
    PROVE  /\ \E r \in Rows :
                  /\ registry' = [registry EXCEPT ![id] = r]
                  /\ \/ /\ r.job = id /\ NewJob(id)
                        /\ \/ /\ manifest'.request = [manifest.request EXCEPT ![s] = id]
                              /\ deaths' = deaths
                           \/ manifest'.request = manifest.request /\ deaths' = deaths + 1
                     \/ /\ r.job = None /\ (NewJob(id) \/ UNCHANGED jobs)
                        /\ manifest'.request = manifest.request
           /\ deaths \in Nat /\ deaths' \in Nat /\ deaths <= deaths'
<1>1. id \in Attempts
  BY AttemptFacts
<1>2. CASE NewRow(id, "SUBMITTED", id) /\ NewJob(id) /\ Finish(s, Submitted(s, id))
  <2> DEFINE r == [state |-> "SUBMITTED", job |-> id]
  <2>1. r \in Rows /\ r.job = id /\ registry' = [registry EXCEPT ![id] = r]
    BY <1>1, <1>2 DEF Rows, RowStates, NewRow
  <2>2. /\ \/ /\ manifest'.request = [manifest.request EXCEPT ![s] = id] /\ deaths' = deaths
           \/ manifest'.request = manifest.request /\ deaths' = deaths + 1
        /\ deaths \in Nat /\ deaths' \in Nat /\ deaths <= deaths'
    BY <1>2, FinishRequest, EndsRequest
  <2> HIDE DEF r
  <2> QED BY <1>2, <2>1, <2>2
<1>3. CASE /\ NewRow(id, "FAILED", None) /\ (NewJob(id) \/ UNCHANGED jobs)
           /\ Finish(s, NotSubmitted(s))
  <2> DEFINE r == [state |-> "FAILED", job |-> None]
  <2>1. r \in Rows /\ r.job = None /\ registry' = [registry EXCEPT ![id] = r]
    BY <1>3 DEF Rows, RowStates, NewRow
  <2>2. manifest'.request = manifest.request /\ deaths \in Nat /\ deaths' \in Nat /\ deaths <= deaths'
    <3>1. Finish(s, NotSubmitted(s)) /\ NotSubmitted(s).request = manifest.request
      BY <1>3, EndsRequest
    <3> QED BY <3>1, FinishRequest
  <2>3. NewJob(id) \/ UNCHANGED jobs
    BY <1>3
  <2> HIDE DEF r
  <2>4. /\ r.job = None /\ (NewJob(id) \/ UNCHANGED jobs)
        /\ manifest'.request = manifest.request
    BY <2>1, <2>2, <2>3
  <2> QED BY <2>1, <2>2, <2>4
<1>4. CASE /\ NewRow(id, "SUBMITTING", None) /\ (NewJob(id) \/ UNCHANGED jobs)
           /\ Finish(s, Unresolved(s))
  <2> DEFINE r == [state |-> "SUBMITTING", job |-> None]
  <2>1. r \in Rows /\ r.job = None /\ registry' = [registry EXCEPT ![id] = r]
    BY <1>4 DEF Rows, RowStates, NewRow
  <2>2. manifest'.request = manifest.request /\ deaths \in Nat /\ deaths' \in Nat /\ deaths <= deaths'
    <3>1. Finish(s, Unresolved(s)) /\ Unresolved(s).request = manifest.request
      BY <1>4, EndsRequest
    <3> QED BY <3>1, FinishRequest
  <2>3. NewJob(id) \/ UNCHANGED jobs
    BY <1>4
  <2> HIDE DEF r
  <2>4. /\ r.job = None /\ (NewJob(id) \/ UNCHANGED jobs)
        /\ manifest'.request = manifest.request
    BY <2>1, <2>2, <2>3
  <2> QED BY <2>1, <2>2, <2>4
<1> QED BY <1>2, <1>3, <1>4 DEF Sbatch

\* A request whose row gets, or waits for, the job found under the name of the stage.
LEMMA AdoptedRetries ==
    ASSUME RInv, IInv', NEW s \in Stages, ~HasJob(s), NEW r \in Rows,
           \A a \in AttemptsOf(s) : registry'[a] = IF a = <<s, 0>> THEN r ELSE registry[a],
           r.job \in {None, <<s, 0>>},
           \/ manifest'.request[s] = manifest.request[s]
           \/ manifest'.request[s] = <<s, 0>> /\ r.job # None
    PROVE  Retries(s)'
<1>0. IInv /\ <<s, 0>> \in AttemptsOf(s) /\ None \notin Rows
  BY AttemptFacts, TypeFacts DEF RInv, IInv
<1>1. manifest.request[s] = None /\ \A a \in AttemptsOf(s) : a # <<s, 0>> => registry[a] = None
  BY OnlyRequest
<1>2. registry'[<<s, 0>>] = r /\ \A a \in AttemptsOf(s) : a # <<s, 0>> => registry'[a] = None
  BY <1>0, <1>1
<1>3. OnlyFirst(s)'
  BY <1>0, <1>1, <1>2 DEF OnlyFirst, AttemptsOf
<1> QED BY <1>3, OnlyFirstNext

\* The first submission of a stage, also once more after a scan that found nothing.
LEMMA FirstSbatch ==
    ASSUME RInv, IInv', NEW s \in Stages, ~HasJob(s), Sbatch(s, Row(s).id)
    PROVE  Retries(s)'
<1> DEFINE id == <<s, 0>>
<1>0. IInv /\ id \in AttemptsOf(s)
  BY AttemptFacts DEF RInv, IInv
<1>1. Row(s).id = id
  BY OnlyRequest
<1>2. PICK r \in Rows :
          /\ registry' = [registry EXCEPT ![id] = r]
          /\ \/ /\ r.job = id
                /\ \/ manifest'.request = [manifest.request EXCEPT ![s] = id]
                   \/ manifest'.request = manifest.request
             \/ r.job = None /\ manifest'.request = manifest.request
  BY <1>0, <1>1, SbatchFacts
<1>3. manifest.request \in [Stages -> Attempts \cup {None}] /\ id # None
  BY <1>0, TypeFacts, AttemptFacts DEF ManifestType
<1>4. \/ manifest'.request[s] = manifest.request[s]
      \/ manifest'.request[s] = id /\ r.job # None
  BY <1>2, <1>3
<1>5. \A a \in AttemptsOf(s) : registry'[a] = IF a = id THEN r ELSE registry[a]
  BY <1>0, <1>2, TypeFacts, AttemptFacts
<1> QED BY <1>2, <1>4, <1>5, AdoptedRetries

\* What the operations that submit nothing for the stage keep of it.
Steady(s) ==
    /\ manifest'.request[s] = manifest.request[s]
    /\ \A a \in AttemptsOf(s) :
           /\ registry'[a] = None <=> registry[a] = None
           /\ registry[a] # None => registry'[a].job = registry[a].job
           /\ jobs'[a] = "none" <=> jobs[a] = "none"
           /\ jobs[a] = "failed" => jobs'[a] = "failed"
    /\ deaths' \in Nat /\ deaths <= deaths'

LEMMA SteadyRetries ==
    ASSUME RInv, IInv', NEW s \in Stages, Steady(s)
    PROVE  Retries(s)'
<1>0. IInv /\ Retries(s)
  BY DEF RInv
<1>1. AttemptsOf(s)' = AttemptsOf(s) /\ <<s, 0>> \in AttemptsOf(s)
  BY <1>0, AttemptFacts DEF AttemptsOf, IInv
<1>2. Row(s).id' = Row(s).id
  BY RowIdIs DEF Row, Steady
<1>3. Unfailed(s)' \subseteq Unfailed(s) /\ Lost(s)' = Lost(s)
  <2>1. \A a \in AttemptsOf(s) : jobs[a] # "none" => registry[a] # None
    BY <1>0, TypeFacts, AttemptFacts
  <2> QED BY <1>1, <2>1 DEF Unfailed, Lost, Submissions, Steady
<1>4. Cardinality(Unfailed(s)' \ {Row(s).id}) <= Cardinality(Unfailed(s) \ {Row(s).id})
  <2>1. IsFiniteSet(Unfailed(s) \ {Row(s).id})
    BY <1>0, SubmissionsFinite
  <2> QED BY <1>3, <2>1, FS_Subset
<1>5. /\ Cardinality(Unfailed(s) \ {Row(s).id}) \in Nat /\ Cardinality(Lost(s)) \in Nat
      /\ Cardinality(Unfailed(s)' \ {Row(s).id}) \in Nat /\ deaths \in Nat
  <2>1. Unfailed(s)' \ {Row(s).id} \in SUBSET Unfailed(s)
    BY <1>3
  <2> QED BY <1>0, <2>1, SubmissionsFinite
<1>6. Cardinality(Unfailed(s)' \ {Row(s).id}) <= Cardinality(Lost(s)) + deaths'
  BY <1>0, <1>4, <1>5 DEF Retries, Steady
<1>7. /\ \A a \in AttemptsOf(s) : registry'[a] # None => registry'[a].job \in {None, a}
      /\ \A a \in AttemptsOf(s) : a # <<s, 0>> /\ registry'[a] # None =>
             registry'[<<s, 0>>] # None /\ registry'[<<s, 0>>].job # None
  BY <1>0, <1>1 DEF Retries, Steady
<1>8. manifest'.request[s] # None => registry'[manifest'.request[s]].job # None
  <2>1. manifest.request[s] # None =>
            manifest.request[s] \in AttemptsOf(s) /\ registry[manifest.request[s]] # None
    BY <1>0 DEF IInv, Requests
  <2> QED BY <1>0, <2>1 DEF Retries, Steady
<1> QED BY <1>1, <1>2, <1>3, <1>6, <1>7, <1>8 DEF Retries

\* A forced attempt: the request on record has failed, so what is new beside an unfailed
\* job is the attempt itself - on record, lost, or left behind by a death.
LEMMA ForcedRetries ==
    ASSUME RInv, IInv', NEW s \in Stages, Retryable(Row(s).row), Forced(s)
    PROVE  Retries(s)'
<1> DEFINE old == Row(s).id
<1>0. IInv /\ Retries(s)
  BY DEF RInv
<1>1. PICK n \in 1..MaxForced[s] : registry[<<s, n>>] = None /\ Sbatch(s, <<s, n>>)
  BY DEF Forced
<1>2. PICK id \in AttemptsOf(s) : id # <<s, 0>> /\ registry[id] = None /\ Sbatch(s, id)
  <2>1. <<s, n>> \in AttemptsOf(s) /\ <<s, n>> # <<s, 0>>
    BY <1>0, AttemptFacts DEF IInv, StagesAssumption
  <2> QED BY <1>1, <2>1
<1>3. /\ id \in Attempts /\ jobs[id] = "none" /\ id # None /\ <<s, 0>> \in AttemptsOf(s)
      /\ \A a \in AttemptsOf(s) : a \in Attempts
  BY <1>0, <1>2, AttemptFacts, TypeFacts DEF IInv
<1>4. /\ old \in AttemptsOf(s) /\ registry[old] # None /\ registry[old].job = old
      /\ jobs[old] = "failed"
  <2>1. HasJob(s) /\ Row(s).row.state = "FAILED"
    BY DEF Retryable, HasJob
  <2>2. /\ old \in AttemptsOf(s) /\ Row(s).row = registry[old]
        /\ jobs[Row(s).row.job] = "failed"
    BY <1>0, <2>1, RowFacts
  <2> QED BY <1>0, <2>1, <2>2 DEF Retries, HasJob
<1>5. old # id /\ manifest.request[s] # id
  BY <1>0, <1>2, <1>3, <1>4 DEF Requests, IInv
<1>6. PICK r \in Rows :
          /\ registry' = [registry EXCEPT ![id] = r]
          /\ \/ /\ r.job = id /\ NewJob(id)
                /\ \/ /\ manifest'.request = [manifest.request EXCEPT ![s] = id]
                      /\ deaths' = deaths
                   \/ manifest'.request = manifest.request /\ deaths' = deaths + 1
             \/ /\ r.job = None /\ (NewJob(id) \/ UNCHANGED jobs)
                /\ manifest'.request = manifest.request
  BY <1>0, <1>2, SbatchFacts
<1>7. deaths \in Nat /\ deaths' \in Nat /\ deaths <= deaths'
  BY <1>0, <1>2, SbatchFacts
<1>8. registry'[id] = r /\ \A a \in AttemptsOf(s) : a # id => registry'[a] = registry[a]
  BY <1>0, <1>3, <1>6, TypeFacts
<1>9. r # None
  BY <1>0, TypeFacts
<1>10. AttemptsOf(s)' = AttemptsOf(s)
  BY DEF AttemptsOf
<1>11. \A a \in AttemptsOf(s) : registry'[a] # None => registry'[a].job \in {None, a}
  BY <1>0, <1>6, <1>8 DEF Retries
<1>12. registry'[<<s, 0>>] # None /\ registry'[<<s, 0>>].job # None
  <2>1. registry[<<s, 0>>] # None /\ registry[<<s, 0>>].job # None
    BY <1>0, <1>3, <1>4, AttemptFacts, TypeFacts DEF Retries
  <2> QED BY <1>2, <1>3, <1>8, <2>1
<1>13. manifest.request[s] # None =>
          manifest.request[s] \in AttemptsOf(s) /\ registry'[manifest.request[s]].job # None
  <2>1. manifest.request[s] # None => manifest.request[s] \in AttemptsOf(s)
    BY <1>0 DEF IInv, Requests
  <2> QED BY <1>0, <1>5, <1>8, <2>1 DEF Retries
<1>14. manifest.request \in [Stages -> Attempts \cup {None}]
  BY <1>0, TypeFacts DEF ManifestType
<1>15. manifest'.request[s] # None => registry'[manifest'.request[s]].job # None
  BY <1>3, <1>6, <1>8, <1>13, <1>14
<1>16. /\ Cardinality(Unfailed(s)) <= Cardinality(Lost(s)) + deaths
       /\ IsFiniteSet(Unfailed(s)) /\ IsFiniteSet(Lost(s))
       /\ Cardinality(Unfailed(s)) \in Nat /\ Cardinality(Lost(s)) \in Nat
  <2>1. Unfailed(s) \ {old} = Unfailed(s)
    BY <1>4 DEF Unfailed
  <2> QED BY <1>0, <2>1, SubmissionsFinite DEF Retries
<1>17. id \notin Unfailed(s) /\ id \notin Lost(s) /\ old \notin Unfailed(s)
  BY <1>3, <1>4 DEF Unfailed, Lost, Submissions
<1>18. NewJob(id) => \A a \in AttemptsOf(s) : jobs'[a] = IF a = id THEN "running" ELSE jobs[a]
  BY <1>0, <1>3, TypeFacts DEF NewJob
<1>19. Row(s).id' = IF manifest'.request[s] = None THEN <<s, 0>> ELSE manifest'.request[s]
  BY DEF Row
<1>20. manifest'.request = manifest.request => Row(s).id' = old
  BY <1>19, RowIdIs
<1>21. Cardinality(Unfailed(s)' \ {Row(s).id'}) <= Cardinality(Lost(s)') + deaths'
  <2>1. CASE r.job = id /\ NewJob(id) /\ deaths' = deaths
             /\ manifest'.request = [manifest.request EXCEPT ![s] = id]
    <3>1. Row(s).id' = id
      BY <1>3, <1>14, <1>19, <2>1
    <3>2. Unfailed(s)' \ {id} = Unfailed(s) /\ Lost(s)' = Lost(s)
      BY <1>3, <1>8, <1>10, <1>18, <2>1 DEF Unfailed, Lost, Submissions
    <3> QED BY <1>16, <2>1, <3>1, <3>2
  <2>2. CASE r.job = id /\ NewJob(id) /\ deaths' = deaths + 1
             /\ manifest'.request = manifest.request
    <3>1. Unfailed(s)' \ {old} = Unfailed(s) \cup {id} /\ Lost(s)' = Lost(s)
      BY <1>3, <1>4, <1>5, <1>8, <1>10, <1>18, <2>2 DEF Unfailed, Lost, Submissions
    <3>2. Cardinality(Unfailed(s) \cup {id}) = Cardinality(Unfailed(s)) + 1
      BY <1>16, <1>17, FS_AddElement
    <3> QED BY <1>7, <1>16, <1>20, <2>2, <3>1, <3>2
  <2>3. CASE r.job = None /\ NewJob(id) /\ manifest'.request = manifest.request
    <3>1. Unfailed(s)' \ {old} = Unfailed(s) \cup {id} /\ Lost(s)' = Lost(s) \cup {id}
      BY <1>3, <1>4, <1>5, <1>8, <1>10, <1>18, <2>3 DEF Unfailed, Lost, Submissions
    <3>2. /\ Cardinality(Unfailed(s) \cup {id}) = Cardinality(Unfailed(s)) + 1
          /\ Cardinality(Lost(s) \cup {id}) = Cardinality(Lost(s)) + 1
      BY <1>16, <1>17, FS_AddElement
    <3> QED BY <1>7, <1>16, <1>20, <2>3, <3>1, <3>2
  <2>4. CASE UNCHANGED jobs /\ manifest'.request = manifest.request
    <3>1. Unfailed(s)' \ {old} = Unfailed(s) /\ Lost(s)' = Lost(s)
      BY <1>3, <1>8, <1>10, <1>17, <2>4 DEF Unfailed, Lost, Submissions
    <3> QED BY <1>7, <1>16, <1>20, <2>4, <3>1
  <2> QED BY <1>6, <2>1, <2>2, <2>3, <2>4
<1> QED BY <1>10, <1>11, <1>12, <1>15, <1>21 DEF Retries

\* A submission that only ended in the manifest.
LEMMA FinishSteady ==
    ASSUME IInv, NEW s \in Stages, UNCHANGED <<registry, jobs>>,
           Finish(s, NotSubmitted(s)) \/ Finish(s, Unresolved(s))
    PROVE  Steady(s)
<1>1. /\ Unresolved(s).request = manifest.request
      /\ NotSubmitted(s).request = manifest.request
  BY EndsRequest
<1>2. CASE Finish(s, NotSubmitted(s))
  BY <1>1, <1>2, FinishRequest DEF Steady
<1>3. CASE Finish(s, Unresolved(s))
  BY <1>1, <1>3, FinishRequest DEF Steady
<1> QED BY <1>2, <1>3

LEMMA ReconciledRetries ==
    ASSUME RInv, IInv', NEW s \in Stages, Row(s).row # None, Row(s).row.job = None,
           Reconciled(s, Row(s).id)
    PROVE  Retries(s)'
<1>0. IInv /\ ~HasJob(s)
  BY DEF RInv, HasJob
<1>1. Row(s).id = <<s, 0>> /\ Candidates(s) \subseteq {<<s, 0>>}
  BY <1>0, OnlyRequest
<1>2. <<s, 0>> \in AttemptsOf(s) /\ \A a \in AttemptsOf(s) : a \in Attempts
  BY <1>0, AttemptFacts DEF IInv
<1>3. CASE Sbatch(s, Row(s).id)
  BY <1>0, <1>3, FirstSbatch
<1>4. CASE UNCHANGED <<registry, jobs>> /\ Finish(s, Unresolved(s))
  BY <1>0, <1>4, FinishSteady, SteadyRetries
<1>5. ASSUME NEW job \in Candidates(s),
             NEW state \in {SchedulerState(job), "UNKNOWN_RECONCILIATION_REQUIRED"},
             NewRow(<<s, 0>>, state, job),
             Finish(s, Unresolved(s)) \/ Finish(s, Submitted(s, <<s, 0>>))
      PROVE  Retries(s)'
  <2> DEFINE r == [state |-> state, job |-> job]
  <2>1. job = <<s, 0>> /\ job # None
    BY <1>0, <1>1, <1>2, TypeFacts
  <2>2. r \in Rows /\ r.job = job
    BY <1>2, <2>1, SchedulerStateTrue DEF Rows, RowStates
  <2>3. registry' = [registry EXCEPT ![<<s, 0>>] = r]
    BY <1>5 DEF NewRow
  <2> HIDE DEF r
  <2>4. \A a \in AttemptsOf(s) : registry'[a] = IF a = <<s, 0>> THEN r ELSE registry[a]
    BY <1>0, <1>2, <2>3, TypeFacts
  <2>5. \/ manifest'.request[s] = manifest.request[s]
        \/ manifest'.request[s] = <<s, 0>>
    <3>1. /\ Submitted(s, <<s, 0>>).request = [manifest.request EXCEPT ![s] = <<s, 0>>]
          /\ Unresolved(s).request = manifest.request
      BY <1>0, EndsRequest
    <3>2. manifest.request \in [Stages -> Attempts \cup {None}]
      BY <1>0, TypeFacts DEF ManifestType
    <3>3. CASE Finish(s, Unresolved(s))
      BY <1>0, <3>1, <3>3, FinishRequest
    <3>4. CASE Finish(s, Submitted(s, <<s, 0>>))
      BY <1>0, <3>1, <3>2, <3>4, FinishRequest
    <3> QED BY <1>5, <3>3, <3>4
  <2> QED BY <1>0, <2>1, <2>2, <2>4, <2>5, AdoptedRetries
<1> QED BY <1>1, <1>3, <1>4, <1>5 DEF Reconciled

LEMMA SubmitRetries ==
    ASSUME RInv, IInv', NEW s \in Stages, SubmitRuns(s), NEW t \in Stages
    PROVE  Retries(t)'
<1>0. IInv
  BY DEF RInv
<1>1. CASE t = s
  <2>1. CASE Row(s).row = None /\ Sbatch(s, Row(s).id)
    BY <1>1, <2>1, FirstSbatch DEF HasJob
  <2>2. CASE Retryable(Row(s).row) /\ Forced(s)
    BY <1>1, <2>2, ForcedRetries
  <2>3. CASE Row(s).row # None /\ Row(s).row.job = None /\ Reconciled(s, Row(s).id)
    BY <1>1, <2>3, ReconciledRetries
  <2>4. CASE /\ UNCHANGED <<registry, jobs>>
             /\ Finish(s, NotSubmitted(s)) \/ Finish(s, Unresolved(s))
    BY <1>0, <1>1, <2>4, FinishSteady, SteadyRetries
  <2> QED BY <2>1, <2>2, <2>3, <2>4 DEF SubmitRuns
<1>2. CASE t # s
  <2>1. PICK id \in AttemptsOf(s) : Outcome(s, id)
    BY <1>0, SubmitOutcome
  <2>2. \A a \in AttemptsOf(t) : a \in Attempts /\ a # id
    BY <1>2, <2>1, AttemptFacts
  <2>3. \A a \in AttemptsOf(t) : registry'[a] = registry[a] /\ jobs'[a] = jobs[a]
    BY <1>0, <2>1, <2>2, TypeFacts DEF Outcome, NewJobTrue, NewRowTrue, NewJob
  <2>4. manifest'.request[t] = manifest.request[t]
    BY <1>2, <2>1 DEF Outcome, ManifestTrue
  <2>5. deaths' \in Nat /\ deaths <= deaths'
    BY <1>0, <2>1, TypeFacts DEF Outcome, Saving
  <2> QED BY <2>3, <2>4, <2>5, SteadyRetries DEF Steady
<1> QED BY <1>1, <1>2

\* What saves only the manifest, and the tools that edit the states of the rows.
LEMMA SavingSteady ==
    ASSUME IInv, NEW s \in Stages, Saving, UNCHANGED jobs,
           manifest'.request[s] = manifest.request[s],
           \A a \in AttemptsOf(s) :
               /\ registry'[a] = None <=> registry[a] = None
               /\ registry[a] # None => registry'[a].job = registry[a].job
    PROVE  Steady(s)
BY TypeFacts DEF Saving, Steady

LEMMA PlainRequest ==
    ASSUME IInv, NEW m, SavedOrDead(m) \/ SavedWith(m, {}), m.request = manifest.request
    PROVE  manifest'.request = manifest.request
BY DEF SavedOrDead, SavedWith, Dies

LEMMA PrepareSteady ==
    ASSUME IInv, NEW s \in Stages, Prepare \/ Preflight
    PROVE  Steady(s)
<1>1. manifest \in ManifestType
  BY TypeFacts
<1>2. \A state : [manifest EXCEPT !.state = state].request = manifest.request
  BY <1>1 DEF ManifestType
<1>3. Preflighted.request = manifest.request
  BY <1>1 DEF Preflighted, ManifestType
<1>4. \/ SavedWith(Preflighted, {})
      \/ \E state : SavedWith([manifest EXCEPT !.state = state], {})
  BY DEF Prepare, Preflight
<1>5. manifest'.request = manifest.request /\ deaths' = deaths
  <2>1. CASE SavedWith(Preflighted, {})
    BY <1>3, <2>1 DEF SavedWith
  <2>2. ASSUME NEW state, SavedWith([manifest EXCEPT !.state = state], {})
        PROVE  manifest'.request = manifest.request /\ deaths' = deaths
    BY <1>2, <2>2 DEF SavedWith
  <2> QED BY <1>4, <2>1, <2>2
<1>6. UNCHANGED <<registry, jobs>>
  BY DEF Prepare, Preflight
<1> QED BY <1>5, <1>6, TypeFacts DEF Steady

LEMMA AsksSteady ==
    ASSUME IInv, NEW s \in Stages, NEW t \in Stages, SubmitAsks(t)
    PROVE  Steady(s)
<1>1. Saving /\ manifest' \in {[InHand(t) EXCEPT !.state = AwaitingState], Stored(t)}
  BY AsksSaving
<1>2. InHand(t) \in ManifestType /\ InHand(t).request = manifest.request
  BY InHandTyped
<1>3. manifest'.request = manifest.request
  BY <1>1, <1>2 DEF Stored, ManifestType
<1>4. UNCHANGED <<registry, jobs>>
  BY DEF SubmitAsks
<1> QED BY <1>1, <1>3, <1>4, SavingSteady

\* An edit of the state of a row.
LEMMA EditedRow ==
    ASSUME IInv, NEW a \in Attempts, registry[a] # None, NEW state \in RowStates
    PROVE  /\ [registry[a] EXCEPT !.state = state] # None
           /\ [registry[a] EXCEPT !.state = state].job = registry[a].job
<1>1. registry[a] \in Rows /\ None \notin Rows
  BY TypeFacts
<1>2. [registry[a] EXCEPT !.state = state] \in Rows
  BY <1>1 DEF Rows
<1> QED BY <1>1, <1>2 DEF Rows

LEMMA StatusSteady ==
    ASSUME IInv, NEW s \in Stages, NEW seen \in Pulls, Status(seen)
    PROVE  Steady(s)
<1> DEFINE m == [manifest EXCEPT !.state = Observed(Implied(seen)), !.stage = StagesAfter(seen)]
<1>1. Saving /\ UNCHANGED jobs
  BY StatusKeeps DEF Status
<1>2. manifest'.request = manifest.request
  <2>1. m.request = manifest.request
    BY TypeFacts DEF ManifestType
  <2>2. SavedOrDead(m)
    BY DEF Status
  <2> HIDE DEF m
  <2> QED BY <2>1, <2>2, PlainRequest
<1>3. ASSUME NEW a \in AttemptsOf(s)
      PROVE  /\ registry'[a] = None <=> registry[a] = None
             /\ registry[a] # None => registry'[a].job = registry[a].job
  <2>1. a \in Attempts /\ a[1] = s
    BY AttemptFacts
  <2>2. registry'[a] = IF OnRecord(a) /\ HasJob(s) /\ seen[s] \in {"RUNNING", "COMPLETED", "FAILED"}
                       THEN [registry[a] EXCEPT !.state = seen[s]] ELSE registry[a]
    BY <2>1 DEF Status, RowsAfter
  <2>3. OnRecord(a) /\ HasJob(s) => registry[a] # None
    BY <2>1 DEF OnRecord, HasJob, Row
  <2>4. {"RUNNING", "COMPLETED", "FAILED"} \subseteq RowStates
    BY DEF RowStates
  <2> QED BY <2>1, <2>2, <2>3, <2>4, EditedRow
<1> QED BY <1>1, <1>2, <1>3, SavingSteady

LEMMA CollectSteady ==
    ASSUME IInv, NEW s \in Stages, NEW seen \in Collections, Collect(seen)
    PROVE  Steady(s)
<1> DEFINE next == Decided(seen)
           m == [manifest EXCEPT
                    !.state = IF next = manifest.state \/ CollectAllowed(manifest.state, next)
                              THEN next ELSE "FAILED",
                    !.stage = StagesAfter(seen)]
<1>1. Saving /\ UNCHANGED jobs
  BY CollectKeeps DEF Collect
<1>2. manifest'.request = manifest.request
  <2>1. m.request = manifest.request
    BY TypeFacts DEF ManifestType
  <2>2. SavedOrDead(m)
    BY DEF Collect
  <2> HIDE DEF m
  <2> QED BY <2>1, <2>2, PlainRequest
<1>3. ASSUME NEW a \in AttemptsOf(s)
      PROVE  /\ registry'[a] = None <=> registry[a] = None
             /\ registry[a] # None => registry'[a].job = registry[a].job
  <2>1. a \in Attempts /\ a[1] = s
    BY AttemptFacts
  <2>2. registry'[a] =
            IF ~OnRecord(a) THEN registry[a]
            ELSE IF seen[s] = "VALIDATED" THEN [registry[a] EXCEPT !.state = "VALIDATED"]
            ELSE IF seen[s] = "VALIDATION_FAILED" /\ registry[a].state = "COMPLETED"
            THEN [registry[a] EXCEPT !.state = "COLLECTED"] ELSE registry[a]
    BY <2>1 DEF Collect
  <2>3. OnRecord(a) /\ seen[s] \in {"VALIDATED", "VALIDATION_FAILED"} => registry[a] # None
    <3>1. <<s, seen[s]>> \in UNION {{t} \X Collected(t) : t \in Stages}
      BY ObservationsFacts DEF Collections
    <3>2. PICK t \in Stages : <<s, seen[s]>> \in {t} \X Collected(t)
      BY <3>1
    <3>3. seen[s] \in {"VALIDATED", "VALIDATION_FAILED"} => HasJob(s)
      BY <3>2, CollectedFacts
    <3> QED BY <2>1, <3>3 DEF OnRecord, HasJob, Row
  <2>4. {"VALIDATED", "COLLECTED"} \subseteq RowStates
    BY DEF RowStates
  <2> QED BY <2>1, <2>2, <2>3, <2>4, EditedRow
<1> QED BY <1>1, <1>2, <1>3, SavingSteady

\* A reconciliation keeps the job a row names, or finds the one of its stage.
LEMMA RowReconciledJob ==
    ASSUME IInv, NEW s \in Stages, NEW found \in Found(s) \cup {"NOT_FOUND"}
    PROVE  \/ RowReconciled(s, found) = registry[Row(s).id]
           \/ /\ RowReconciled(s, found) \in Rows /\ Row(s).row # None
              /\ HasJob(s) => RowReconciled(s, found).job = Row(s).row.job
              /\ ~HasJob(s) => RowReconciled(s, found).job \in Candidates(s) \cup {None}
<1> DEFINE r == RowReconciled(s, found)
<1>0. Row(s).row = registry[Row(s).id] /\ Row(s).row \in Rows \cup {None}
  BY RowFacts
<1>1. r = registry[Row(s).id] \/ r \in Rows
  BY RowReconciledSays DEF RowSays
<1>2. /\ found \in {"NOT_FOUND", "ERROR", "MULTIPLE", "UNKNOWN", "RUNNING", "FAILED", "COMPLETED"}
      /\ found \in {"UNKNOWN", "RUNNING", "FAILED", "COMPLETED"} => JobFound(s) \in Candidates(s)
  BY FoundFacts
<1>3. CASE found \in {"NOT_FOUND", "ERROR"}
  BY <1>0, <1>3 DEF RowReconciled
<1>4. CASE found = "MULTIPLE" /\ r # registry[Row(s).id]
  <2>1. Row(s).row # None
    BY <1>4, FoundFacts
  <2>2. r = [Row(s).row EXCEPT !.state = "UNKNOWN_RECONCILIATION_REQUIRED"]
    BY <1>4 DEF RowReconciled
  <2>3. r.job = Row(s).row.job
    BY <1>0, <2>1, <2>2 DEF Rows
  <2> HIDE DEF r
  <2>4. ~HasJob(s) => r.job = None
    BY <2>1, <2>3 DEF HasJob
  <2> QED BY <1>1, <1>4, <2>1, <2>3, <2>4 DEF r
<1>5. CASE found \in {"UNKNOWN", "RUNNING", "FAILED", "COMPLETED"} /\ r # registry[Row(s).id]
  <2>1. Row(s).row # None
    BY <1>0, <1>5 DEF Found, HasJob
  <2>2. r = [state |-> IF found = "UNKNOWN" THEN "UNKNOWN_RECONCILIATION_REQUIRED" ELSE found,
             job |-> JobFound(s)]
    BY <1>5 DEF RowReconciled, JobFound
  <2>3. r.job = JobFound(s)
    BY <2>2
  <2> HIDE DEF r
  <2>4. /\ HasJob(s) => r.job = Row(s).row.job
        /\ ~HasJob(s) => r.job \in Candidates(s) \cup {None}
    BY <1>2, <1>5, <2>3 DEF JobFound
  <2> QED BY <1>1, <1>5, <2>1, <2>4 DEF r
<1> QED BY <1>2, <1>3, <1>4, <1>5

LEMMA ResumeRetries ==
    ASSUME RInv, IInv', NEW s \in Stages, NEW found \in Findings, Resume(found)
    PROVE  Retries(s)'
<1> DEFINE rows == [a \in Attempts |-> IF OnRecord(a) THEN RowReconciled(a[1], found[a[1]])
                                      ELSE registry[a]]
           m    == [manifest EXCEPT !.state = Recovered(found, rows)]
           r    == RowReconciled(s, found[s])
<1>0. IInv
  BY DEF RInv
<1>1. Saving /\ UNCHANGED jobs
  BY <1>0, ResumeKeeps DEF Resume
<1>2. manifest'.request = manifest.request
  <2>1. m.request = manifest.request
    BY <1>0, TypeFacts DEF ManifestType
  <2>2. SavedOrDead(m)
    BY DEF Resume
  <2> HIDE DEF m, rows
  <2> QED BY <1>0, <2>1, <2>2, PlainRequest
<1>3. \A a \in AttemptsOf(s) : registry'[a] = IF a = Row(s).id THEN r ELSE registry[a]
  BY AttemptFacts DEF Resume, OnRecord
<1>4. \/ r = registry[Row(s).id]
      \/ /\ r \in Rows /\ Row(s).row # None
         /\ HasJob(s) => r.job = Row(s).row.job
         /\ ~HasJob(s) => r.job \in Candidates(s) \cup {None}
  BY <1>0, FindingsFacts, RowReconciledJob
<1>5. Row(s).row = registry[Row(s).id] /\ None \notin Rows
  BY <1>0, RowFacts, TypeFacts
<1> HIDE DEF rows, m, r
<1>6. CASE r = registry[Row(s).id] \/ HasJob(s)
  <2>1. \A a \in AttemptsOf(s) :
            /\ registry'[a] = None <=> registry[a] = None
            /\ registry[a] # None => registry'[a].job = registry[a].job
    BY <1>3, <1>4, <1>5, <1>6 DEF HasJob
  <2> QED BY <1>0, <1>1, <1>2, <2>1, SavingSteady, SteadyRetries
<1>7. CASE r # registry[Row(s).id] /\ ~HasJob(s)
  <2>1. Row(s).id = <<s, 0>> /\ Candidates(s) \subseteq {<<s, 0>>}
    BY <1>7, OnlyRequest
  <2>2. r \in Rows /\ r.job \in {None, <<s, 0>>}
    BY <1>4, <1>7, <2>1
  <2> QED BY <1>2, <1>3, <1>7, <2>1, <2>2, AdoptedRetries
<1> QED BY <1>6, <1>7

LEMMA OtherSteady ==
    ASSUME IInv, NEW s \in Stages,
           \/ \E t \in Stages : Approve(t)
           \/ \E a \in Attempts : JobEnds(a)
           \/ UNCHANGED vars
    PROVE  Steady(s)
<1>1. CASE \E t \in Stages : Approve(t)
  BY <1>1, TypeFacts DEF Approve, Steady
<1>2. CASE \E a \in Attempts : JobEnds(a)
  <2>1. PICK a \in Attempts : JobEnds(a)
    BY <1>2
  <2>2. \A b \in AttemptsOf(s) : b \in Attempts
    BY AttemptFacts
  <2>3. \A b \in AttemptsOf(s) : /\ jobs'[b] = "none" <=> jobs[b] = "none"
                                 /\ jobs[b] = "failed" => jobs'[b] = "failed"
    BY <2>1, <2>2, TypeFacts DEF JobEnds
  <2> QED BY <2>1, <2>3, TypeFacts DEF JobEnds, Steady
<1>3. CASE UNCHANGED vars
  BY <1>3, TypeFacts DEF vars, Steady
<1> QED BY <1>1, <1>2, <1>3

LEMMA RInvNext == RInv /\ [Next]_vars => RInv'
<1> SUFFICES ASSUME RInv, [Next]_vars, NEW s \in Stages
             PROVE  Retries(s)'
  BY IInvNext DEF RInv, Stages
<1>0. IInv /\ IInv'
  BY IInvNext DEF RInv
<1>1. CASE Prepare \/ Preflight
  BY <1>0, <1>1, PrepareSteady, SteadyRetries
<1>2. ASSUME NEW t \in Stages, SubmitAsks(t)
      PROVE  Retries(s)'
  BY <1>0, <1>2, AsksSteady, SteadyRetries
<1>3. ASSUME NEW t \in Stages, SubmitRuns(t)
      PROVE  Retries(s)'
  BY <1>0, <1>3, SubmitRetries
<1>4. CASE (\E seen \in Pulls : Status(seen)) \/ (\E seen \in Collections : Collect(seen))
  BY <1>0, <1>4, StatusSteady, CollectSteady, SteadyRetries
<1>5. ASSUME NEW found \in Findings, Resume(found)
      PROVE  Retries(s)'
  BY <1>0, <1>5, ResumeRetries
<1>6. CASE \/ \E t \in Stages : Approve(t)
           \/ \E a \in Attempts : JobEnds(a)
           \/ UNCHANGED vars
  BY <1>0, <1>6, OtherSteady, SteadyRetries
<1> QED BY <1>0, <1>1, <1>2, <1>3, <1>4, <1>5, <1>6 DEF Next, Collections

LEMMA RInvInit == StagesAssumption /\ Init => RInv
<1> SUFFICES ASSUME StagesAssumption, Init, NEW s \in Stages
             PROVE  Retries(s)
  BY IInvInit DEF RInv
<1>0. IInv
  BY IInvInit
<1>1. \A a \in AttemptsOf(s) : registry[a] = None /\ jobs[a] = "none"
  BY AttemptFacts DEF Init
<1>2. manifest.request[s] = None
  BY DEF Init
<1>3. Unfailed(s) \ {Row(s).id} = {} /\ Cardinality({}) = 0
  BY <1>1, FS_EmptySet DEF Unfailed, Submissions
<1>4. Cardinality(Lost(s)) \in Nat /\ deaths \in Nat
  BY <1>0, SubmissionsFinite
<1>5. Cardinality(Unfailed(s) \ {Row(s).id}) <= Cardinality(Lost(s)) + deaths
  <2>1. Cardinality(Unfailed(s) \ {Row(s).id}) = 0
    BY <1>3
  <2> QED BY <1>4, <2>1
<1> QED BY <1>1, <1>2, <1>5 DEF Retries

\* No job of a stage is started beside one that is alive or done but for the losses: the
\* first request failed before any other was submitted, and the jobs that did not fail are
\* at most one more than those whose id the registry never got and the processes that died
\* (periodic.py submit, run_prepared).  The one more is the job on record: the invariant
\* counts the jobs beside it.
THEOREM RetriesAreAccounted == Spec => []RetriesAccounted
<1>1. RInv => RetriesAccounted
  <2> SUFFICES ASSUME RInv, NEW s \in Stages
               PROVE  /\ Submissions(s) \subseteq {<<s, 0>>} \/ jobs[<<s, 0>>] = "failed"
                      /\ Cardinality(Unfailed(s)) <= 1 + Cardinality(Lost(s)) + deaths
    BY DEF RetriesAccounted, Submissions, Unfailed, Lost
  <2>0. IInv /\ Retries(s)
    BY DEF RInv
  <2>1. Submissions(s) \subseteq {<<s, 0>>} \/ jobs[<<s, 0>>] = "failed"
    <3> SUFFICES ASSUME NEW a \in Submissions(s), a # <<s, 0>>
                 PROVE  jobs[<<s, 0>>] = "failed"
      OBVIOUS
    <3>1. a \in Attempts /\ a[1] = s /\ a[2] # 0 /\ jobs[a] # "none"
      BY AttemptFacts DEF Submissions
    <3> QED BY <2>0, <3>1 DEF IInv, FirstFailed
  <2>2. Cardinality(Unfailed(s)) <= Cardinality(Unfailed(s) \ {Row(s).id}) + 1
    <3>1. IsFiniteSet(Unfailed(s))
      BY <2>0, SubmissionsFinite
    <3>2. /\ Cardinality(Unfailed(s)) \in Nat
          /\ Cardinality(Unfailed(s) \ {Row(s).id}) =
                 IF Row(s).id \in Unfailed(s) THEN Cardinality(Unfailed(s)) - 1
                                              ELSE Cardinality(Unfailed(s))
      BY <3>1, FS_RemoveElement, FS_CardinalityType
    <3> QED BY <3>2
  <2>3. /\ Cardinality(Unfailed(s) \ {Row(s).id}) \in Nat /\ Cardinality(Unfailed(s)) \in Nat
        /\ Cardinality(Lost(s)) \in Nat /\ deaths \in Nat
    BY <2>0, SubmissionsFinite
  <2> QED BY <2>0, <2>1, <2>2, <2>3 DEF Retries
<1> QED BY <1>1, RInvInit, RInvNext, StagesAssumption, PTL DEF Spec

-----------------------------------------------------------------------------
(* The approvals.                                                           *)

JobsOf(s) == {a \in AttemptsOf(s) : jobs[a] # "none"}

\* An approval not used yet, and each job, has an approval or a death of its own.
Approved ==
    \A s \in NeedsApproval :
        Cardinality(JobsOf(s)) + (IF s \in approved THEN 1 ELSE 0) <= approvals[s] + deaths

AInv == IInv /\ Approved

LEMMA CountTyped ==
    ASSUME IInv, NEW s \in NeedsApproval
    PROVE  /\ s \in Stages /\ IsFiniteSet(JobsOf(s)) /\ Cardinality(JobsOf(s)) \in Nat
           /\ approvals[s] \in Nat /\ deaths \in Nat
<1>1. s \in Stages
  BY DEF IInv, StagesAssumption
<1>2. IsFiniteSet(JobsOf(s))
  BY <1>1, AttemptsFinite, FS_Subset DEF JobsOf, IInv
<1> QED BY <1>1, <1>2, FS_CardinalityType, TypeFacts

\* A save uses up the approvals; a death before it counts as one.
LEMMA SavingApproved ==
    ASSUME AInv, Saving, \A s \in NeedsApproval : JobsOf(s)' = JobsOf(s)
    PROVE  Approved'
<1> SUFFICES ASSUME NEW s \in NeedsApproval
             PROVE  Cardinality(JobsOf(s)) + (IF s \in approved' THEN 1 ELSE 0)
                        <= approvals[s] + deaths'
  BY DEF Approved, Saving
<1>1. /\ Cardinality(JobsOf(s)) + (IF s \in approved THEN 1 ELSE 0) <= approvals[s] + deaths
      /\ Cardinality(JobsOf(s)) \in Nat /\ approvals[s] \in Nat /\ deaths \in Nat
  BY CountTyped DEF AInv, Approved
<1>2. (s \in approved' => s \in approved) /\ deaths' \in Nat /\ deaths <= deaths'
  BY <1>1, TypeFacts DEF Saving, AInv
<1> QED BY <1>1, <1>2

LEMMA OutcomeApproved ==
    ASSUME AInv, NEW s \in Stages, NEW id \in AttemptsOf(s), Outcome(s, id), MayRun(s)
    PROVE  Approved'
<1>0. /\ id \in Attempts /\ id[1] = s
      /\ jobs \in [Attempts -> {"none", "running", "completed", "invalid", "failed"}]
      /\ Saving
  BY AttemptFacts, TypeFacts DEF AInv, Outcome
<1>1. CASE jobs' = jobs
  <2>1. \A t \in NeedsApproval : JobsOf(t)' = JobsOf(t)
    BY <1>1 DEF JobsOf, AttemptsOf
  <2> QED BY <1>0, <2>1, SavingApproved
<1>2. CASE jobs' # jobs
  <2>1. jobs' = [jobs EXCEPT ![id] = "running"] /\ jobs[id] = "none"
    BY <1>2 DEF Outcome, NewJobTrue, NewJob
  <2>2. \A a \in Attempts : jobs'[a] = IF a = id THEN "running" ELSE jobs[a]
    BY <1>0, <2>1
  <2> SUFFICES ASSUME NEW t \in NeedsApproval
               PROVE  Cardinality(JobsOf(t)') + (IF t \in approved' THEN 1 ELSE 0)
                          <= approvals[t] + deaths'
    BY <1>0 DEF Approved, Saving
  <2>3. /\ Cardinality(JobsOf(t)) + (IF t \in approved THEN 1 ELSE 0) <= approvals[t] + deaths
        /\ t \in Stages /\ IsFiniteSet(JobsOf(t))
        /\ Cardinality(JobsOf(t)) \in Nat /\ approvals[t] \in Nat /\ deaths \in Nat
    BY CountTyped DEF AInv, Approved
  <2>4. /\ t \in approved' => t \in approved
        /\ deaths' \in Nat
        /\ (t \notin approved' /\ deaths' = deaths) \/ deaths' = deaths + 1
    BY <1>0, <2>3, TypeFacts DEF Saving, AInv
  <2>5. CASE t # s
    <3>1. JobsOf(t)' = JobsOf(t)
      BY <1>0, <2>2, <2>5 DEF JobsOf, AttemptsOf
    <3> QED BY <2>3, <2>4, <3>1
  <2>6. CASE t = s
    <3>1. JobsOf(t)' = JobsOf(t) \cup {id} /\ id \notin JobsOf(t)
      BY <1>0, <2>1, <2>2, <2>6 DEF JobsOf, AttemptsOf
    <3>2. Cardinality(JobsOf(t)') = Cardinality(JobsOf(t)) + 1
      BY <2>3, <3>1, FS_AddElement
    <3>3. t \in approved
      BY <2>6 DEF MayRun
    <3> QED BY <2>3, <2>4, <3>2, <3>3
  <2> QED BY <2>5, <2>6
<1> QED BY <1>1, <1>2

LEMMA ApproveApproved ==
    ASSUME AInv, NEW s \in Stages, Approve(s)
    PROVE  Approved'
<1>1. /\ approved' = approved \cup {s} /\ approvals' = [approvals EXCEPT ![s] = @ + 1]
      /\ s \notin approved /\ UNCHANGED <<jobs, deaths>>
  BY DEF Approve
<1> SUFFICES ASSUME NEW t \in NeedsApproval
             PROVE  Cardinality(JobsOf(t)) + (IF t \in approved' THEN 1 ELSE 0)
                        <= approvals'[t] + deaths
  BY <1>1 DEF Approved, JobsOf, AttemptsOf
<1>2. /\ Cardinality(JobsOf(t)) + (IF t \in approved THEN 1 ELSE 0) <= approvals[t] + deaths
      /\ Cardinality(JobsOf(t)) \in Nat /\ approvals[t] \in Nat /\ deaths \in Nat /\ t \in Stages
  BY CountTyped DEF AInv, Approved
<1>3. approvals'[t] = IF t = s THEN approvals[t] + 1 ELSE approvals[t]
  BY <1>1, <1>2, TypeFacts DEF AInv
<1> QED BY <1>1, <1>2, <1>3

\* The steps that neither submit nor approve.
LEMMA OtherApproved ==
    ASSUME AInv,
           \/ UNCHANGED jobs /\ Saving
           \/ \E a \in Attempts : JobEnds(a)
           \/ UNCHANGED vars
    PROVE  Approved'
<1>1. CASE UNCHANGED jobs /\ Saving
  BY <1>1, SavingApproved DEF JobsOf, AttemptsOf
<1>2. CASE \E a \in Attempts : JobEnds(a)
  <2>1. PICK a \in Attempts : JobEnds(a)
    BY <1>2
  <2>2. \A b \in Attempts : (jobs'[b] # "none") <=> (jobs[b] # "none")
    BY <2>1, TypeFacts DEF JobEnds, AInv
  <2>3. \A s \in NeedsApproval : JobsOf(s)' = JobsOf(s)
    BY <2>2 DEF JobsOf, AttemptsOf
  <2> QED BY <2>1, <2>3 DEF JobEnds, decisionVars, AInv, Approved
<1>3. CASE UNCHANGED vars
  BY <1>3 DEF vars, AInv, Approved, JobsOf, AttemptsOf
<1> QED BY <1>1, <1>2, <1>3

LEMMA PrepareSaving ==
    ASSUME IInv, Prepare \/ Preflight
    PROVE  Saving /\ UNCHANGED jobs
<1>1. manifest \in ManifestType
  BY TypeFacts
<1>2. \A state \in {"PREPARED", "FAILED"} : [manifest EXCEPT !.state = state] \in ManifestType
  BY <1>1 DEF ManifestType, StageStates
<1>3. Preflighted \in ManifestType
  BY <1>1 DEF Preflighted, ManifestType, StageStates
<1>4. CASE Prepare
  <2>1. PICK state \in {"PREPARED", "FAILED"} : SavedWith([manifest EXCEPT !.state = state], {})
    BY <1>4 DEF Prepare
  <2> QED BY <1>2, <1>4, <2>1, SavedIsSaving DEF Prepare
<1>5. CASE Preflight
  BY <1>2, <1>3, <1>5, SavedIsSaving DEF Preflight
<1> QED BY <1>4, <1>5

LEMMA AInvNext == AInv /\ [Next]_vars => AInv'
<1> SUFFICES ASSUME AInv, [Next]_vars
             PROVE  Approved'
  BY IInvNext DEF AInv
<1>0. IInv
  BY DEF AInv
<1>1. CASE Prepare \/ Preflight
  BY <1>0, <1>1, PrepareSaving, OtherApproved
<1>2. ASSUME NEW s \in Stages, SubmitAsks(s)
      PROVE  Approved'
  BY <1>0, <1>2, AsksSaving, OtherApproved DEF SubmitAsks
<1>3. ASSUME NEW s \in Stages, SubmitRuns(s)
      PROVE  Approved'
  <2>1. PICK id \in AttemptsOf(s) : Outcome(s, id)
    BY <1>0, <1>3, SubmitOutcome
  <2>2. MayRun(s)
    BY <1>3 DEF SubmitRuns
  <2> QED BY <2>1, <2>2, OutcomeApproved
<1>4. CASE (\E seen \in Pulls : Status(seen)) \/ (\E seen \in Collections : Collect(seen))
  <2>1. Saving
    BY <1>0, <1>4, StatusKeeps, CollectKeeps
  <2>2. UNCHANGED jobs
    BY <1>4 DEF Status, Collect
  <2> QED BY <2>1, <2>2, OtherApproved
<1>5. ASSUME NEW found \in Findings, Resume(found)
      PROVE  Approved'
  <2>1. Saving
    BY <1>0, <1>5, ResumeKeeps
  <2>2. UNCHANGED jobs
    BY <1>5 DEF Resume
  <2> QED BY <2>1, <2>2, OtherApproved
<1> QED BY <1>1, <1>2, <1>3, <1>4, <1>5, ApproveApproved, OtherApproved DEF Next, Collections

\* Each job of a stage outside the budget was approved on its own; an approval serves for a
\* second job only when the process died between the submission and the save
\* (resources.py decide, approvals.py valid_receipt).
THEOREM JobsAreApproved == Spec => []EachJobApproved
<1>1. StagesAssumption /\ Init => AInv
  <2> SUFFICES ASSUME StagesAssumption, Init
               PROVE  Approved
    BY IInvInit DEF AInv
  <2>1. \A s \in NeedsApproval : JobsOf(s) = {} /\ s \in Stages
    BY AttemptFacts DEF Init, JobsOf, StagesAssumption
  <2>2. Cardinality({}) = 0
    BY FS_EmptySet
  <2>3. approved = {} /\ deaths = 0 /\ \A s \in Stages : approvals[s] = 0
    BY DEF Init
  <2>4. \A s \in NeedsApproval : Cardinality(JobsOf(s)) = 0
    BY <2>1, <2>2
  <2> QED BY <2>1, <2>3, <2>4 DEF Approved
<1>2. AInv => EachJobApproved
  <2> SUFFICES ASSUME AInv, NEW s \in NeedsApproval
               PROVE  Cardinality(JobsOf(s)) <= approvals[s] + deaths
    BY DEF EachJobApproved, JobsOf
  <2>1. /\ Cardinality(JobsOf(s)) \in Nat /\ approvals[s] \in Nat /\ deaths \in Nat
        /\ Cardinality(JobsOf(s)) + (IF s \in approved THEN 1 ELSE 0) <= approvals[s] + deaths
    BY CountTyped DEF AInv, Approved
  <2> QED BY <2>1
<1> QED BY <1>1, <1>2, AInvNext, StagesAssumption, PTL DEF Spec
=============================================================================
