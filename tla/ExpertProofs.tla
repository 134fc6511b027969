----------------------------- MODULE ExpertProofs -----------------------------
(***************************************************************************)
(* Theorems about ExpertEvolution for every number of episodes, reviews,     *)
(* evaluations, concurrent commands and deaths: the manifest agrees with the *)
(* records, each episode revises its own parent, a review has one usable     *)
(* compilation, and neither a cancel nor an evaluator touches the work of a  *)
(* process it did not look at.                                               *)
(***************************************************************************)
EXTENDS ExpertEvolution, FiniteSetTheorems, SequenceTheorems, TLAPS

-----------------------------------------------------------------------------
(* Facts about the operators.                                               *)

LEMMA LastOfTyped ==
    ASSUME NEW S, NEW s \in Seq(S)
    PROVE  LastOf(s) \in S \cup {None}
<1>1. CASE s = <<>>
  BY <1>1 DEF LastOf
<1>2. CASE s # <<>>
  <2>1. Len(s) \in 1..Len(s)
    BY <1>2, EmptySeq, LenProperties
  <2> QED BY <1>2, <2>1, ElementOfSeq DEF LastOf
<1> QED BY <1>1, <1>2

LEMMA LastOfAppended ==
    ASSUME NEW S, NEW s \in Seq(S), NEW x \in S
    PROVE  Append(s, x) \in Seq(S) /\ LastOf(Append(s, x)) = x
BY AppendProperties, EmptySeq, LenProperties DEF LastOf

\* A set in which any two elements are the same has at most one, and has one
\* exactly when it is not empty.
LEMMA AtMostOneElement ==
    ASSUME NEW S, \A c, d \in S : c = d
    PROVE  Cardinality(S) \in 0..1 /\ (Cardinality(S) = 1 <=> S # {})
<1>1. CASE S = {}
  BY <1>1, FS_EmptySet
<1>2. CASE S # {}
  <2>1. PICK x : x \in S
    BY <1>2
  <2>2. S = {x}
    BY <2>1
  <2> QED BY <1>2, <2>2, FS_Singleton
<1> QED BY <1>1, <1>2

-----------------------------------------------------------------------------
(* The inductive invariant.                                                 *)

Typed == TypeOK /\ IsFiniteSet(compilations)

Paused == (task.resume # None) <=> task.status \in {"BLOCKED", "STOPPED", "ACCEPTED"}

\* The records below, at and above the current version.
Records ==
    /\ \A v \in Versions :
           /\ v < task.cur => StatusIs(v, {"COMPLETED", "FAILED"})
           /\ v = task.cur => StatusIs(v, IF task.status = "RUNNING"
                                          THEN Active \cup {"COMPLETED", "FAILED"}
                                          ELSE {"COMPLETED", "FAILED"})
           /\ v > task.cur => episodes[v] = None \/ (v = task.cur + 1
                                                     /\ StatusIs(v, {"RESERVED"}))
           /\ v > task.last /\ StatusIs(v, {"COMPLETED"}) =>
                  v = task.cur /\ task.status = "RUNNING"
    /\ task.last # 0 => StatusIs(task.last, {"COMPLETED"})
    /\ task.status = "RUNNING" => task.cur # 0 /\ task.last # task.cur

OneUsable == \A c, d \in compilations : c.usable /\ d.usable /\ c.review = d.review => c = d

\* What ConfirmedContext says when a review has at most one usable compilation.
Confirmed ==
    /\ LastOf(task.feedback) = task.last
    /\ \E c \in compilations : c.review = task.last /\ c.usable /\ c.id \in task.compiled
    /\ LastOf(task.plans) # None
    /\ LastOf(task.plans).source = task.last
    /\ LastOf(task.plans) \in strategies

\* What holds where the task stands; a running task with a completed version will
\* stand at its revision again if the episode fails.
Standing ==
    /\ Stands = "CREATED" => task.last = 0
    /\ Stands \in {"AWAITING", "FEEDBACK_RECORDED"} => task.last = task.cur /\ task.cur # 0
    /\ Stands \in {"FEEDBACK_RECORDED", "REVISION_READY"} => LastOf(task.feedback) = task.last
    /\ Stands = "REVISION_READY" \/ (task.status = "RUNNING" /\ task.last # 0) => Confirmed

Reviewed == \A i \in DOMAIN task.feedback : task.feedback[i] \in reviews

\* The evaluator at work is the one that holds the lease.
Leased == \A e \in Evaluators : evaluators[e] = "active" <=> lease = e

IInv == /\ BoundsAssumption
        /\ Typed /\ Paused /\ Records /\ OneUsable /\ Standing /\ Reviewed /\ Leased

LEMMA ConfirmedMeans == Typed /\ OneUsable => (ConfirmedContext <=> Confirmed)
<1> SUFFICES ASSUME Typed, OneUsable
             PROVE  ConfirmedContext <=> Confirmed
  OBVIOUS
<1> DEFINE S == {c \in Usable(task.last) : c.id \in task.compiled}
<1>1. \A c, d \in S : c = d
  BY DEF Usable, OneUsable
<1>2. Cardinality(S) = 1 <=> S # {}
  BY <1>1, AtMostOneElement
<1>3. S # {} <=> \E c \in compilations : c.review = task.last /\ c.usable /\ c.id \in task.compiled
  BY DEF Usable
<1>4. ConfirmedContext <=>
        /\ LastOf(task.feedback) = task.last /\ Cardinality(S) = 1
        /\ LastOf(task.plans) # None /\ LastOf(task.plans).source = task.last
        /\ LastOf(task.plans) \in strategies
  BY DEF ConfirmedContext
<1> HIDE DEF S
<1> QED BY <1>2, <1>3, <1>4 DEF Confirmed

LEMMA IInvInit == BoundsAssumption /\ Init => IInv
<1> SUFFICES ASSUME BoundsAssumption, Init
             PROVE  IInv
  OBVIOUS
<1>1. task \in Manifests
  BY DEF Init, Manifests, Statuses, Checkpoints, BoundsAssumption
<1>2. IsFiniteSet(compilations)
  BY FS_EmptySet DEF Init
<1>3. Typed
  BY <1>1, <1>2 DEF Init, Typed, TypeOK, BoundsAssumption
<1>4. Paused /\ Records
  BY DEF Init, Paused, Records, StatusIs, Versions, BoundsAssumption
<1>5. OneUsable /\ Standing
  BY DEF Init, OneUsable, Standing, Stands, BoundsAssumption
<1>6. Reviewed /\ Leased
  BY DEF Init, Reviewed, Leased, Evaluators, BoundsAssumption
<1> QED BY <1>3, <1>4, <1>5, <1>6 DEF IInv

\* What the actions need to know of the manifest.
LEMMA ManifestFacts ==
    ASSUME IInv
    PROVE  /\ MaxEpisodes \in Nat /\ MaxEvaluations \in Nat /\ None \notin Nat
           /\ task.status \in Statuses /\ task.resume \in Checkpoints \cup {None}
           /\ task.cur \in 0..MaxEpisodes /\ task.last \in 0..MaxEpisodes
           /\ task.feedback \in Seq(Versions) /\ task.plans \in Seq(Plans)
           /\ task.compiled \in SUBSET (1..MaxCompilations)
           /\ task.evals \in 0..MaxEvaluations
           /\ LastOf(task.feedback) \in Versions \cup {None}
           /\ LastOf(task.plans) \in Plans \cup {None}
           /\ RetryCheckpoint \in {"CREATED", "REVISION_READY"}
           /\ task.resume = None => task.status \notin {"BLOCKED", "STOPPED", "ACCEPTED"}
           /\ task.resume # None => task.status \in {"BLOCKED", "STOPPED", "ACCEPTED"}
<1>1. task \in Manifests /\ BoundsAssumption /\ Paused
  BY DEF IInv, Typed, TypeOK
<1>2. task.feedback \in Seq(Versions) /\ task.plans \in Seq(Plans)
  BY <1>1 DEF Manifests
<1>3. LastOf(task.feedback) \in Versions \cup {None} /\ LastOf(task.plans) \in Plans \cup {None}
  BY <1>2, LastOfTyped
<1> QED BY <1>1, <1>2, <1>3 DEF Manifests, BoundsAssumption, RetryCheckpoint, Paused

\* A running task has a current version above the last completed one.
LEMMA RunningFacts ==
    ASSUME IInv, task.status = "RUNNING"
    PROVE  /\ task.cur \in Versions /\ task.last < task.cur
           /\ episodes[task.cur] \in EpisodeRecords
           /\ task.resume = None
           /\ task.last # 0 => Confirmed
<1>1. task.cur \in Versions
  BY ManifestFacts DEF IInv, Records, Versions
<1>2. episodes[task.cur] \in EpisodeRecords
  BY <1>1 DEF IInv, Records, Typed, TypeOK, StatusIs
<1>3. task.last < task.cur
  <2>1. task.last # task.cur
    BY DEF IInv, Records
  <2>2. CASE task.last > task.cur
    <3>1. task.last \in Versions
      BY <2>2, ManifestFacts DEF Versions
    <3>2. episodes[task.last] # None /\ episodes[task.last].status = "COMPLETED"
      BY <2>2, ManifestFacts DEF IInv, Records, StatusIs
    <3>3. episodes[task.last] = None \/ episodes[task.last].status = "RESERVED"
      BY <2>2, <3>1 DEF IInv, Records, StatusIs
    <3> QED BY <3>2, <3>3
  <2> QED BY <2>1, <2>2, ManifestFacts
<1> QED BY <1>1, <1>2, <1>3, ManifestFacts DEF IInv, Standing

\* The compilation a save ends with is recorded already, or new.
LEMMA KeptFacts ==
    ASSUME IInv, NEW review \in Versions, NEW usable \in BOOLEAN,
           NEW new, new = [id |-> Cardinality(compilations) + 1, review |-> review,
                           usable |-> usable]
    PROVE  /\ Kept(new).id \in Nat \ {0} /\ Kept(new).review = review
           /\ Kept(new).usable \in BOOLEAN
           /\ Kept(new) = [id |-> Kept(new).id, review |-> Kept(new).review,
                           usable |-> Kept(new).usable]
           /\ \/ Kept(new) \in compilations
              \/ Kept(new) = new /\ Usable(review) = {}
<1>1. Cardinality(compilations) \in Nat
  BY FS_CardinalityType DEF IInv, Typed
<1>2. CASE Usable(review) = {}
  BY <1>1, <1>2 DEF Kept
<1>3. CASE Usable(review) # {}
  <2>1. Kept(new) \in Usable(review)
    BY <1>3 DEF Kept
  <2>2. Kept(new) \in compilations /\ Kept(new).review = review
    BY <2>1 DEF Usable
  <2>3. Kept(new) \in [id : 1..MaxCompilations, review : Versions, usable : BOOLEAN]
    BY <2>2 DEF IInv, Typed, TypeOK
  <2> QED BY <2>2, <2>3
<1> QED BY <1>2, <1>3

\* Two ways to change one record of a version.
LEMMA BecomesTyped ==
    ASSUME IInv, NEW v \in Versions, episodes[v] # None,
           NEW status \in Active \cup {"COMPLETED", "FAILED"}, Becomes(v, status)
    PROVE  episodes' \in [Versions -> EpisodeRecords \cup {None}]
<1>1. episodes \in [Versions -> EpisodeRecords \cup {None}]
  BY DEF IInv, Typed, TypeOK
<1>2. [episodes[v] EXCEPT !.status = status] \in EpisodeRecords
  BY <1>1 DEF EpisodeRecords
<1> QED BY <1>1, <1>2 DEF Becomes

LEMMA EndsTyped ==
    ASSUME IInv, task.status = "RUNNING"
    PROVE  AfterCompletion(task.cur) \in Manifests /\ AfterFailure \in Manifests
<1>1. task \in Manifests
  BY DEF IInv, Typed, TypeOK
<1>2. RetryCheckpoint \in Checkpoints
  BY ManifestFacts DEF Checkpoints
<1> QED BY <1>1, <1>2 DEF AfterCompletion, AfterFailure, Manifests, Statuses, Checkpoints

\* The records of the current episode while the task runs.
EpisodeTypes ==
    /\ task' \in Manifests
    /\ episodes' \in [Versions -> EpisodeRecords \cup {None}]
    /\ owners' \subseteq Versions
    /\ looked' \in 0..MaxEpisodes /\ deaths' \in 0..MaxDeaths

LEMMA EpisodesTyped ==
    ASSUME IInv,
           \/ ReserveEpisode \/ Reconcile \/ CancelLook \/ Cancel \/ CancelRefused
           \/ \E v \in Versions : OwnerStep(v) \/ OwnerDies(v)
    PROVE  EpisodeTypes
<1>0. /\ task \in Manifests /\ episodes \in [Versions -> EpisodeRecords \cup {None}]
      /\ owners \subseteq Versions /\ looked \in 0..MaxEpisodes /\ deaths \in 0..MaxDeaths
      /\ MaxDeaths \in Nat
  BY DEF IInv, Typed, TypeOK, BoundsAssumption
<1>1. Dies => deaths' \in 0..MaxDeaths /\ task' \in Manifests
  BY <1>0 DEF Dies
<1>2. CASE ReserveEpisode
  <2>1. Reserved(task.cur + 1) \in EpisodeRecords
    <3>1. task.last \in {0} \cup Versions /\ LastOf(task.feedback) \in {None} \cup Versions
          /\ LastOf(task.plans) \in {None} \cup Plans
      BY ManifestFacts DEF Versions
    <3> QED BY <3>1 DEF Reserved, EpisodeRecords, Active
  <2>2. /\ task.cur + 1 \in Versions
        /\ episodes' = [episodes EXCEPT ![task.cur + 1] = Reserved(task.cur + 1)]
        /\ UNCHANGED looked
    BY <1>2 DEF ReserveEpisode
  <2>3. \/ Saved([task EXCEPT !.status = "RUNNING", !.resume = None, !.cur = task.cur + 1])
              /\ owners' = owners \cup {task.cur + 1}
        \/ Dies /\ UNCHANGED owners
    BY <1>2 DEF ReserveEpisode
  <2>4. [task EXCEPT !.status = "RUNNING", !.resume = None, !.cur = task.cur + 1] \in Manifests
    <3>1. task.cur + 1 \in 0..MaxEpisodes
      BY <2>2, ManifestFacts DEF Versions
    <3> QED BY <1>0, <3>1 DEF Manifests, Statuses
  <2> HIDE DEF Reserved
  <2> QED BY <1>0, <1>1, <2>1, <2>2, <2>3, <2>4 DEF Saved, EpisodeTypes
<1>3. CASE Reconcile
  BY <1>0, <1>3, EndsTyped DEF Reconcile, EpisodeTypes, mainVars
<1>4. CASE CancelLook \/ CancelRefused
  BY <1>0, <1>4, ManifestFacts DEF CancelLook, CancelRefused, EpisodeTypes, mainVars
<1>5. CASE Cancel
  <2>1. task.status = "RUNNING" /\ looked' = 0 /\ UNCHANGED owners
    BY <1>5 DEF Cancel
  <2>2. task.cur \in Versions /\ episodes[task.cur] # None
    BY <2>1, RunningFacts DEF IInv, BoundsAssumption
  <2>3. \/ Saved(AfterCompletion(task.cur)) /\ UNCHANGED episodes
        \/ Becomes(task.cur, "FAILED") /\ (Saved(AfterFailure) \/ Dies)
    BY <1>5 DEF Cancel
  <2>4. episodes' \in [Versions -> EpisodeRecords \cup {None}]
    BY <1>0, <2>2, <2>3, BecomesTyped
  <2>5. 0 \in 0..MaxEpisodes
    BY ManifestFacts
  <2> QED BY <1>0, <1>1, <2>1, <2>3, <2>4, <2>5, EndsTyped DEF Saved, EpisodeTypes
<1>6. ASSUME NEW v \in Versions, MarkRunning(v) \/ CompleteEpisode(v) \/ FailEpisode(v)
      PROVE  EpisodeTypes
  <2>1. task.cur = v /\ task.status = "RUNNING" /\ UNCHANGED looked /\ owners' \subseteq owners
    BY <1>6 DEF MarkRunning, CompleteEpisode, FailEpisode
  <2>2. episodes[v] # None
    BY <2>1, RunningFacts DEF IInv, BoundsAssumption
  <2>3. PICK status \in Active \cup {"COMPLETED", "FAILED"} : Becomes(v, status)
    BY <1>6 DEF MarkRunning, CompleteEpisode, FailEpisode, Active
  <2>4. episodes' \in [Versions -> EpisodeRecords \cup {None}]
    BY <2>2, <2>3, BecomesTyped
  <2>5. \/ UNCHANGED <<task, deaths>> \/ Saved(AfterCompletion(v)) \/ Saved(AfterFailure) \/ Dies
    BY <1>6 DEF MarkRunning, CompleteEpisode, FailEpisode
  <2> QED BY <1>0, <1>1, <2>1, <2>4, <2>5, EndsTyped DEF Saved, EpisodeTypes
<1>7. ASSUME NEW v \in Versions, OwnerRefused(v) \/ OwnerDies(v)
      PROVE  EpisodeTypes
  BY <1>0, <1>1, <1>7 DEF OwnerRefused, OwnerDies, EpisodeTypes
<1> QED BY <1>2, <1>3, <1>4, <1>5, <1>6, <1>7 DEF OwnerStep

\* A review and a compilation need a version that is there to be reviewed.
LEMMA ReviewFacts ==
    ASSUME IInv
    PROVE  /\ task.status = "AWAITING" => task.cur \in Versions /\ task.last = task.cur
           /\ task.status \in {"FEEDBACK_RECORDED", "REVISION_READY"} =>
                  LastOf(task.feedback) = task.last /\ task.last \in Versions
           /\ CompilationContext => task.last \in Versions
<1>1. task.status \in {"AWAITING", "FEEDBACK_RECORDED", "REVISION_READY"} => Stands = task.status
  BY ManifestFacts DEF Stands
<1>2. task.status = "AWAITING" => task.cur # 0 /\ task.last = task.cur
  BY <1>1 DEF IInv, Standing
<1>3. task.status \in {"FEEDBACK_RECORDED", "REVISION_READY"} => LastOf(task.feedback) = task.last
  BY <1>1 DEF IInv, Standing
<1>4. LastOf(task.feedback) = task.last => task.last \in Versions
  BY ManifestFacts
<1> QED BY <1>2, <1>3, <1>4, ManifestFacts DEF Versions, CompilationContext

ReviewTypes ==
    /\ task' \in Manifests /\ deaths' \in 0..MaxDeaths
    /\ reviews' \subseteq Versions /\ strategies' \subseteq Plans
    /\ compilations' \subseteq [id : 1..MaxCompilations, review : Versions, usable : BOOLEAN]
    /\ IsFiniteSet(compilations)'
    /\ compiling' \in [Versions -> 0..MaxCompiling]

LEMMA ReviewsTyped ==
    ASSUME IInv, Review
    PROVE  ReviewTypes
<1>0. /\ task \in Manifests /\ deaths \in 0..MaxDeaths /\ MaxDeaths \in Nat
      /\ reviews \subseteq Versions /\ strategies \subseteq Plans
      /\ compilations \subseteq [id : 1..MaxCompilations, review : Versions, usable : BOOLEAN]
      /\ IsFiniteSet(compilations) /\ compiling \in [Versions -> 0..MaxCompiling]
      /\ MaxCompilations \in Nat /\ MaxCompiling \in Nat
  BY DEF IInv, Typed, TypeOK, BoundsAssumption
<1>1. Dies => deaths' \in 0..MaxDeaths /\ task' \in Manifests
  BY <1>0 DEF Dies
<1>2. CASE AttachFeedback
  <2>1. task.cur \in Versions
    BY <1>2, ReviewFacts DEF AttachFeedback
  <2>2. Append(task.feedback, task.cur) \in Seq(Versions)
    BY <2>1, ManifestFacts, LastOfAppended
  <2>3. [task EXCEPT !.status = "FEEDBACK_RECORDED", !.feedback = Append(task.feedback, task.cur)]
            \in Manifests
    BY <1>0, <2>2 DEF Manifests, Statuses, Checkpoints
  <2>4. \/ Saved([task EXCEPT !.status = "FEEDBACK_RECORDED",
                              !.feedback = Append(task.feedback, task.cur)])
        \/ Dies
    BY <1>2 DEF AttachFeedback
  <2> QED BY <1>0, <1>1, <1>2, <2>1, <2>3, <2>4 DEF AttachFeedback, Saved, ReviewTypes
<1>3. CASE CompileStart
  <2>1. UNCHANGED <<task, deaths, reviews, compilations, strategies>>
    BY <1>3 DEF CompileStart
  <2>2. compiling' = [compiling EXCEPT ![task.last] = @ + 1] /\ compiling[task.last] < MaxCompiling
        /\ task.last \in Versions
    BY <1>3, ReviewFacts DEF CompileStart
  <2>3. compiling' \in [Versions -> 0..MaxCompiling]
    BY <1>0, <2>2
  <2> QED BY <1>0, <2>1, <2>3 DEF ReviewTypes
<1>4. ASSUME NEW id \in 1..MaxCompilations
      PROVE  Linked(id) \in Manifests
  BY <1>0 DEF Linked, Manifests
<1>5. CASE CompileAgain
  <2>1. PICK found \in Usable(task.last) : Saved(Linked(found.id))
    BY <1>5 DEF CompileAgain
  <2>2. found.id \in 1..MaxCompilations
    BY <1>0, <2>1 DEF Usable
  <2> QED BY <1>0, <1>4, <1>5, <2>1, <2>2 DEF CompileAgain, reviewVars, Saved, ReviewTypes
<1>6. CASE ConfirmRevision
  <2>1. PICK known \in 0..MaxObservations :
           /\ CompilationContext
           /\ strategies' = strategies \cup {[source |-> task.last, seen |-> known]}
           /\ \/ Saved([task EXCEPT !.status = "REVISION_READY",
                                    !.plans = Append(@, [source |-> task.last, seen |-> known])])
              \/ Dies
    BY <1>6 DEF ConfirmRevision
  <2> DEFINE plan == [source |-> task.last, seen |-> known]
  <2>2. plan \in Plans
    BY <2>1, ReviewFacts DEF Plans
  <2>3. Append(task.plans, plan) \in Seq(Plans)
    BY <2>2, ManifestFacts, LastOfAppended
  <2>4. [task EXCEPT !.status = "REVISION_READY", !.plans = Append(task.plans, plan)] \in Manifests
    BY <1>0, <2>3 DEF Manifests, Statuses, Checkpoints
  <2>5. \/ Saved([task EXCEPT !.status = "REVISION_READY", !.plans = Append(task.plans, plan)])
        \/ Dies
    BY <2>1
  <2> HIDE DEF plan
  <2>6. task' \in Manifests /\ deaths' \in 0..MaxDeaths
    BY <1>0, <1>1, <2>4, <2>5 DEF Saved
  <2>7. UNCHANGED <<reviews, compilations, compiling>>
    BY <1>6 DEF ConfirmRevision
  <2>8. strategies' \subseteq Plans
    BY <1>0, <2>1, <2>2 DEF plan
  <2> QED BY <1>0, <2>6, <2>7, <2>8 DEF ReviewTypes
<1>7. ASSUME NEW v \in Versions, CompileEnds(v)
      PROVE  compiling' \in [Versions -> 0..MaxCompiling]
  BY <1>0, <1>7 DEF CompileEnds
<1>8. ASSUME NEW v \in Versions, CompileAbandoned(v)
      PROVE  ReviewTypes
  BY <1>0, <1>1, <1>7, <1>8 DEF CompileAbandoned, ReviewTypes
<1>9. ASSUME NEW v \in Versions, NEW usable \in BOOLEAN, SaveCompilation(v, usable)
      PROVE  ReviewTypes
  <2> DEFINE new == [id |-> Cardinality(compilations) + 1, review |-> v, usable |-> usable]
             kept == Kept(new)
  <2>1. /\ CompileEnds(v) /\ kept.id <= MaxCompilations
        /\ compilations' = compilations \cup {kept}
        /\ Saved(Linked(kept.id)) \/ Dies
        /\ UNCHANGED <<reviews, strategies>>
    BY <1>9 DEF SaveCompilation
  <2>2. /\ kept.id \in Nat \ {0} /\ kept.review = v /\ kept.usable \in BOOLEAN
        /\ kept = [id |-> kept.id, review |-> kept.review, usable |-> kept.usable]
    BY KeptFacts
  <2> HIDE DEF kept
  <2>3. kept.id \in 1..MaxCompilations
    BY <1>0, <2>1, <2>2
  <2>4. kept \in [id : 1..MaxCompilations, review : Versions, usable : BOOLEAN]
    BY <2>2, <2>3
  <2>5. IsFiniteSet(compilations)'
    BY <1>0, <2>1, FS_AddElement
  <2>6. task' \in Manifests /\ deaths' \in 0..MaxDeaths
    BY <1>0, <1>1, <1>4, <2>1, <2>3 DEF Saved
  <2>7. compiling' \in [Versions -> 0..MaxCompiling]
    BY <1>7, <2>1
  <2> QED BY <1>0, <2>1, <2>4, <2>5, <2>6, <2>7 DEF ReviewTypes
<1> QED BY <1>2, <1>3, <1>5, <1>6, <1>8, <1>9 DEF Review

\* An evaluation that is claimed: the manifest, the record and the evaluator.
EvaluationTypes ==
    /\ task' \in Manifests /\ deaths' \in 0..MaxDeaths
    /\ evaluations' \in [1..MaxEvaluations -> EvaluationRecords \cup {None}]
    /\ evaluators' \in [Evaluators -> {"new", "active", "gone"}]
    /\ lease' \in Evaluators \cup {None}

LEMMA LeavesTyped ==
    ASSUME IInv, NEW e \in Evaluators, Leaves(e)
    PROVE  /\ evaluators' \in [Evaluators -> {"new", "active", "gone"}]
           /\ lease' \in Evaluators \cup {None}
BY DEF IInv, Typed, TypeOK, Leaves

LEMMA OneEvaluationTyped ==
    ASSUME IInv, NEW n \in 1..MaxEvaluations, evaluations[n] # None
    PROVE  /\ evaluations[n] \in EvaluationRecords
           /\ \A e \in Evaluators :
                 [evaluations EXCEPT ![n].owner = e]
                     \in [1..MaxEvaluations -> EvaluationRecords \cup {None}]
           /\ \A status \in Active \cup {"COMPLETED", "FAILED"} :
                 [evaluations EXCEPT ![n].status = status]
                     \in [1..MaxEvaluations -> EvaluationRecords \cup {None}]
<1>1. evaluations \in [1..MaxEvaluations -> EvaluationRecords \cup {None}]
  BY DEF IInv, Typed, TypeOK
<1>2. evaluations[n] \in EvaluationRecords
  BY <1>1
<1>3. ASSUME NEW e \in Evaluators
      PROVE  [evaluations[n] EXCEPT !.owner = e] \in EvaluationRecords
  BY <1>2 DEF EvaluationRecords
<1>4. ASSUME NEW status \in Active \cup {"COMPLETED", "FAILED"}
      PROVE  [evaluations[n] EXCEPT !.status = status] \in EvaluationRecords
  BY <1>2 DEF EvaluationRecords
<1> QED BY <1>1, <1>2, <1>3, <1>4

\* Where an evaluation is claimed: on the current record, the next one, or a new one.
LEMMA ClaimFacts ==
    ASSUME IInv, NEW e \in Evaluators, NEW plan \in Plans, ClaimEvaluation(e, plan)
    PROVE  /\ lease = None /\ evaluators[e] = "new"
           /\ UNCHANGED <<mainVars, reviewVars, looked>>
           /\ NewEvaluation(e, plan) \in EvaluationRecords
           /\ \/ \E n \in 1..MaxEvaluations : evaluations[n] # None /\ TakeOver(n, e, plan)
              \/ ReserveNext(e, plan)
<1>1. /\ lease = None /\ evaluators[e] = "new" /\ task.status = "REVISION_READY"
      /\ UNCHANGED <<mainVars, reviewVars, looked>>
  BY DEF ClaimEvaluation, LeaseFree
<1>2. NewEvaluation(e, plan) \in EvaluationRecords
  BY <1>1, ReviewFacts DEF NewEvaluation, EvaluationRecords, Active
<1>3. CASE Current # None /\ TakeOver(task.evals, e, plan)
  <2>1. task.evals \in 1..MaxEvaluations /\ evaluations[task.evals] # None
    BY <1>3, ManifestFacts DEF Current
  <2> QED BY <1>1, <1>2, <1>3, <2>1
<1>4. CASE /\ task.evals < MaxEvaluations /\ evaluations[task.evals + 1] # None
           /\ TakeOver(task.evals + 1, e, plan)
  <2>1. task.evals + 1 \in 1..MaxEvaluations
    BY <1>4, ManifestFacts
  <2> QED BY <1>1, <1>2, <1>4, <2>1
<1> QED BY <1>1, <1>2, <1>3, <1>4 DEF ClaimEvaluation

\* What the next evaluation finds of an earlier one: left as it is, or failed if running.
FailedBefore ==
    IF Current # None /\ Current.status = "RUNNING"
    THEN [evaluations EXCEPT ![task.evals].status = "FAILED"] ELSE evaluations

LEMMA ReserveFacts ==
    ASSUME IInv, NEW e \in Evaluators, NEW plan \in Plans, ReserveNext(e, plan),
           NewEvaluation(e, plan) \in EvaluationRecords
    PROVE  /\ FailedBefore \in [1..MaxEvaluations -> EvaluationRecords \cup {None}]
           /\ task.evals + 1 \in 1..MaxEvaluations /\ evaluations[task.evals + 1] = None
           /\ \/ /\ evaluations' = [FailedBefore EXCEPT ![task.evals + 1] = NewEvaluation(e, plan)]
                 /\ \/ /\ Saved([task EXCEPT !.evals = task.evals + 1])
                       /\ evaluators' = [evaluators EXCEPT ![e] = "active"] /\ lease' = e
                    \/ Dies /\ Leaves(e)
              \/ evaluations' = FailedBefore /\ Dies /\ Leaves(e)
<1>1. FailedBefore \in [1..MaxEvaluations -> EvaluationRecords \cup {None}]
  <2>1. CASE Current # None /\ Current.status = "RUNNING"
    <3>1. task.evals \in 1..MaxEvaluations /\ evaluations[task.evals] # None
      BY <2>1, ManifestFacts DEF Current
    <3> QED BY <2>1, <3>1, OneEvaluationTyped DEF FailedBefore, Active
  <2>2. CASE ~(Current # None /\ Current.status = "RUNNING")
    BY <2>2 DEF FailedBefore, IInv, Typed, TypeOK
  <2> QED BY <2>1, <2>2
<1>2. task.evals + 1 \in 1..MaxEvaluations /\ evaluations[task.evals + 1] = None
  BY ManifestFacts DEF ReserveNext
<1> QED BY <1>1, <1>2 DEF ReserveNext, FailedBefore

LEMMA EvaluationsTyped ==
    ASSUME IInv, Evaluation
    PROVE  EvaluationTypes
<1>0. /\ task \in Manifests /\ deaths \in 0..MaxDeaths /\ MaxDeaths \in Nat
      /\ evaluations \in [1..MaxEvaluations -> EvaluationRecords \cup {None}]
      /\ evaluators \in [Evaluators -> {"new", "active", "gone"}]
      /\ lease \in Evaluators \cup {None}
  BY DEF IInv, Typed, TypeOK, BoundsAssumption
<1>1. Dies => deaths' \in 0..MaxDeaths /\ task' \in Manifests
  BY <1>0 DEF Dies
<1>2. ASSUME NEW n \in 1..MaxEvaluations
      PROVE  Saved([task EXCEPT !.evals = n]) => task' \in Manifests /\ deaths' \in 0..MaxDeaths
  <2>1. n \in 0..MaxEvaluations
    OBVIOUS
  <2>2. [task EXCEPT !.evals = n] \in Manifests
    BY <1>0, <2>1 DEF Manifests
  <2> QED BY <1>0, <2>2 DEF Saved
<1>3. ASSUME NEW e \in Evaluators, evaluators' = [evaluators EXCEPT ![e] = "active"], lease' = e
      PROVE  /\ evaluators' \in [Evaluators -> {"new", "active", "gone"}]
             /\ lease' \in Evaluators \cup {None}
  BY <1>0, <1>3
<1>4. ASSUME NEW e \in Evaluators, NEW plan \in Plans, ClaimEvaluation(e, plan)
      PROVE  EvaluationTypes
  <2>1. ASSUME NEW n \in 1..MaxEvaluations, evaluations[n] # None, TakeOver(n, e, plan)
        PROVE  EvaluationTypes
    <3>1. evaluations' \in [1..MaxEvaluations -> EvaluationRecords \cup {None}]
      BY <2>1, OneEvaluationTyped DEF TakeOver
    <3>2. \/ /\ Saved([task EXCEPT !.evals = n])
             /\ evaluators' = [evaluators EXCEPT ![e] = "active"] /\ lease' = e
          \/ UNCHANGED <<task, deaths>> /\ Leaves(e)
          \/ Dies /\ Leaves(e)
      BY <2>1 DEF TakeOver
    <3> QED BY <1>0, <1>1, <1>2, <1>3, <3>1, <3>2, LeavesTyped DEF EvaluationTypes
  <2>2. CASE ReserveNext(e, plan)
    <3>0. NewEvaluation(e, plan) \in EvaluationRecords
      BY <1>4, ClaimFacts
    <3>1. evaluations' \in [1..MaxEvaluations -> EvaluationRecords \cup {None}]
      <4>1. /\ FailedBefore \in [1..MaxEvaluations -> EvaluationRecords \cup {None}]
            /\ \/ evaluations' = [FailedBefore EXCEPT ![task.evals + 1] = NewEvaluation(e, plan)]
               \/ evaluations' = FailedBefore
        BY <2>2, <3>0, ReserveFacts
      <4> QED BY <3>0, <4>1
    <3>2. task.evals + 1 \in 1..MaxEvaluations
      BY <1>4, <2>2, ClaimFacts, ReserveFacts
    <3>3. \/ /\ Saved([task EXCEPT !.evals = task.evals + 1])
             /\ evaluators' = [evaluators EXCEPT ![e] = "active"] /\ lease' = e
          \/ Dies /\ Leaves(e)
      BY <1>4, <2>2, ClaimFacts, ReserveFacts
    <3> QED BY <1>1, <1>2, <1>3, <3>1, <3>2, <3>3, LeavesTyped DEF EvaluationTypes
  <2> QED BY <1>4, <2>1, <2>2, ClaimFacts
<1>5. ASSUME NEW e \in Evaluators, NEW n \in 1..MaxEvaluations,
             MarkEvaluationRunning(e, n) \/ CompleteEvaluation(e, n) \/ FailEvaluation(e, n)
      PROVE  EvaluationTypes
  <2>1. UNCHANGED <<task, deaths>> /\ evaluations[n] # None
    BY <1>5 DEF MarkEvaluationRunning, CompleteEvaluation, FailEvaluation, EvaluationEnds
  <2>2. UNCHANGED <<evaluators, lease>> \/ Leaves(e)
    BY <1>5 DEF MarkEvaluationRunning, CompleteEvaluation, FailEvaluation
  <2>3. PICK status \in Active \cup {"COMPLETED", "FAILED"} :
            evaluations' = [evaluations EXCEPT ![n].status = status]
    BY <1>5 DEF MarkEvaluationRunning, CompleteEvaluation, FailEvaluation, EvaluationEnds, Active
  <2>4. evaluations' \in [1..MaxEvaluations -> EvaluationRecords \cup {None}]
    BY <2>1, <2>3, OneEvaluationTyped
  <2> QED BY <1>0, <2>1, <2>2, <2>4, LeavesTyped DEF EvaluationTypes
<1>6. ASSUME NEW e \in Evaluators, EvaluatorDies(e)
      PROVE  EvaluationTypes
  BY <1>0, <1>1, <1>6, LeavesTyped DEF EvaluatorDies, EvaluationTypes
<1> QED BY <1>4, <1>5, <1>6 DEF Evaluation

LEMMA TypedStep == IInv /\ [Next]_vars => Typed'
<1> SUFFICES ASSUME IInv, [Next]_vars
             PROVE  Typed'
  OBVIOUS
<1>0. Typed
  BY DEF IInv
<1>1. CASE \/ ReserveEpisode \/ Reconcile \/ CancelLook \/ Cancel \/ CancelRefused
           \/ \E v \in Versions : OwnerStep(v) \/ OwnerDies(v)
  <2>1. EpisodeTypes
    BY <1>1, EpisodesTyped
  <2>2. UNCHANGED <<reviewVars, evalVars>>
    BY <1>1 DEF ReserveEpisode, Reconcile, CancelLook, Cancel, CancelRefused, OwnerStep,
                OwnerDies, MarkRunning, CompleteEpisode, FailEpisode, OwnerRefused
  <2> QED BY <1>0, <2>1, <2>2 DEF Typed, TypeOK, EpisodeTypes, reviewVars, evalVars
<1>2. CASE Review
  <2>1. ReviewTypes
    BY <1>2, ReviewsTyped
  <2>2. UNCHANGED <<mainVars, looked, evalVars>>
    <3>1. CASE AttachFeedback \/ CompileStart \/ CompileAgain
      BY <3>1 DEF AttachFeedback, CompileStart, CompileAgain
    <3>2. CASE ConfirmRevision
      BY <3>2 DEF ConfirmRevision
    <3>3. ASSUME NEW v \in Versions, CompileAbandoned(v)
          PROVE  UNCHANGED <<mainVars, looked, evalVars>>
      BY <3>3 DEF CompileAbandoned
    <3>4. ASSUME NEW v \in Versions, NEW usable \in BOOLEAN, SaveCompilation(v, usable)
          PROVE  UNCHANGED <<mainVars, looked, evalVars>>
      BY <3>4 DEF SaveCompilation
    <3> QED BY <1>2, <3>1, <3>2, <3>3, <3>4 DEF Review
  <2> QED BY <1>0, <2>1, <2>2 DEF Typed, TypeOK, ReviewTypes, mainVars, evalVars
<1>3. CASE Stop \/ Reopen \/ \E v \in Versions : Accept(v)
  <2>1. UNCHANGED <<mainVars, reviewVars, looked, evalVars, deaths>>
    BY <1>3 DEF Stop, Reopen, Accept
  <2>2. task' \in Manifests
    <3>1. task \in Manifests
      BY <1>0 DEF Typed, TypeOK
    <3>2. CASE Stop
      <4>1. PauseCheckpoint \in Checkpoints
        BY <3>2, ManifestFacts DEF Stop, Allowed, PauseCheckpoint, Checkpoints
      <4> QED BY <3>1, <3>2, <4>1 DEF Stop, Manifests, Statuses
    <3>3. CASE Reopen
      <4>1. task.resume \in Checkpoints
        BY <3>3, ManifestFacts DEF Reopen
      <4> QED BY <3>1, <3>3, <4>1 DEF Reopen, Reopened, Manifests, Statuses
    <3>4. CASE \E v \in Versions : Accept(v)
      BY <3>1, <3>4 DEF Accept, Manifests, Statuses, Checkpoints
    <3> QED BY <1>3, <3>2, <3>3, <3>4
  <2> QED BY <1>0, <2>1, <2>2 DEF Typed, TypeOK, mainVars, reviewVars, evalVars
<1>4. CASE Evaluation
  <2>1. EvaluationTypes
    BY <1>4, EvaluationsTyped
  <2>2. UNCHANGED <<mainVars, reviewVars, looked>>
    BY <1>4 DEF Evaluation, ClaimEvaluation, MarkEvaluationRunning, CompleteEvaluation,
                FailEvaluation, EvaluationEnds, EvaluatorDies
  <2> QED BY <1>0, <2>1, <2>2 DEF Typed, TypeOK, EvaluationTypes, mainVars, reviewVars
<1>5. CASE UNCHANGED vars
  BY <1>0, <1>5 DEF vars, Typed, TypeOK
<1> QED BY <1>1, <1>2, <1>3, <1>4, <1>5 DEF Next

-----------------------------------------------------------------------------
(* The compilations, the reviews and the lease.                             *)

LEMMA OneUsableStep == IInv /\ [Next]_vars => OneUsable'
<1> SUFFICES ASSUME IInv, [Next]_vars
             PROVE  OneUsable'
  OBVIOUS
<1>0. OneUsable
  BY DEF IInv
<1>1. ASSUME NEW v \in Versions, NEW usable \in BOOLEAN, SaveCompilation(v, usable)
      PROVE  OneUsable'
  <2> DEFINE new == [id |-> Cardinality(compilations) + 1, review |-> v, usable |-> usable]
             kept == Kept(new)
  <2>1. compilations' = compilations \cup {kept}
    BY <1>1 DEF SaveCompilation
  <2>2. kept.review = v /\ (kept \in compilations \/ Usable(v) = {})
    BY KeptFacts
  <2> HIDE DEF kept
  <2>3. CASE kept \in compilations
    BY <1>0, <2>1, <2>3 DEF OneUsable
  <2>4. CASE Usable(v) = {}
    <3>1. \A c \in compilations : c.usable => c.review # v
      BY <2>4 DEF Usable
    <3> QED BY <1>0, <2>1, <2>2, <3>1 DEF OneUsable
  <2> QED BY <2>2, <2>3, <2>4
<1>2. CASE UNCHANGED compilations
  BY <1>0, <1>2 DEF OneUsable
<1>3. CASE \/ ReserveEpisode \/ Reconcile \/ CancelLook \/ Cancel \/ CancelRefused
           \/ \E v \in Versions : OwnerStep(v) \/ OwnerDies(v) \/ Accept(v)
           \/ Stop \/ Reopen
  BY <1>2, <1>3 DEF ReserveEpisode, Reconcile, CancelLook, Cancel, CancelRefused, OwnerStep,
                    OwnerDies, MarkRunning, CompleteEpisode, FailEpisode, OwnerRefused,
                    Accept, Stop, Reopen, reviewVars
<1>4. CASE AttachFeedback \/ CompileStart \/ CompileAgain
  BY <1>2, <1>4 DEF AttachFeedback, CompileStart, CompileAgain, reviewVars
<1>5. CASE ConfirmRevision
  BY <1>2, <1>5 DEF ConfirmRevision
<1>6. CASE \E v \in Versions : CompileAbandoned(v)
  BY <1>2, <1>6 DEF CompileAbandoned
<1>7. CASE Evaluation
  BY <1>2, <1>7 DEF Evaluation, ClaimEvaluation, MarkEvaluationRunning, CompleteEvaluation,
                    FailEvaluation, EvaluationEnds, EvaluatorDies, reviewVars
<1> QED BY <1>1, <1>2, <1>3, <1>4, <1>5, <1>6, <1>7 DEF Next, Review, vars

\* The records of the reviews only grow, and so do those the manifest links.
Grows ==
    /\ reviews \subseteq reviews' /\ compilations \subseteq compilations'
    /\ strategies \subseteq strategies'

LEMMA RecordsGrow == [Next]_vars => Grows
<1> SUFFICES ASSUME [Next]_vars
             PROVE  Grows
  OBVIOUS
<1>1. CASE \/ ReserveEpisode \/ Reconcile \/ CancelLook \/ Cancel \/ CancelRefused
           \/ \E v \in Versions : OwnerStep(v) \/ OwnerDies(v) \/ Accept(v)
           \/ Stop \/ Reopen
  BY <1>1 DEF ReserveEpisode, Reconcile, CancelLook, Cancel, CancelRefused, OwnerStep,
              OwnerDies, MarkRunning, CompleteEpisode, FailEpisode, OwnerRefused,
              Accept, Stop, Reopen, reviewVars, Grows
<1>2. CASE AttachFeedback \/ CompileStart \/ CompileAgain
  BY <1>2 DEF AttachFeedback, CompileStart, CompileAgain, reviewVars, Grows
<1>3. CASE ConfirmRevision
  BY <1>3 DEF ConfirmRevision, Grows
<1>4. CASE \E v \in Versions : CompileAbandoned(v)
  BY <1>4 DEF CompileAbandoned, Grows
<1>5. CASE \E v \in Versions : \E usable \in BOOLEAN : SaveCompilation(v, usable)
  BY <1>5 DEF SaveCompilation, Grows
<1>6. CASE Evaluation
  BY <1>6 DEF Evaluation, ClaimEvaluation, MarkEvaluationRunning, CompleteEvaluation,
              FailEvaluation, EvaluationEnds, EvaluatorDies, reviewVars, Grows
<1>7. CASE UNCHANGED vars
  BY <1>7 DEF vars, Grows
<1> QED BY <1>1, <1>2, <1>3, <1>4, <1>5, <1>6, <1>7 DEF Next, Review

\* A step that is not of an evaluation leaves the evaluations alone.
LEMMA EvaluationsKeep ==
    [Next]_vars => Evaluation \/ UNCHANGED <<evaluations, evaluators, lease>>
<1> SUFFICES ASSUME [Next]_vars
             PROVE  Evaluation \/ UNCHANGED <<evaluations, evaluators, lease>>
  OBVIOUS
<1>1. CASE \/ ReserveEpisode \/ Reconcile \/ CancelLook \/ Cancel \/ CancelRefused
           \/ \E v \in Versions : OwnerStep(v) \/ OwnerDies(v) \/ Accept(v)
           \/ Stop \/ Reopen
  BY <1>1 DEF ReserveEpisode, Reconcile, CancelLook, Cancel, CancelRefused, OwnerStep,
              OwnerDies, MarkRunning, CompleteEpisode, FailEpisode, OwnerRefused,
              Accept, Stop, Reopen, evalVars
<1>2. CASE AttachFeedback \/ CompileStart \/ CompileAgain
  BY <1>2 DEF AttachFeedback, CompileStart, CompileAgain, evalVars
<1>3. CASE ConfirmRevision
  BY <1>3 DEF ConfirmRevision, evalVars
<1>4. CASE \E v \in Versions : CompileAbandoned(v)
  BY <1>4 DEF CompileAbandoned, evalVars
<1>5. CASE \E v \in Versions : \E usable \in BOOLEAN : SaveCompilation(v, usable)
  BY <1>5 DEF SaveCompilation, evalVars
<1>6. CASE UNCHANGED vars
  BY <1>6 DEF vars
<1> QED BY <1>1, <1>2, <1>3, <1>4, <1>5, <1>6 DEF Next, Review

LEMMA LeasedStep == IInv /\ [Next]_vars => Leased'
<1> SUFFICES ASSUME IInv, [Next]_vars
             PROVE  Leased'
  OBVIOUS
<1>0. /\ Leased /\ evaluators \in [Evaluators -> {"new", "active", "gone"}]
      /\ None \notin Nat /\ \A e \in Evaluators : e \in Nat
      /\ lease \in Evaluators \cup {None}
  BY DEF IInv, Typed, TypeOK, BoundsAssumption, Evaluators
<1>1. ASSUME NEW e \in Evaluators, Leaves(e)
      PROVE  Leased'
  BY <1>0, <1>1 DEF Leased, Leaves
<1>2. ASSUME NEW e \in Evaluators, lease = None,
             evaluators' = [evaluators EXCEPT ![e] = "active"], lease' = e
      PROVE  Leased'
  BY <1>0, <1>2 DEF Leased
<1>3. CASE UNCHANGED <<evaluators, lease>>
  BY <1>0, <1>3 DEF Leased
<1>4. ASSUME NEW e \in Evaluators, NEW plan \in Plans, ClaimEvaluation(e, plan)
      PROVE  Leased'
  <2>1. lease = None
    BY <1>4, ClaimFacts
  <2>2. \/ evaluators' = [evaluators EXCEPT ![e] = "active"] /\ lease' = e
        \/ Leaves(e)
    BY <1>4 DEF ClaimEvaluation, TakeOver, ReserveNext
  <2> QED BY <1>1, <1>2, <2>1, <2>2
<1>5. ASSUME NEW e \in Evaluators,
             \/ EvaluatorDies(e)
             \/ \E n \in 1..MaxEvaluations : \/ MarkEvaluationRunning(e, n)
                                             \/ CompleteEvaluation(e, n)
                                             \/ FailEvaluation(e, n)
      PROVE  Leased'
  BY <1>1, <1>3, <1>5 DEF EvaluatorDies, MarkEvaluationRunning, CompleteEvaluation, FailEvaluation
<1> QED BY <1>3, <1>4, <1>5, EvaluationsKeep DEF Evaluation

LEMMA ReviewedStep == IInv /\ [Next]_vars => Reviewed'
<1> SUFFICES ASSUME IInv, [Next]_vars
             PROVE  Reviewed'
  OBVIOUS
<1>0. Reviewed /\ reviews \subseteq reviews' /\ task.feedback \in Seq(Versions)
  BY RecordsGrow, ManifestFacts DEF IInv, Grows
<1>1. CASE task'.feedback = task.feedback
  BY <1>0, <1>1 DEF Reviewed
<1>2. CASE AttachFeedback /\ task'.feedback # task.feedback
  <2>1. task.cur \in Versions
    BY <1>2, ReviewFacts DEF AttachFeedback
  <2>2. task'.feedback = Append(task.feedback, task.cur) /\ task.cur \in reviews'
    <3>1. task \in Manifests
      BY DEF IInv, Typed, TypeOK
    <3> QED BY <1>2, <3>1 DEF AttachFeedback, Saved, Dies, Manifests
  <2>3. \A i \in DOMAIN task'.feedback : task'.feedback[i] \in reviews'
    BY <1>0, <2>1, <2>2, AppendProperties DEF Reviewed
  <2> QED BY <2>3 DEF Reviewed
<1>3. ASSUME ~AttachFeedback
      PROVE  task'.feedback = task.feedback
  <2>0. task \in Manifests
    BY DEF IInv, Typed, TypeOK
  <2>1. CASE \/ ReserveEpisode \/ Reconcile \/ CancelLook \/ Cancel \/ CancelRefused
             \/ \E v \in Versions : OwnerStep(v) \/ OwnerDies(v) \/ Accept(v)
             \/ Stop \/ Reopen
    BY <2>0, <2>1 DEF ReserveEpisode, Reconcile, CancelLook, Cancel, CancelRefused, OwnerStep,
              OwnerDies, MarkRunning, CompleteEpisode, FailEpisode, OwnerRefused,
              Accept, Stop, Reopen, Reopened, Saved, Dies, AfterCompletion, AfterFailure, Manifests
  <2>2. CASE CompileStart \/ CompileAgain
    BY <2>0, <2>2 DEF CompileStart, CompileAgain, Saved, Linked, Manifests
  <2>3. CASE ConfirmRevision
    BY <2>0, <2>3 DEF ConfirmRevision, Saved, Dies, Manifests
  <2>4. CASE \E v \in Versions : CompileAbandoned(v)
    BY <2>4 DEF CompileAbandoned, Dies
  <2>5. CASE \E v \in Versions : \E usable \in BOOLEAN : SaveCompilation(v, usable)
    BY <2>0, <2>5 DEF SaveCompilation, Saved, Dies, Linked, Manifests
  <2>6. CASE Evaluation
    BY <2>0, <2>6 DEF Evaluation, ClaimEvaluation, TakeOver, ReserveNext, MarkEvaluationRunning,
              CompleteEvaluation, FailEvaluation, EvaluationEnds, EvaluatorDies, Saved, Dies,
              Manifests
  <2>7. CASE UNCHANGED vars
    BY <2>7 DEF vars
  <2> QED BY <1>3, <2>1, <2>2, <2>3, <2>4, <2>5, <2>6, <2>7 DEF Next, Review
<1> QED BY <1>1, <1>2, <1>3

-----------------------------------------------------------------------------
(* The manifest and the episode records.                                    *)

Agrees == Paused /\ Records /\ Standing

\* The fields of the manifest that say where the task is.
SamePlace ==
    /\ task'.status = task.status /\ task'.resume = task.resume
    /\ task'.cur = task.cur /\ task'.last = task.last

\* The current record has that status, and the others are as they were.
CurrentIs(status) ==
    /\ episodes'[task.cur] # None /\ episodes'[task.cur].status = status
    /\ \A v \in Versions \ {task.cur} : episodes'[v] = episodes[v]

LEMMA ConfirmedKept ==
    ASSUME Confirmed, Grows, task'.last = task.last, UNCHANGED <<task.feedback, task.plans>>,
           task.compiled \subseteq task'.compiled
    PROVE  Confirmed'
BY DEF Confirmed, Grows

LEMMA AgreesKept ==
    ASSUME IInv, Grows, UNCHANGED episodes, SamePlace, UNCHANGED <<task.feedback, task.plans>>,
           task.compiled \subseteq task'.compiled
    PROVE  Agrees'
<1>1. Paused'
  BY DEF IInv, Paused, SamePlace
<1>2. Records'
  BY DEF IInv, Records, StatusIs, SamePlace
<1>3. Standing'
  <2>1. Stands' = Stands
    BY DEF Stands, SamePlace
  <2>2. Confirmed => Confirmed'
    BY ConfirmedKept DEF SamePlace
  <2> QED BY <2>1, <2>2 DEF IInv, Standing, SamePlace
<1> QED BY <1>1, <1>2, <1>3 DEF Agrees

LEMMA BecomesMeans ==
    ASSUME IInv, NEW v \in Versions, episodes[v] # None,
           NEW status \in Active \cup {"COMPLETED", "FAILED"}, Becomes(v, status)
    PROVE  /\ episodes'[v] # None /\ episodes'[v].status = status
           /\ \A w \in Versions \ {v} : episodes'[w] = episodes[w]
<1>1. episodes \in [Versions -> EpisodeRecords \cup {None}]
  BY DEF IInv, Typed, TypeOK
<1>2. [episodes[v] EXCEPT !.status = status] \in EpisodeRecords
  BY <1>1 DEF EpisodeRecords
<1>3. /\ episodes'[v] = [episodes[v] EXCEPT !.status = status]
      /\ \A w \in Versions \ {v} : episodes'[w] = episodes[w]
  BY <1>1 DEF Becomes
<1>4. [episodes[v] EXCEPT !.status = status].status = status
  BY <1>1 DEF EpisodeRecords
<1> QED BY <1>2, <1>3, <1>4 DEF IInv, BoundsAssumption

\* A running task goes on: only the status of its current record changes.
LEMMA AgreesRunning ==
    ASSUME IInv, Grows, task.status = "RUNNING", UNCHANGED task,
           NEW status \in Active \cup {"COMPLETED", "FAILED"}, CurrentIs(status)
    PROVE  Agrees'
<1>1. task.cur \in Versions /\ task.last < task.cur
  BY RunningFacts
<1>2. Paused' /\ Standing'
  <2>1. Confirmed => Confirmed'
    BY ConfirmedKept
  <2> QED BY <2>1 DEF IInv, Paused, Standing, Stands
<1>3. Records'
  <2>1. ASSUME NEW v \in Versions, v # task.cur
        PROVE  \A set : StatusIs(v, set)' <=> StatusIs(v, set)
    BY <2>1 DEF StatusIs, CurrentIs
  <2>2. \A set : StatusIs(task.cur, set)' <=> status \in set
    BY DEF StatusIs, CurrentIs
  <2>3. ASSUME NEW v \in Versions
        PROVE  /\ v < task.cur => StatusIs(v, {"COMPLETED", "FAILED"})'
               /\ v = task.cur => StatusIs(v, Active \cup {"COMPLETED", "FAILED"})'
               /\ v > task.cur => episodes'[v] = None \/ (v = task.cur + 1
                                                         /\ StatusIs(v, {"RESERVED"})')
               /\ v > task.last /\ StatusIs(v, {"COMPLETED"})' => v = task.cur
    <3>1. CASE v = task.cur
      BY <1>1, <2>2, <3>1 DEF Versions
    <3>2. CASE v # task.cur
      BY <2>1, <3>2 DEF IInv, Records, CurrentIs
    <3> QED BY <3>1, <3>2
  <2>4. task.last # 0 => StatusIs(task.last, {"COMPLETED"})'
    <3>1. task.last # 0 => task.last \in Versions /\ task.last # task.cur
      BY <1>1, ManifestFacts DEF Versions
    <3> QED BY <2>1, <3>1 DEF IInv, Records
  <2> QED BY <2>3, <2>4 DEF IInv, Records
<1> QED BY <1>2, <1>3 DEF Agrees

LEMMA AgreesCompleted ==
    ASSUME IInv, Grows, task.status = "RUNNING", task' = AfterCompletion(task.cur),
           CurrentIs("COMPLETED")
    PROVE  Agrees'
<1>1. /\ task.cur \in Versions /\ task.last < task.cur
      /\ task.cur \in Nat /\ task.cur # 0
  BY RunningFacts, ManifestFacts DEF Versions
<1>2. /\ task'.status = "AWAITING" /\ task'.resume = None
      /\ task'.cur = task.cur /\ task'.last = task.cur
  BY DEF AfterCompletion, IInv, Typed, TypeOK, Manifests
<1>3. Paused' /\ Standing'
  BY <1>1, <1>2 DEF Paused, Standing, Stands
<1>4. Records'
  <2>1. ASSUME NEW v \in Versions, v # task.cur
        PROVE  \A set : StatusIs(v, set)' <=> StatusIs(v, set)
    BY <2>1 DEF StatusIs, CurrentIs
  <2>2. \A set : StatusIs(task.cur, set)' <=> "COMPLETED" \in set
    BY <1>2 DEF StatusIs, CurrentIs
  <2>3. ASSUME NEW v \in Versions
        PROVE  /\ v < task.cur => StatusIs(v, {"COMPLETED", "FAILED"})'
               /\ v = task.cur => StatusIs(v, {"COMPLETED", "FAILED"})'
               /\ v > task.cur => episodes'[v] = None \/ (v = task.cur + 1
                                                         /\ StatusIs(v, {"RESERVED"})')
               /\ v > task.cur => ~StatusIs(v, {"COMPLETED"})'
    <3>1. CASE v = task.cur
      BY <1>1, <1>2, <2>2, <3>1 DEF Versions
    <3>2. CASE v # task.cur
      <4>1. episodes[v] = episodes'[v]
        BY <3>2 DEF CurrentIs
      <4>2. v > task.cur => ~StatusIs(v, {"COMPLETED"})
        <5>1. task.cur \in Versions /\ v > task.cur => v > task.last
          BY <1>1, ManifestFacts DEF Versions
        <5> QED BY <1>1, <3>2, <5>1 DEF IInv, Records
      <4> QED BY <2>1, <3>2, <4>1, <4>2 DEF IInv, Records
    <3> QED BY <3>1, <3>2
  <2>4. StatusIs(task.cur, {"COMPLETED"})'
    BY <2>2
  <2> QED BY <1>2, <2>3, <2>4 DEF Records, StatusIs
<1> QED BY <1>3, <1>4 DEF Agrees

LEMMA AgreesFailed ==
    ASSUME IInv, Grows, task.status = "RUNNING", task' = AfterFailure, CurrentIs("FAILED")
    PROVE  Agrees'
<1>1. /\ task.cur \in Versions /\ task.last < task.cur /\ (task.last # 0 => Confirmed)
      /\ task.cur \in Nat /\ task.cur # 0
  BY RunningFacts, ManifestFacts DEF Versions
<1>2. /\ task'.status = "BLOCKED" /\ task'.resume = RetryCheckpoint
      /\ task'.cur = task.cur /\ task'.last = task.last
      /\ UNCHANGED <<task.feedback, task.plans>> /\ task'.compiled = task.compiled
  BY DEF AfterFailure, IInv, Typed, TypeOK, Manifests
<1>3. RetryCheckpoint # None
  BY ManifestFacts DEF IInv, BoundsAssumption, Checkpoints
<1>4. Paused' /\ Standing'
  <2>1. Stands' = RetryCheckpoint
    BY <1>2, <1>3 DEF Stands
  <2>2. task.last # 0 => Confirmed'
    BY <1>1, <1>2, ConfirmedKept
  <2>3. Paused'
    BY <1>2, <1>3 DEF Paused
  <2>4. Standing'
    BY <1>2, <2>1, <2>2 DEF Standing, RetryCheckpoint, Confirmed
  <2> QED BY <2>3, <2>4
<1>5. Records'
  <2>1. ASSUME NEW v \in Versions, v # task.cur
        PROVE  \A set : StatusIs(v, set)' <=> StatusIs(v, set)
    BY <2>1 DEF StatusIs, CurrentIs
  <2>2. \A set : StatusIs(task.cur, set)' <=> "FAILED" \in set
    BY <1>2 DEF StatusIs, CurrentIs
  <2>3. ASSUME NEW v \in Versions
        PROVE  /\ v < task.cur => StatusIs(v, {"COMPLETED", "FAILED"})'
               /\ v = task.cur => StatusIs(v, {"COMPLETED", "FAILED"})'
               /\ v > task.cur => episodes'[v] = None \/ (v = task.cur + 1
                                                         /\ StatusIs(v, {"RESERVED"})')
               /\ v > task.last => ~StatusIs(v, {"COMPLETED"})'
    <3>1. CASE v = task.cur
      BY <1>1, <1>2, <2>2, <3>1 DEF Versions
    <3>2. CASE v # task.cur
      BY <2>1, <3>2 DEF IInv, Records, CurrentIs
    <3> QED BY <3>1, <3>2
  <2>4. task.last # 0 => StatusIs(task.last, {"COMPLETED"})'
    <3>1. task.last # 0 => task.last \in Versions /\ task.last # task.cur
      BY <1>1, ManifestFacts DEF Versions
    <3> QED BY <1>2, <2>1, <3>1 DEF IInv, Records
  <2> QED BY <1>2, <2>3, <2>4 DEF Records, StatusIs
<1> QED BY <1>4, <1>5 DEF Agrees

\* A pause, an acceptance and a reopening stand where the task stood.
LEMMA AgreesMoved ==
    ASSUME IInv, Grows, UNCHANGED episodes, Paused', Stands' = Stands,
           task.status # "RUNNING", task'.status # "RUNNING",
           task'.cur = task.cur, task'.last = task.last,
           UNCHANGED <<task.feedback, task.plans>>, task'.compiled = task.compiled
    PROVE  Agrees'
<1>1. Records'
  BY DEF IInv, Records, StatusIs
<1>2. Confirmed => Confirmed'
  BY ConfirmedKept
<1>3. Standing'
  BY <1>2 DEF IInv, Standing
<1> QED BY <1>1, <1>3 DEF Agrees

\* A task at rest has no completed record above its last version, and none above
\* the current one.
LEMMA RestingFacts ==
    ASSUME IInv, task.status # "RUNNING"
    PROVE  /\ task.last <= task.cur
           /\ \A v \in Versions :
                 /\ v <= task.cur => StatusIs(v, {"COMPLETED", "FAILED"})
                 /\ v > task.last => ~StatusIs(v, {"COMPLETED"})
                 /\ v > task.cur + 1 => episodes[v] = None
<1>1. ASSUME task.last > task.cur
      PROVE  FALSE
  <2>1. task.last \in Versions
    BY <1>1, ManifestFacts DEF Versions
  <2>2. StatusIs(task.last, {"COMPLETED"})
    BY <1>1, ManifestFacts DEF IInv, Records
  <2>3. episodes[task.last] = None \/ StatusIs(task.last, {"RESERVED"})
    BY <1>1, <2>1 DEF IInv, Records
  <2> QED BY <2>2, <2>3 DEF StatusIs
<1>2. ASSUME NEW v \in Versions
      PROVE  /\ v <= task.cur => StatusIs(v, {"COMPLETED", "FAILED"})
             /\ v > task.last => ~StatusIs(v, {"COMPLETED"})
             /\ v > task.cur + 1 => episodes[v] = None
  <2>1. /\ v \in Nat /\ task.cur \in Nat /\ task.last \in Nat
    BY ManifestFacts DEF Versions
  <2>2. v <= task.cur => StatusIs(v, {"COMPLETED", "FAILED"})
    BY <2>1 DEF IInv, Records
  <2>3. v > task.last => ~StatusIs(v, {"COMPLETED"})
    BY DEF IInv, Records
  <2>4. v > task.cur + 1 => episodes[v] = None
    BY <2>1 DEF IInv, Records
  <2> QED BY <2>2, <2>3, <2>4
<1> QED BY <1>1, <1>2, ManifestFacts

LEMMA AgreesReserve == IInv /\ Grows /\ ReserveEpisode => Agrees'
<1> SUFFICES ASSUME IInv, Grows, ReserveEpisode
             PROVE  Agrees'
  OBVIOUS
<1> DEFINE v == task.cur + 1
<1>1. /\ v \in Versions /\ task.status = RetryCheckpoint
      /\ task.last # 0 => ConfirmedContext
      /\ episodes[v] = None /\ episodes' = [episodes EXCEPT ![v] = Reserved(v)]
      /\ \/ Saved([task EXCEPT !.status = "RUNNING", !.resume = None, !.cur = v])
         \/ Dies
  BY DEF ReserveEpisode
<1>2. /\ task.status \in {"CREATED", "REVISION_READY"} /\ task.resume = None
      /\ task.cur \in Nat /\ task.last \in Nat
  BY <1>1, ManifestFacts
<1>3. episodes'[v] # None /\ episodes'[v].status = "RESERVED"
  <2>1. Reserved(v) \in EpisodeRecords
    <3>1. task.last \in {0} \cup Versions /\ LastOf(task.feedback) \in {None} \cup Versions
          /\ LastOf(task.plans) \in {None} \cup Plans
      BY ManifestFacts DEF Versions
    <3> QED BY <3>1 DEF Reserved, EpisodeRecords, Active
  <2>2. episodes'[v] = Reserved(v)
    BY <1>1 DEF IInv, Typed, TypeOK
  <2> QED BY <2>1, <2>2 DEF Reserved, IInv, BoundsAssumption
<1>4. \A w \in Versions \ {v} : episodes'[w] = episodes[w]
  BY <1>1 DEF IInv, Typed, TypeOK
<1>5. task.last # 0 => Confirmed
  BY <1>1, ConfirmedMeans DEF IInv
<1>6. ASSUME NEW w \in Versions
      PROVE  /\ w < v => StatusIs(w, {"COMPLETED", "FAILED"})'
             /\ w = v => StatusIs(w, {"RESERVED"})'
             /\ w > v => episodes'[w] = None
             /\ w > task.last => ~StatusIs(w, {"COMPLETED"})'
  <2>1. CASE w = v
    BY <1>2, <1>3, <2>1 DEF StatusIs
  <2>2. CASE w # v
    <3>1. episodes'[w] = episodes[w]
      BY <1>4, <2>2
    <3>2. /\ w < v => StatusIs(w, {"COMPLETED", "FAILED"})
          /\ w > v => episodes[w] = None
          /\ w > task.last => ~StatusIs(w, {"COMPLETED"})
      BY <1>2, <2>2, RestingFacts DEF Versions
    <3> QED BY <2>2, <3>1, <3>2 DEF StatusIs
  <2> QED BY <2>1, <2>2
<1>7. task.last < v /\ (task.last # 0 => StatusIs(task.last, {"COMPLETED"})')
  <2>1. task.last <= task.cur
    BY <1>2, RestingFacts
  <2>2. ASSUME task.last # 0
        PROVE  StatusIs(task.last, {"COMPLETED"}) /\ episodes'[task.last] = episodes[task.last]
    <3>1. task.last \in Versions /\ task.last # v
      BY <1>2, <2>1, <2>2, ManifestFacts DEF Versions
    <3> QED BY <1>4, <2>2, <3>1 DEF IInv, Records
  <2>3. task'.last = task.last
    BY <1>1 DEF Saved, Dies, IInv, Typed, TypeOK, Manifests
  <2> QED BY <1>2, <2>1, <2>2, <2>3 DEF StatusIs
<1>8. CASE Dies
  <2>1. UNCHANGED task
    BY <1>8 DEF Dies
  <2>2. Paused' /\ Standing'
    <3>1. Confirmed => Confirmed'
      BY <2>1, ConfirmedKept
    <3> QED BY <2>1, <3>1 DEF IInv, Paused, Standing, Stands
  <2>3. Records'
    BY <1>2, <1>6, <1>7, <2>1 DEF Records, StatusIs, Versions
  <2> QED BY <2>2, <2>3 DEF Agrees
<1>9. CASE Saved([task EXCEPT !.status = "RUNNING", !.resume = None, !.cur = v])
  <2>1. /\ task'.status = "RUNNING" /\ task'.resume = None /\ task'.cur = v
        /\ task'.last = task.last /\ UNCHANGED <<task.feedback, task.plans>>
        /\ task'.compiled = task.compiled
    BY <1>9 DEF Saved, IInv, Typed, TypeOK, Manifests
  <2>2. task.last # 0 => Confirmed'
    BY <1>5, <2>1, ConfirmedKept
  <2>3. Paused' /\ Standing'
    BY <2>1, <2>2 DEF Paused, Standing, Stands
  <2>4. Records'
    BY <1>2, <1>6, <1>7, <2>1 DEF Records, StatusIs, Active
  <2> QED BY <2>3, <2>4 DEF Agrees
<1> QED BY <1>1, <1>8, <1>9

LEMMA AgreesEpisodes ==
    ASSUME IInv, Grows,
           \/ Reconcile \/ CancelLook \/ Cancel \/ CancelRefused
           \/ \E v \in Versions : OwnerStep(v) \/ OwnerDies(v)
    PROVE  Agrees'
<1>1. CASE UNCHANGED <<task, episodes>>
  BY <1>1, AgreesKept DEF SamePlace
<1>2. ASSUME task.status = "RUNNING", episodes[task.cur].status = "COMPLETED",
             UNCHANGED episodes
      PROVE  CurrentIs("COMPLETED")
  BY <1>2, RunningFacts DEF CurrentIs, IInv, BoundsAssumption
<1>3. ASSUME task.status = "RUNNING", episodes[task.cur].status = "FAILED",
             UNCHANGED episodes
      PROVE  CurrentIs("FAILED")
  BY <1>3, RunningFacts DEF CurrentIs, IInv, BoundsAssumption
<1>4. ASSUME task.status = "RUNNING", NEW status \in Active \cup {"COMPLETED", "FAILED"},
             Becomes(task.cur, status)
      PROVE  CurrentIs(status)
  <2>1. task.cur \in Versions /\ episodes[task.cur] # None
    BY <1>4, RunningFacts DEF IInv, BoundsAssumption
  <2> QED BY <1>4, <2>1, BecomesMeans DEF CurrentIs
<1>5. CASE Reconcile
  BY <1>2, <1>3, <1>5, AgreesCompleted, AgreesFailed DEF Reconcile, mainVars
<1>6. CASE CancelLook \/ CancelRefused
  BY <1>1, <1>6 DEF CancelLook, CancelRefused, mainVars
<1>7. CASE Cancel
  <2>1. task.status = "RUNNING"
    BY <1>7 DEF Cancel
  <2>2. \/ /\ CurrentIs("COMPLETED") /\ task' = AfterCompletion(task.cur)
        \/ /\ CurrentIs("FAILED") /\ (task' = AfterFailure \/ UNCHANGED task)
    BY <1>2, <1>4, <1>7 DEF Cancel, Saved, Dies
  <2> QED BY <2>1, <2>2, AgreesCompleted, AgreesFailed, AgreesRunning
<1>8. ASSUME NEW v \in Versions, MarkRunning(v)
      PROVE  Agrees'
  <2>1. task.status = "RUNNING" /\ UNCHANGED task /\ Becomes(task.cur, "RUNNING")
    BY <1>8 DEF MarkRunning
  <2>2. CurrentIs("RUNNING")
    BY <1>4, <2>1 DEF Active
  <2> QED BY <2>1, <2>2, AgreesRunning DEF Active
<1>9. ASSUME NEW v \in Versions, CompleteEpisode(v)
      PROVE  Agrees'
  <2>1. /\ task.status = "RUNNING" /\ Becomes(task.cur, "COMPLETED")
        /\ task' = AfterCompletion(task.cur) \/ UNCHANGED task
    BY <1>9 DEF CompleteEpisode, Saved, Dies
  <2>2. CurrentIs("COMPLETED")
    BY <1>4, <2>1
  <2> QED BY <2>1, <2>2, AgreesCompleted, AgreesRunning
<1>10. ASSUME NEW v \in Versions, FailEpisode(v)
       PROVE  Agrees'
  <2>1. /\ task.status = "RUNNING" /\ Becomes(task.cur, "FAILED")
        /\ task' = AfterFailure \/ UNCHANGED task
    BY <1>10 DEF FailEpisode, Saved, Dies
  <2>2. CurrentIs("FAILED")
    BY <1>4, <2>1
  <2> QED BY <2>1, <2>2, AgreesFailed, AgreesRunning
<1>11. ASSUME NEW v \in Versions, OwnerRefused(v) \/ OwnerDies(v)
       PROVE  Agrees'
  BY <1>1, <1>11 DEF OwnerRefused, OwnerDies, Dies
<1> QED BY <1>5, <1>6, <1>7, <1>8, <1>9, <1>10, <1>11 DEF OwnerStep

LEMMA AgreesPauses ==
    ASSUME IInv, Grows, Stop \/ Reopen \/ \E v \in Versions : Accept(v)
    PROVE  Agrees'
<1>0. task \in Manifests /\ UNCHANGED episodes
  BY DEF IInv, Typed, TypeOK, Stop, Reopen, Accept, mainVars
<1>1. CASE Stop
  <2>1. task.status \in {"CREATED", "AWAITING", "FEEDBACK_RECORDED", "REVISION_READY", "BLOCKED"}
    BY <1>1 DEF Stop, Allowed
  <2>2. PauseCheckpoint = Stands /\ PauseCheckpoint # None
    BY <2>1, ManifestFacts DEF PauseCheckpoint, Stands, IInv, BoundsAssumption, Checkpoints
  <2>3. /\ task'.status = "STOPPED" /\ task'.resume = PauseCheckpoint
        /\ task'.cur = task.cur /\ task'.last = task.last
        /\ UNCHANGED <<task.feedback, task.plans>> /\ task'.compiled = task.compiled
    BY <1>0, <1>1 DEF Stop, Manifests
  <2>4. Paused' /\ Stands' = Stands
    BY <2>2, <2>3 DEF Paused, Stands
  <2> QED BY <1>0, <2>1, <2>3, <2>4, AgreesMoved
<1>2. CASE Reopen
  <2>1. task.resume \in Checkpoints /\ task.resume # None /\ task.status # "RUNNING"
    BY <1>2, ManifestFacts DEF Reopen
  <2>2. /\ task'.status = task.resume /\ task'.resume = None
        /\ task'.cur = task.cur /\ task'.last = task.last
        /\ UNCHANGED <<task.feedback, task.plans>> /\ task'.compiled = task.compiled
    BY <1>0, <1>2 DEF Reopen, Reopened, Manifests
  <2>3. Paused' /\ Stands' = Stands /\ task'.status # "RUNNING"
    BY <2>1, <2>2 DEF Paused, Stands, Checkpoints
  <2> QED BY <1>0, <2>1, <2>2, <2>3, AgreesMoved
<1>3. CASE \E v \in Versions : Accept(v)
  <2>1. task.status \in {"AWAITING", "FEEDBACK_RECORDED", "REVISION_READY"}
    BY <1>3 DEF Accept
  <2>2. task.resume = None /\ task.status # None
    BY <2>1, ManifestFacts DEF IInv, BoundsAssumption, Checkpoints
  <2>3. /\ task'.status = "ACCEPTED" /\ task'.resume = task.status
        /\ task'.cur = task.cur /\ task'.last = task.last
        /\ UNCHANGED <<task.feedback, task.plans>> /\ task'.compiled = task.compiled
    BY <1>0, <1>3 DEF Accept, Manifests
  <2>4. Paused' /\ Stands' = Stands
    BY <2>2, <2>3 DEF Paused, Stands
  <2> QED BY <1>0, <2>1, <2>3, <2>4, AgreesMoved
<1> QED BY <1>1, <1>2, <1>3

LEMMA AgreesReview ==
    ASSUME IInv, Grows, Review
    PROVE  Agrees'
<1>0. task \in Manifests /\ task.feedback \in Seq(Versions) /\ task.plans \in Seq(Plans)
  BY ManifestFacts DEF IInv, Typed, TypeOK
<1>1. CASE UNCHANGED <<task, episodes>>
  BY <1>1, AgreesKept DEF SamePlace
<1>2. ASSUME NEW id, task' = Linked(id), UNCHANGED episodes
      PROVE  Agrees'
  <2>1. /\ SamePlace /\ UNCHANGED <<task.feedback, task.plans>>
        /\ task.compiled \subseteq task'.compiled
    BY <1>0, <1>2 DEF Linked, SamePlace, Manifests
  <2> QED BY <1>2, <2>1, AgreesKept
<1>3. CASE AttachFeedback
  <2>0. task.status = "AWAITING" /\ UNCHANGED episodes
    BY <1>3 DEF AttachFeedback, mainVars
  <2>1. CASE Dies
    BY <1>1, <2>0, <2>1 DEF Dies
  <2>2. CASE Saved([task EXCEPT !.status = "FEEDBACK_RECORDED",
                                !.feedback = Append(@, task.cur)])
    <3>1. /\ task.cur \in Versions /\ task.last = task.cur /\ task.resume = None
          /\ task.cur # 0
      BY <2>0, ReviewFacts, ManifestFacts DEF Versions
    <3>2. /\ task'.status = "FEEDBACK_RECORDED" /\ task'.resume = None
          /\ task'.cur = task.cur /\ task'.last = task.last
          /\ task'.feedback = Append(task.feedback, task.cur)
      BY <1>0, <2>2, <3>1 DEF Saved, Manifests
    <3>3. LastOf(task'.feedback) = task'.last
      BY <1>0, <3>1, <3>2, LastOfAppended
    <3>4. Paused' /\ Standing'
      BY <3>1, <3>2, <3>3 DEF Paused, Standing, Stands
    <3>5. Records'
      BY <2>0, <3>2 DEF IInv, Records, StatusIs
    <3> QED BY <3>4, <3>5 DEF Agrees
  <2> QED BY <1>3, <2>1, <2>2 DEF AttachFeedback
<1>4. CASE CompileStart
  BY <1>1, <1>4 DEF CompileStart, mainVars
<1>5. CASE CompileAgain
  BY <1>2, <1>5 DEF CompileAgain, Saved, mainVars
<1>6. CASE ConfirmRevision
  <2>1. PICK known \in 0..MaxObservations :
           /\ CompilationContext
           /\ Cardinality({c \in Usable(task.last) : c.id \in task.compiled}) = 1
           /\ strategies' = strategies \cup {[source |-> task.last, seen |-> known]}
           /\ \/ Saved([task EXCEPT !.status = "REVISION_READY",
                                    !.plans = Append(@, [source |-> task.last, seen |-> known])])
              \/ Dies
           /\ UNCHANGED <<episodes, compilations>>
    BY <1>6 DEF ConfirmRevision, mainVars
  <2> DEFINE plan == [source |-> task.last, seen |-> known]
  <2>2. CASE Dies
    BY <1>1, <2>1, <2>2 DEF Dies
  <2>3. CASE Saved([task EXCEPT !.status = "REVISION_READY", !.plans = Append(@, plan)])
    <3>1. /\ task.status = "FEEDBACK_RECORDED" /\ task.resume = None
          /\ LastOf(task.feedback) = task.last /\ task.last \in Versions
      BY <2>1, ReviewFacts, ManifestFacts DEF CompilationContext
    <3>2. plan \in Plans /\ plan.source = task.last /\ plan # None
      BY <3>1 DEF Plans, IInv, BoundsAssumption
    <3>3. plan \in strategies'
      BY <2>1
    <3> HIDE DEF plan
    <3>4. /\ task'.status = "REVISION_READY" /\ task'.resume = None
          /\ task'.cur = task.cur /\ task'.last = task.last
          /\ task'.feedback = task.feedback /\ task'.compiled = task.compiled
          /\ task'.plans = Append(task.plans, plan)
      BY <1>0, <2>3, <3>1 DEF Saved, Manifests
    <3>5. LastOf(task'.plans) = plan
      BY <1>0, <3>2, <3>4, LastOfAppended
    <3>6. \E c \in compilations : c.review = task.last /\ c.usable /\ c.id \in task.compiled
      <4> DEFINE S == {c \in Usable(task.last) : c.id \in task.compiled}
      <4>1. \A c, d \in S : c = d
        BY DEF Usable, IInv, OneUsable
      <4>2. Cardinality(S) = 1
        BY <2>1
      <4>3. S # {}
        <5> HIDE DEF S
        <5> QED BY <4>1, <4>2, AtMostOneElement
      <4> QED BY <4>3 DEF Usable
    <3>7. Confirmed'
      BY <2>1, <3>1, <3>2, <3>3, <3>4, <3>5, <3>6 DEF Confirmed
    <3>8. Paused' /\ Standing'
      BY <3>1, <3>4, <3>7 DEF Paused, Standing, Stands, Confirmed
    <3>9. Records'
      BY <2>1, <3>1, <3>4 DEF IInv, Records, StatusIs
    <3> QED BY <3>8, <3>9 DEF Agrees
  <2> QED BY <2>1, <2>2, <2>3
<1>7. CASE \E v \in Versions : CompileAbandoned(v)
  BY <1>1, <1>7 DEF CompileAbandoned, Dies, mainVars
<1>8. ASSUME NEW v \in Versions, NEW usable \in BOOLEAN, SaveCompilation(v, usable)
      PROVE  Agrees'
  <2>1. UNCHANGED episodes /\ ((\E id : task' = Linked(id)) \/ UNCHANGED task)
    BY <1>8 DEF SaveCompilation, Saved, Dies, mainVars
  <2> QED BY <1>1, <1>2, <2>1
<1> QED BY <1>3, <1>4, <1>5, <1>6, <1>7, <1>8 DEF Review

LEMMA AgreesEvaluation ==
    ASSUME IInv, Grows, Evaluation
    PROVE  Agrees'
<1>1. task \in Manifests
  BY DEF IInv, Typed, TypeOK
<1>2. UNCHANGED task \/ \E n : task' = [task EXCEPT !.evals = n]
  BY DEF Evaluation, ClaimEvaluation, TakeOver, ReserveNext, MarkEvaluationRunning,
         CompleteEvaluation, FailEvaluation, EvaluationEnds, EvaluatorDies, Saved, Dies
<1>3. UNCHANGED episodes
  BY DEF Evaluation, ClaimEvaluation, MarkEvaluationRunning, CompleteEvaluation,
         FailEvaluation, EvaluationEnds, EvaluatorDies, mainVars
<1>4. /\ SamePlace /\ UNCHANGED <<task.feedback, task.plans>>
      /\ task.compiled \subseteq task'.compiled
  BY <1>1, <1>2 DEF SamePlace, Manifests
<1> QED BY <1>3, <1>4, AgreesKept

LEMMA AgreesStep == IInv /\ [Next]_vars => Agrees'
<1> SUFFICES ASSUME IInv, [Next]_vars
             PROVE  Agrees'
  OBVIOUS
<1>1. Grows
  BY RecordsGrow
<1>2. CASE UNCHANGED vars
  BY <1>1, <1>2, AgreesKept DEF vars, SamePlace
<1> QED BY <1>1, <1>2, AgreesReserve, AgreesEpisodes, AgreesPauses, AgreesReview,
           AgreesEvaluation DEF Next

LEMMA IInvariant == BoundsAssumption /\ Spec => []IInv
<1>1. BoundsAssumption /\ Init => IInv
  BY IInvInit
<1>2. IInv /\ [Next]_vars => IInv'
  <2> SUFFICES ASSUME IInv, [Next]_vars
               PROVE  IInv'
    OBVIOUS
  <2>1. BoundsAssumption'
    BY DEF IInv
  <2>2. Typed' /\ OneUsable' /\ Reviewed' /\ Leased' /\ Agrees'
    BY TypedStep, OneUsableStep, ReviewedStep, LeasedStep, AgreesStep
  <2> QED BY <2>1, <2>2 DEF IInv, Agrees
<1> QED BY <1>1, <1>2, PTL DEF Spec

-----------------------------------------------------------------------------
(* The theorems.                                                            *)

\* Every variable keeps its type: the manifest and the records the commands write
\* (store.py, models.py), for all bounds.
THEOREM TypeCorrect == Spec => []TypeOK
<1>1. IInv => TypeOK
  BY DEF IInv, Typed
<1> QED BY <1>1, BoundsAssumption, IInvariant, PTL

LEMMA InvariantAgrees == IInv => ManifestAgrees
<1> SUFFICES ASSUME IInv
             PROVE  ManifestAgrees
  OBVIOUS
<1>1. TypeOK /\ Paused /\ Records /\ Standing
  BY DEF IInv, Typed
<1>2. Confirmed <=> ConfirmedContext
  BY ConfirmedMeans DEF IInv
<1> HIDE DEF ConfirmedContext
<1> QED BY <1>1, <1>2 DEF ManifestAgrees, Paused, Records, Standing

\* The manifest and the episode records agree, whatever process died between two
\* writes, and however the task was paused and reopened (service.py reconcile, cancel,
\* stop, reopen).
THEOREM ManifestIsTrue == Spec => []ManifestAgrees
BY BoundsAssumption, IInvariant, InvariantAgrees, PTL

LEMMA InvariantUsable == IInv => OneUsableCompilation
<1> SUFFICES ASSUME IInv, NEW v \in Versions
             PROVE  Cardinality(Usable(v)) <= 1
  BY DEF OneUsableCompilation
<1>1. \A c, d \in Usable(v) : c = d
  BY DEF Usable, IInv, OneUsable
<1>2. Cardinality(Usable(v)) \in 0..1
  BY <1>1, AtMostOneElement
<1> QED BY <1>2

\* A review never has two usable compilations, however many invocations compile it at
\* once, and whoever dies (service.py:3075-3078).
THEOREM OneCompilationIsUsed == Spec => []OneUsableCompilation
BY BoundsAssumption, IInvariant, InvariantUsable, PTL

-----------------------------------------------------------------------------
(* Each episode revises its parent.                                         *)

\* The ways a step changes the episode records: a new one, or the status of the
\* current one, which has not completed.
Change ==
    \/ UNCHANGED episodes
    \/ ReserveEpisode
    \/ \E w \in Versions, status \in Active \cup {"COMPLETED", "FAILED"} :
           /\ episodes[w] # None /\ episodes[w].status # "COMPLETED"
           /\ Becomes(w, status)

LEMMA EpisodesChange == IInv /\ [Next]_vars => Change
<1> SUFFICES ASSUME IInv, [Next]_vars
             PROVE  Change
  OBVIOUS
<1>1. CASE UNCHANGED episodes
  BY <1>1 DEF Change
<1>2. ASSUME task.status = "RUNNING"
      PROVE  task.cur \in Versions /\ episodes[task.cur] # None
  BY <1>2, RunningFacts DEF IInv, BoundsAssumption
<1>3. CASE ReserveEpisode
  BY <1>3 DEF Change
<1>4. CASE Cancel
  BY <1>1, <1>2, <1>4 DEF Cancel, Cancellable, Active, Change
<1>5. ASSUME NEW w \in Versions, OwnerStep(w)
      PROVE  Change
  BY <1>1, <1>2, <1>5 DEF OwnerStep, MarkRunning, CompleteEpisode, FailEpisode, OwnerRefused,
                          Active, Change
<1>6. CASE Reconcile \/ CancelLook \/ CancelRefused \/ Stop \/ Reopen
           \/ \E w \in Versions : OwnerDies(w) \/ Accept(w)
  BY <1>1, <1>6 DEF Reconcile, CancelLook, CancelRefused, Stop, Reopen, OwnerDies, Accept, mainVars
<1>7. CASE Review
  <2>1. CASE AttachFeedback \/ CompileStart \/ CompileAgain
    BY <1>1, <2>1 DEF AttachFeedback, CompileStart, CompileAgain, mainVars
  <2>2. CASE ConfirmRevision
    BY <1>1, <2>2 DEF ConfirmRevision, mainVars
  <2>3. CASE \E w \in Versions : CompileAbandoned(w)
    BY <1>1, <2>3 DEF CompileAbandoned, mainVars
  <2>4. CASE \E w \in Versions : \E usable \in BOOLEAN : SaveCompilation(w, usable)
    BY <1>1, <2>4 DEF SaveCompilation, mainVars
  <2> QED BY <1>7, <2>1, <2>2, <2>3, <2>4 DEF Review
<1>8. CASE Evaluation
  BY <1>1, <1>8 DEF Evaluation, ClaimEvaluation, MarkEvaluationRunning, CompleteEvaluation,
                    FailEvaluation, EvaluationEnds, EvaluatorDies, mainVars
<1>9. CASE UNCHANGED vars
  BY <1>1, <1>9 DEF vars
<1> QED BY <1>3, <1>4, <1>5, <1>6, <1>7, <1>8, <1>9 DEF Next

\* A completed record stays as it is, and so does every field but the status of another.
LEMMA EpisodesKeep ==
    ASSUME IInv, [Next]_vars, NEW v \in Versions, episodes[v] # None
    PROVE  /\ episodes'[v] # None
           /\ episodes'[v].parent = episodes[v].parent
           /\ episodes'[v].review = episodes[v].review
           /\ episodes'[v].plan = episodes[v].plan
           /\ episodes[v].status = "COMPLETED" => episodes'[v].status = "COMPLETED"
<1>0. episodes \in [Versions -> EpisodeRecords \cup {None}] /\ None \notin EpisodeRecords
  BY DEF IInv, Typed, TypeOK, BoundsAssumption
<1>1. CASE episodes'[v] = episodes[v]
  BY <1>1
<1>2. CASE ReserveEpisode
  <2>1. episodes' = [episodes EXCEPT ![task.cur + 1] = Reserved(task.cur + 1)]
        /\ episodes[task.cur + 1] = None
    BY <1>2 DEF ReserveEpisode
  <2>2. episodes'[v] = episodes[v]
    BY <1>0, <2>1
  <2> QED BY <2>2
<1>3. ASSUME NEW w \in Versions, NEW status \in Active \cup {"COMPLETED", "FAILED"},
             episodes[w].status # "COMPLETED", Becomes(w, status)
      PROVE  \/ episodes'[v] = episodes[v]
             \/ /\ w = v /\ episodes'[v] = [episodes[v] EXCEPT !.status = status]
  BY <1>0, <1>3 DEF Becomes
<1>4. ASSUME NEW status \in Active \cup {"COMPLETED", "FAILED"},
             episodes'[v] = [episodes[v] EXCEPT !.status = status]
      PROVE  /\ episodes'[v] # None
             /\ episodes'[v].parent = episodes[v].parent
             /\ episodes'[v].review = episodes[v].review
             /\ episodes'[v].plan = episodes[v].plan
  <2>1. episodes[v] \in EpisodeRecords
    BY <1>0
  <2>2. /\ episodes'[v] \in EpisodeRecords /\ episodes'[v].parent = episodes[v].parent
        /\ episodes'[v].review = episodes[v].review /\ episodes'[v].plan = episodes[v].plan
    BY <1>4, <2>1 DEF EpisodeRecords
  <2> QED BY <1>0, <2>2
<1>5. CASE \E w \in Versions, status \in Active \cup {"COMPLETED", "FAILED"} :
              /\ episodes[w] # None /\ episodes[w].status # "COMPLETED"
              /\ Becomes(w, status)
  BY <1>1, <1>3, <1>4, <1>5
<1> QED BY <1>1, <1>2, <1>5, EpisodesChange DEF Change

\* What RevisesItsParent says of one record.
Revises(v) ==
    LET e == episodes[v] IN
    /\ e.parent < v /\ StatusIs(e.parent, {"COMPLETED"})
    /\ e.review = e.parent /\ e.review \in reviews
    /\ e.plan # None /\ e.plan.source = e.parent /\ e.plan \in strategies
    /\ Usable(e.review) # {}

LEMMA RevisesKept ==
    ASSUME IInv, [Next]_vars, NEW v \in Versions, episodes[v] # None, episodes[v].parent # 0,
           Revises(v)
    PROVE  Revises(v)'
<1> DEFINE p == episodes[v].parent
<1>1. p \in Versions /\ episodes[p] # None /\ episodes[p].status = "COMPLETED"
  <2>1. episodes[v] \in EpisodeRecords
    BY DEF IInv, Typed, TypeOK
  <2> QED BY <2>1 DEF EpisodeRecords, Revises, StatusIs
<1>2. episodes'[p] # None /\ episodes'[p].status = "COMPLETED"
  BY <1>1, EpisodesKeep
<1>3. /\ episodes'[v].parent = p /\ episodes'[v].review = episodes[v].review
      /\ episodes'[v].plan = episodes[v].plan
  BY EpisodesKeep
<1>4. Grows
  BY RecordsGrow
<1>5. Usable(episodes[v].review) # {} => Usable(episodes[v].review)' # {}
  BY <1>3, <1>4 DEF Usable, Grows
<1> QED BY <1>2, <1>3, <1>4, <1>5 DEF Revises, StatusIs, Grows

LEMMA RevisesStep == IInv /\ RevisesItsParent /\ [Next]_vars => RevisesItsParent'
<1> SUFFICES ASSUME IInv, RevisesItsParent, [Next]_vars,
                    NEW v \in Versions, episodes'[v] # None, episodes'[v].parent # 0
             PROVE  Revises(v)'
  BY DEF RevisesItsParent, Revises
<1>1. CASE episodes[v] # None
  <2>1. episodes[v].parent # 0
    BY <1>1, EpisodesKeep
  <2>2. Revises(v)
    BY <1>1, <2>1 DEF RevisesItsParent, Revises
  <2> QED BY <1>1, <2>1, <2>2, RevisesKept
<1>2. CASE episodes[v] = None
  <2>0. episodes \in [Versions -> EpisodeRecords \cup {None}]
    BY DEF IInv, Typed, TypeOK
  <2>1. ReserveEpisode
    <3>1. ASSUME NEW w \in Versions, NEW status, episodes[w] # None, Becomes(w, status)
          PROVE  FALSE
      BY <1>2, <2>0, <3>1 DEF Becomes
    <3> QED BY <1>2, <3>1, EpisodesChange DEF Change
  <2>2. /\ episodes' = [episodes EXCEPT ![task.cur + 1] = Reserved(task.cur + 1)]
        /\ task.cur + 1 \in Versions
        /\ task.last # 0 => ConfirmedContext
        /\ task.status # "RUNNING" /\ UNCHANGED reviewVars
    BY <2>1, ManifestFacts DEF ReserveEpisode
  <2>3. v = task.cur + 1 /\ episodes'[v] = Reserved(v)
    BY <1>2, <2>0, <2>2
  <2>4. /\ episodes'[v].parent = task.last /\ episodes'[v].review = LastOf(task.feedback)
        /\ episodes'[v].plan = LastOf(task.plans)
    BY <2>3 DEF Reserved
  <2>5. /\ task.last # 0 /\ Confirmed
    BY <2>2, <2>4, ConfirmedMeans DEF IInv
  <2>6. task.last < v /\ task.last \in Versions
    BY <2>2, <2>3, <2>5, RestingFacts, ManifestFacts DEF Versions
  <2>7. StatusIs(task.last, {"COMPLETED"}) /\ episodes'[task.last] = episodes[task.last]
    BY <2>0, <2>2, <2>3, <2>5, <2>6, ManifestFacts DEF IInv, Records
  <2>8. LastOf(task.feedback) = task.last /\ task.last \in reviews'
    <3>1. LastOf(task.feedback) = task.last /\ task.last # None
      BY <2>5, <2>6, ManifestFacts DEF Confirmed, Versions
    <3>2. task.feedback # <<>> /\ task.feedback \in Seq(Versions)
      BY <3>1, ManifestFacts DEF LastOf
    <3>3. Len(task.feedback) \in DOMAIN task.feedback
      BY <3>2, EmptySeq, LenProperties
    <3> QED BY <2>2, <3>1, <3>2, <3>3 DEF LastOf, IInv, Reviewed, reviewVars
  <2>9. Usable(task.last)' # {}
    <3>1. \E c \in compilations' : c.review = task.last /\ c.usable
      BY <2>2, <2>5 DEF Confirmed, reviewVars
    <3>2. task'.last = task.last
      BY <2>1 DEF ReserveEpisode, Saved, Dies, IInv, Typed, TypeOK, Manifests
    <3> QED BY <3>1, <3>2 DEF Usable
  <2>10. task'.last = task.last
    BY <2>1 DEF ReserveEpisode, Saved, Dies, IInv, Typed, TypeOK, Manifests
  <2> QED BY <2>2, <2>4, <2>5, <2>6, <2>7, <2>8, <2>9, <2>10
          DEF Revises, StatusIs, Confirmed, Usable, reviewVars
<1> QED BY <1>1, <1>2

\* Each revised episode applies the review of its own parent, and the plan that came
\* from it, however often an attempt failed and was retried (service.py:974-1096).
THEOREM EpisodesReviseTheirParent == Spec => []RevisesItsParent
<1>1. IInv /\ Init => RevisesItsParent
  BY DEF Init, RevisesItsParent
<1> QED BY <1>1, BoundsAssumption, IInvariant, RevisesStep, PTL DEF Spec

-----------------------------------------------------------------------------
(* Cancellation and evaluation leave the living alone.                      *)

LEMMA CancelStep ==
    ASSUME IInv, [Next]_vars, NEW v \in owners \cap owners',
           StatusIs(v, Active), episodes'[v].status = "FAILED"
    PROVE  looked = v
<1>0. v \in Versions /\ episodes[v] # None /\ episodes[v].status # "FAILED"
  BY DEF IInv, Typed, TypeOK, StatusIs, Active
<1>1. episodes' # episodes /\ episodes \in [Versions -> EpisodeRecords \cup {None}]
  BY <1>0 DEF IInv, Typed, TypeOK
<1>2. CASE ReserveEpisode
  BY <1>0, <1>1, <1>2 DEF ReserveEpisode
<1>3. CASE Cancel
  BY <1>0, <1>1, <1>3 DEF Cancel, Becomes, TokenMatches
<1>4. ASSUME NEW w \in Versions, OwnerStep(w)
      PROVE  FALSE
  <2>1. CASE MarkRunning(w)
    <3>1. episodes[w] # None /\ Becomes(w, "RUNNING")
      BY <2>1, RunningFacts DEF MarkRunning, IInv, BoundsAssumption
    <3>2. episodes'[w].status = "RUNNING" /\ \A x \in Versions \ {w} : episodes'[x] = episodes[x]
      BY <3>1, BecomesMeans DEF Active
    <3> QED BY <1>0, <3>2
  <2>2. CASE CompleteEpisode(w) \/ FailEpisode(w) \/ OwnerRefused(w)
    BY <1>0, <1>1, <2>2 DEF CompleteEpisode, FailEpisode, OwnerRefused, Becomes
  <2> QED BY <1>4, <2>1, <2>2 DEF OwnerStep
<1>5. CASE Reconcile \/ CancelLook \/ CancelRefused \/ Stop \/ Reopen
           \/ \E w \in Versions : OwnerDies(w) \/ Accept(w)
  BY <1>1, <1>5 DEF Reconcile, CancelLook, CancelRefused, Stop, Reopen, OwnerDies, Accept, mainVars
<1>6. CASE Review
  <2>1. CASE AttachFeedback \/ CompileStart \/ CompileAgain
    BY <1>1, <2>1 DEF AttachFeedback, CompileStart, CompileAgain, mainVars
  <2>2. CASE ConfirmRevision
    BY <1>1, <2>2 DEF ConfirmRevision, mainVars
  <2>3. CASE \E w \in Versions : CompileAbandoned(w)
    BY <1>1, <2>3 DEF CompileAbandoned, mainVars
  <2>4. CASE \E w \in Versions : \E usable \in BOOLEAN : SaveCompilation(w, usable)
    BY <1>1, <2>4 DEF SaveCompilation, mainVars
  <2> QED BY <1>6, <2>1, <2>2, <2>3, <2>4 DEF Review
<1>7. CASE Evaluation
  BY <1>1, <1>7 DEF Evaluation, ClaimEvaluation, MarkEvaluationRunning, CompleteEvaluation,
                    FailEvaluation, EvaluationEnds, EvaluatorDies, mainVars
<1>8. CASE UNCHANGED vars
  BY <1>1, <1>8 DEF vars
<1> QED BY <1>2, <1>3, <1>4, <1>5, <1>6, <1>7, <1>8 DEF Next

\* A cancel ends only the episode whose owner the operator looked at
\* (cli/evolve.py:850-856).
THEOREM CancelIsAimed == Spec => CancelHitsWhatItSaw
<1>1. IInv /\ [Next]_vars =>
          [\A v \in owners \cap owners' :
              StatusIs(v, Active) /\ episodes'[v].status = "FAILED" => looked = v]_vars
  BY CancelStep
<1> QED BY <1>1, BoundsAssumption, IInvariant, PTL DEF Spec, CancelHitsWhatItSaw

\* One evaluation of a live evaluator, in a step that changes it.
LEMMA ReclaimStep ==
    ASSUME IInv, [Next]_vars, NEW n \in 1..MaxEvaluations,
           evaluations[n] # None, evaluations[n].status \in Active,
           evaluators[evaluations[n].owner] = "active", evaluations'[n] # evaluations[n]
    PROVE  /\ evaluations'[n].owner = evaluations[n].owner
           /\ evaluations'[n].status = "FAILED" => evaluators'[evaluations[n].owner] = "gone"
<1>0. /\ evaluations \in [1..MaxEvaluations -> EvaluationRecords \cup {None}]
      /\ evaluations[n].owner \in Evaluators
      /\ evaluators \in [Evaluators -> {"new", "active", "gone"}]
  BY DEF IInv, Typed, TypeOK, EvaluationRecords
<1>1. lease # None
  BY <1>0 DEF IInv, Leased, BoundsAssumption, Evaluators
<1>2. ASSUME NEW e \in Evaluators, NEW plan \in Plans, ClaimEvaluation(e, plan)
      PROVE  FALSE
  BY <1>1, <1>2, ClaimFacts
<1>3. ASSUME NEW e \in Evaluators, NEW m \in 1..MaxEvaluations, NEW from, NEW status,
             EvaluationEnds(e, m, from, status)
      PROVE  /\ m = n /\ evaluations[n].owner = e
             /\ evaluations'[n].owner = e /\ evaluations'[n].status = status
  <2>1. evaluations' = [evaluations EXCEPT ![m].status = status] /\ evaluations[m].owner = e
    BY <1>3 DEF EvaluationEnds
  <2>2. m = n
    BY <1>0, <2>1
  <2>3. evaluations[n] \in EvaluationRecords
    BY <1>0
  <2>4. evaluations'[n] = [evaluations[n] EXCEPT !.status = status]
    BY <1>0, <2>1, <2>2
  <2> QED BY <2>1, <2>2, <2>3, <2>4 DEF EvaluationRecords
<1>4. ASSUME NEW e \in Evaluators, NEW m \in 1..MaxEvaluations,
             \/ MarkEvaluationRunning(e, m) \/ CompleteEvaluation(e, m) \/ FailEvaluation(e, m)
      PROVE  /\ evaluations'[n].owner = evaluations[n].owner
             /\ evaluations'[n].status = "FAILED" => evaluators'[evaluations[n].owner] = "gone"
  <2>1. CASE MarkEvaluationRunning(e, m)
    BY <1>3, <2>1 DEF MarkEvaluationRunning
  <2>2. CASE CompleteEvaluation(e, m)
    BY <1>3, <2>2 DEF CompleteEvaluation
  <2>3. CASE FailEvaluation(e, m)
    BY <1>0, <1>3, <2>3 DEF FailEvaluation, Leaves
  <2> QED BY <1>4, <2>1, <2>2, <2>3
<1>5. ASSUME NEW e \in Evaluators, EvaluatorDies(e)
      PROVE  FALSE
  BY <1>5 DEF EvaluatorDies
<1> QED BY <1>2, <1>4, <1>5, EvaluationsKeep DEF Evaluation

\* An evaluation is taken over, or failed in its evaluator's name, only when that
\* evaluator is gone: while it lives it holds the lease (service.py:663-722).
THEOREM TheLivingKeepTheirs == Spec => OnlyTheDeadAreReclaimed
<1> DEFINE A == \A n \in 1..MaxEvaluations :
                   /\ evaluations[n] # None /\ evaluations[n].status \in Active
                   /\ evaluators[evaluations[n].owner] = "active"
                   /\ evaluations'[n] # evaluations[n]
                   => /\ evaluations'[n].owner = evaluations[n].owner
                      /\ evaluations'[n].status = "FAILED" =>
                             evaluators'[evaluations[n].owner] = "gone"
<1>1. IInv /\ [Next]_vars => [A]_vars
  BY ReclaimStep
<1> QED BY <1>1, BoundsAssumption, IInvariant, PTL DEF Spec, OnlyTheDeadAreReclaimed
=============================================================================
