--------------------------- MODULE ExpertEvolution ---------------------------
(***************************************************************************)
(* The expert-feedback evolution of one task                               *)
(* (scientific/evolution/service.py, store.py, executor.py, cli/evolve.py).*)
(*                                                                         *)
(* A task runs a first episode, an expert reviews the result, the review   *)
(* is compiled into a revision plan with a strategy, and the next episode  *)
(* applies it.  Everything is kept in files: one manifest per task and one *)
(* record per episode, review, compilation, strategy and evaluation.       *)
(* Every operation holds the lock of the task, so operations do not        *)
(* interleave; but each file is replaced on its own, records first and the *)
(* manifest last, and a process can die between two replacements, or while *)
(* its episode runs.  The commands of other processes go on meanwhile.     *)
(*                                                                         *)
(* An episode is named by its version; 0 is "none".  A plan stands for the *)
(* revision and the strategy confirmed together: the version reviewed and  *)
(* how many observations of other tasks the strategy was chosen from.      *)
(***************************************************************************)
EXTENDS Naturals, Sequences, FiniteSets, SequencesExt

CONSTANTS MaxEpisodes,      \* versions of the task
          MaxEvaluations,   \* fresh evaluations of the task
          MaxEvaluators,    \* invocations of "evaluate", numbered as they come
          MaxCompiling,     \* invocations of "compile" in flight at once
          MaxCompilations,  \* compilation attempts that are recorded
          MaxObservations,  \* observations other tasks can have added
          MaxDeaths,        \* processes that die
          None              \* "no record", "nobody"

Versions    == 1..MaxEpisodes
Evaluators  == 1..MaxEvaluators
Checkpoints == {"CREATED", "AWAITING", "FEEDBACK_RECORDED", "REVISION_READY"}
Statuses    == Checkpoints \cup {"RUNNING", "BLOCKED", "STOPPED", "ACCEPTED"}
Active      == {"RESERVED", "RUNNING"}
Plans       == [source : Versions, seen : 0..MaxObservations]

Manifests ==
    [status : Statuses, resume : Checkpoints \cup {None},
     cur : 0..MaxEpisodes, last : 0..MaxEpisodes, feedback : Seq(Versions),
     compiled : SUBSET (1..MaxCompilations), plans : Seq(Plans), evals : 0..MaxEvaluations]

EpisodeRecords ==
    [status : Active \cup {"COMPLETED", "FAILED"}, parent : {0} \cup Versions,
     review : {None} \cup Versions, plan : {None} \cup Plans]

EvaluationRecords ==
    [status : Active \cup {"COMPLETED", "FAILED"}, owner : Evaluators,
     parent : Versions, plan : Plans]

ASSUME BoundsAssumption ==
    /\ {MaxEpisodes, MaxEvaluations, MaxEvaluators, MaxCompiling, MaxCompilations}
           \subseteq Nat \ {0}
    /\ {MaxObservations, MaxDeaths} \subseteq Nat
    /\ None \notin Nat /\ None \notin Checkpoints
    /\ None \notin Plans /\ None \notin EpisodeRecords /\ None \notin EvaluationRecords

VARIABLES task,          \* the manifest
          episodes,      \* the record of each version
          owners,        \* versions whose owning invocation is alive
          reviews,       \* versions with a feedback record
          compilations,  \* the compilation records
          compiling,     \* how many "compile" in flight work on each review
          strategies,    \* the strategy records
          looked,        \* the version whose owner token a "cancel" has read
          evaluations,   \* the record of each evaluation
          evaluators,    \* "new", "active" or "gone"
          lease,         \* the evaluator that holds the evaluation lease
          deaths

vars == <<task, episodes, owners, reviews, compilations, compiling, strategies,
          looked, evaluations, evaluators, lease, deaths>>

mainVars   == <<episodes, owners>>
reviewVars == <<reviews, compilations, compiling, strategies>>
evalVars   == <<evaluations, evaluators, lease>>

Init ==
    /\ task = [status |-> "CREATED", resume |-> None, cur |-> 0, last |-> 0,
               feedback |-> <<>>, compiled |-> {}, plans |-> <<>>,
               evals |-> 0]
    /\ episodes = [v \in Versions |-> None]
    /\ owners = {} /\ reviews = {} /\ compilations = {} /\ strategies = {}
    /\ compiling = [v \in Versions |-> 0]
    /\ looked = 0 /\ deaths = 0
    /\ evaluations = [n \in 1..MaxEvaluations |-> None]
    /\ evaluators = [e \in Evaluators |-> "new"]
    /\ lease = None

-----------------------------------------------------------------------------
(***************************************************************************)
(* The two fates of an operation between its last record and the manifest. *)
(***************************************************************************)
Saved(t) == task' = t /\ UNCHANGED deaths
Dies     == UNCHANGED task /\ deaths < MaxDeaths /\ deaths' = deaths + 1

\* The statuses of ALLOWED_TRANSITIONS, where the operations consult it.
Allowed(from, to) ==
    to \in CASE from = "CREATED"           -> {"RUNNING", "STOPPED"}
             [] from = "RUNNING"           -> {"AWAITING", "BLOCKED"}
             [] from = "AWAITING"          -> {"FEEDBACK_RECORDED", "ACCEPTED", "STOPPED"}
             [] from = "FEEDBACK_RECORDED" -> {"REVISION_READY", "ACCEPTED", "STOPPED"}
             [] from = "REVISION_READY"    -> {"RUNNING", "ACCEPTED", "STOPPED"}
             [] from = "BLOCKED"           -> {"AWAITING", "STOPPED"}
             [] OTHER                      -> {"AWAITING"}

LastOf(s) == IF s = <<>> THEN None ELSE s[Len(s)]

Usable(review) == {c \in compilations : c.review = review /\ c.usable}

\* The checkpoint a failed episode leaves: what a new attempt starts from.
RetryCheckpoint == IF task.last = 0 THEN "CREATED" ELSE "REVISION_READY"

\* The manifest after the current episode completed, or failed.
AfterCompletion(v) == [task EXCEPT !.status = "AWAITING", !.resume = None, !.last = v]
AfterFailure       == [task EXCEPT !.status = "BLOCKED", !.resume = RetryCheckpoint]

-----------------------------------------------------------------------------
(***************************************************************************)
(* Episodes: claimed, run and ended by the invocation that owns them.      *)
(***************************************************************************)

\* A revised episode starts from the confirmed state of the latest review.
ConfirmedContext ==
    /\ LastOf(task.feedback) = task.last
    /\ Cardinality({c \in Usable(task.last) : c.id \in task.compiled}) = 1
    /\ LastOf(task.plans) # None
    /\ LastOf(task.plans).source = task.last
    /\ LastOf(task.plans) \in strategies

\* Mutant of Reserved: the parent is the current version, failed or not.
ReservedOnCurrent(v) == [status |-> "RESERVED", parent |-> task.cur,
                         review |-> LastOf(task.feedback), plan |-> LastOf(task.plans)]

Reserved(v) == [status |-> "RESERVED", parent |-> task.last,
                review |-> LastOf(task.feedback), plan |-> LastOf(task.plans)]

\* "start" and "iterate".  The owner token is new for each invocation, so a
\* record that an earlier invocation left under this version is a conflict.
ReserveEpisode ==
    LET v == task.cur + 1 IN
    /\ v \in Versions
    /\ task.status = RetryCheckpoint
    /\ task.last # 0 => ConfirmedContext
    /\ episodes[v] = None
    /\ Allowed(task.status, "RUNNING")
    /\ episodes' = [episodes EXCEPT ![v] = Reserved(v)]
    /\ \/ /\ Saved([task EXCEPT !.status = "RUNNING", !.resume = None, !.cur = v])
          /\ owners' = owners \cup {v}
       \/ Dies /\ UNCHANGED owners
    /\ UNCHANGED <<reviewVars, looked, evalVars>>

Becomes(v, status) == episodes' = [episodes EXCEPT ![v].status = status]

MarkRunning(v) ==
    /\ v \in owners /\ task.cur = v /\ task.status = "RUNNING"
    /\ episodes[v].status = "RESERVED"
    /\ Becomes(v, "RUNNING")
    /\ UNCHANGED <<task, owners, reviewVars, looked, evalVars, deaths>>

\* The owner records the end of its episode, then the manifest, and is done.
CompleteEpisode(v) ==
    /\ v \in owners /\ task.cur = v /\ task.status = "RUNNING"
    /\ episodes[v].status = "RUNNING"
    /\ Becomes(v, "COMPLETED")
    /\ Saved(AfterCompletion(v)) \/ Dies
    /\ owners' = owners \ {v}
    /\ UNCHANGED <<reviewVars, looked, evalVars>>

\* An exception ends the episode; one already FAILED by a cancel that died is kept.
FailEpisode(v) ==
    /\ v \in owners /\ task.cur = v /\ task.status = "RUNNING"
    /\ episodes[v].status \in Active \cup {"FAILED"}
    /\ Becomes(v, "FAILED")
    /\ Saved(AfterFailure) \/ Dies
    /\ owners' = owners \ {v}
    /\ UNCHANGED <<reviewVars, looked, evalVars>>

\* The episode was ended by somebody else: each write of the owner is refused.
OwnerRefused(v) ==
    /\ v \in owners
    /\ task.cur # v \/ task.status # "RUNNING"
    /\ owners' = owners \ {v}
    /\ UNCHANGED <<task, episodes, reviewVars, looked, evalVars, deaths>>

OwnerDies(v) ==
    /\ v \in owners
    /\ Dies
    /\ owners' = owners \ {v}
    /\ UNCHANGED <<episodes, reviewVars, looked, evalVars>>

\* "start --resume", and every execution before it starts.
Reconcile ==
    /\ task.status = "RUNNING"
    /\ \/ episodes[task.cur].status = "COMPLETED" /\ task' = AfterCompletion(task.cur)
       \/ episodes[task.cur].status = "FAILED" /\ task' = AfterFailure
    /\ UNCHANGED <<mainVars, reviewVars, looked, evalVars, deaths>>

-----------------------------------------------------------------------------
(***************************************************************************)
(* "cancel" reads the owner token of the current episode without the lock, *)
(* then cancels whatever episode is current by then.                       *)
(***************************************************************************)
CancelLook ==
    /\ looked = 0 /\ task.cur # 0
    /\ looked' = task.cur
    /\ UNCHANGED <<task, mainVars, reviewVars, evalVars, deaths>>

\* Mutant of TokenMatches: the owner check of cancel is left out.
TokenIgnored == looked # 0

\* The token read belongs to the episode that is cancelled.
TokenMatches == looked = task.cur

\* Mutant of Cancellable: a record already failed is refused.
CancellableIfActive == Active

\* The records a cancel turns into, or keeps as, a failed episode.
Cancellable == Active \cup {"FAILED"}

Cancel ==
    /\ looked # 0
    /\ TokenMatches /\ task.status = "RUNNING"
    /\ looked' = 0
    /\ \/ /\ episodes[task.cur].status = "COMPLETED"
          /\ Saved(AfterCompletion(task.cur)) /\ UNCHANGED episodes
       \/ /\ episodes[task.cur].status \in Cancellable
          /\ Becomes(task.cur, "FAILED")
          /\ Saved(AfterFailure) \/ Dies
    /\ UNCHANGED <<owners, reviewVars, evalVars>>

CancelRefused ==
    /\ looked # 0
    /\ ~TokenMatches \/ task.status # "RUNNING"
    /\ looked' = 0
    /\ UNCHANGED <<task, mainVars, reviewVars, evalVars, deaths>>

-----------------------------------------------------------------------------
(***************************************************************************)
(* The review of the result, its compilation and the confirmed revision.   *)
(***************************************************************************)

\* "feedback".  A record that a dead invocation left is found and linked.
AttachFeedback ==
    /\ task.status = "AWAITING"
    /\ episodes[task.cur].status = "COMPLETED"
    /\ reviews' = reviews \cup {task.cur}
    /\ \/ Saved([task EXCEPT !.status = "FEEDBACK_RECORDED",
                             !.feedback = Append(@, task.cur)])
       \/ task.cur \notin reviews /\ Dies
    /\ UNCHANGED <<mainVars, compilations, compiling, strategies, looked, evalVars>>

\* What "compile" needs before it asks the model.
CompilationContext ==
    /\ task.status = "FEEDBACK_RECORDED"
    /\ episodes[task.last].status = "COMPLETED"
    /\ task.last \in reviews /\ LastOf(task.feedback) = task.last

Linked(id) == [task EXCEPT !.compiled = @ \cup {id}]

CompileStart ==
    /\ CompilationContext /\ Usable(task.last) = {}
    /\ compiling[task.last] < MaxCompiling
    /\ compiling' = [compiling EXCEPT ![task.last] = @ + 1]
    /\ UNCHANGED <<task, mainVars, reviews, compilations, strategies, looked,
                   evalVars, deaths>>

\* A usable compilation exists already: it is linked instead of a new one.
CompileAgain ==
    /\ CompilationContext
    /\ \E found \in Usable(task.last) :
           found.id \notin task.compiled /\ Saved(Linked(found.id))
    /\ UNCHANGED <<mainVars, reviewVars, looked, evalVars>>

\* Mutant of Kept: each attempt is recorded, whatever succeeded meanwhile.
KeptAlways(new) == new

\* The compilation a save ends with: one that succeeded meanwhile, or the new one.
Kept(new) == IF Usable(new.review) = {} THEN new ELSE CHOOSE c \in Usable(new.review) : TRUE

CompileEnds(review) ==
    compiling[review] > 0 /\ compiling' = [compiling EXCEPT ![review] = @ - 1]

SaveCompilation(review, usable) ==
    LET new  == [id |-> Cardinality(compilations) + 1, review |-> review, usable |-> usable]
        kept == Kept(new)
    IN  /\ CompileEnds(review)
        /\ CompilationContext /\ task.last = review
        /\ kept.id <= MaxCompilations
        /\ compilations' = compilations \cup {kept}
        /\ \/ Saved(Linked(kept.id))
           \/ kept \notin compilations /\ Dies
        /\ UNCHANGED <<mainVars, reviews, strategies, looked, evalVars>>

\* The task moved on while the model compiled, or the process dies.
CompileAbandoned(review) ==
    /\ CompileEnds(review)
    /\ \/ ~(CompilationContext /\ task.last = review) /\ UNCHANGED <<task, deaths>>
       \/ Dies
    /\ UNCHANGED <<mainVars, reviews, compilations, strategies, looked, evalVars>>

\* Another strategy of this revision is recorded: the confirmation conflicts.
Competing(plan) == \E s \in strategies : s.source = plan.source /\ s # plan

\* The strategy is chosen again under the lock, from the observations of other
\* tasks that there are by then.
ConfirmRevision ==
    \E known \in 0..MaxObservations : LET plan == [source |-> task.last, seen |-> known] IN
    /\ CompilationContext
    /\ Cardinality({c \in Usable(task.last) : c.id \in task.compiled}) = 1
    /\ ~Competing(plan)
    /\ strategies' = strategies \cup {plan}
    /\ \/ Saved([task EXCEPT !.status = "REVISION_READY", !.plans = Append(@, plan)])
       \/ plan \notin strategies /\ Dies
    /\ UNCHANGED <<mainVars, reviews, compilations, compiling, looked, evalVars>>

-----------------------------------------------------------------------------
(***************************************************************************)
(* Leaving the lifecycle and coming back to the same checkpoint.           *)
(***************************************************************************)

\* Any completed version can be accepted; which one is only shown.
Accept(v) ==
    /\ task.status \in {"AWAITING", "FEEDBACK_RECORDED", "REVISION_READY"}
    /\ v <= task.cur /\ episodes[v].status = "COMPLETED"
    /\ task' = [task EXCEPT !.status = "ACCEPTED", !.resume = task.status]
    /\ UNCHANGED <<mainVars, reviewVars, looked, evalVars, deaths>>

\* The checkpoint a stop remembers: of a paused task, the one it has.
PauseCheckpoint == IF task.resume = None THEN task.status ELSE task.resume

Stop ==
    /\ Allowed(task.status, "STOPPED")
    /\ task' = [task EXCEPT !.status = "STOPPED", !.resume = PauseCheckpoint]
    /\ UNCHANGED <<mainVars, reviewVars, looked, evalVars, deaths>>

\* Mutant of Reopened: the status the transition table names for a pause.
ReopenedForReview == [task EXCEPT !.status = "AWAITING", !.resume = None]

Reopened == [task EXCEPT !.status = task.resume, !.resume = None]

Reopen ==
    /\ task.status \in {"ACCEPTED", "STOPPED", "BLOCKED"}
    /\ task' = Reopened
    /\ UNCHANGED <<mainVars, reviewVars, looked, evalVars, deaths>>

-----------------------------------------------------------------------------
(***************************************************************************)
(* Fresh evaluations of a confirmed strategy, apart from the episodes.     *)
(***************************************************************************)
NewEvaluation(e, plan) ==
    [status |-> "RESERVED", owner |-> e, parent |-> task.last, plan |-> plan]

\* The current evaluation, if a dead evaluator left it active, and the next one.
Current == IF task.evals = 0 THEN None ELSE evaluations[task.evals]

\* Mutant of LeaseFree: an evaluation starts without the lease.
LeaseIgnored == TRUE

\* The lease is exclusive, and the system gives it back when its holder dies.
LeaseFree == lease = None

\* e ends: with its invocation, the lease.
Leaves(e) ==
    /\ evaluators' = [evaluators EXCEPT ![e] = "gone"]
    /\ lease' = IF lease = e THEN None ELSE lease

\* The evaluation number n, left RESERVED, is taken over: its owner changes, and
\* then it must be the evaluation that this invocation would have reserved.
TakeOver(n, e, plan) ==
    /\ evaluations' = [evaluations EXCEPT ![n].owner = e]
    /\ \/ /\ evaluations[n].parent = task.last /\ evaluations[n].plan = plan
          /\ Saved([task EXCEPT !.evals = n])
          /\ evaluators' = [evaluators EXCEPT ![e] = "active"] /\ lease' = e
       \/ /\ evaluations[n].parent # task.last \/ evaluations[n].plan # plan
          /\ UNCHANGED <<task, deaths>> /\ Leaves(e)
       \/ Dies /\ Leaves(e)

\* The next evaluation is recorded; one left RUNNING is recorded FAILED first.
ReserveNext(e, plan) ==
    LET n      == task.evals + 1
        failed == IF Current # None /\ Current.status = "RUNNING"
                  THEN [evaluations EXCEPT ![task.evals].status = "FAILED"]
                  ELSE evaluations
    IN  /\ n <= MaxEvaluations /\ evaluations[n] = None
        /\ \/ /\ evaluations' = [failed EXCEPT ![n] = NewEvaluation(e, plan)]
              /\ \/ /\ Saved([task EXCEPT !.evals = n])
                    /\ evaluators' = [evaluators EXCEPT ![e] = "active"] /\ lease' = e
                 \/ Dies /\ Leaves(e)
           \/ failed # evaluations /\ evaluations' = failed /\ Dies /\ Leaves(e)

\* "evaluate --fresh" of a strategy the manifest links.
ClaimEvaluation(e, plan) ==
    /\ evaluators[e] = "new" /\ \A f \in Evaluators : f < e => evaluators[f] # "new"
    /\ LeaseFree
    /\ task.status = "REVISION_READY"
    /\ plan \in ToSet(task.plans) /\ plan \in strategies
    /\ \/ Current # None /\ Current.status = "RESERVED" /\ TakeOver(task.evals, e, plan)
       \/ /\ Current # None => Current.status # "RESERVED"
          /\ \/ ReserveNext(e, plan)
             \/ /\ task.evals < MaxEvaluations /\ evaluations[task.evals + 1] # None
                /\ Current # None => Current.status # "RUNNING"
                /\ TakeOver(task.evals + 1, e, plan)
    /\ UNCHANGED <<mainVars, reviewVars, looked>>

EvaluationEnds(e, n, from, status) ==
    /\ evaluators[e] = "active"
    /\ evaluations[n] # None /\ evaluations[n].owner = e
    /\ evaluations[n].status \in from
    /\ evaluations' = [evaluations EXCEPT ![n].status = status]
    /\ UNCHANGED <<task, mainVars, reviewVars, looked, deaths>>

MarkEvaluationRunning(e, n) ==
    EvaluationEnds(e, n, {"RESERVED"}, "RUNNING") /\ UNCHANGED <<evaluators, lease>>

CompleteEvaluation(e, n) == EvaluationEnds(e, n, {"RUNNING"}, "COMPLETED") /\ Leaves(e)

FailEvaluation(e, n) == EvaluationEnds(e, n, Active, "FAILED") /\ Leaves(e)

EvaluatorDies(e) ==
    /\ evaluators[e] = "active"
    /\ Dies /\ Leaves(e)
    /\ UNCHANGED <<mainVars, reviewVars, looked, evaluations>>

-----------------------------------------------------------------------------
OwnerStep(v) == MarkRunning(v) \/ CompleteEpisode(v) \/ FailEpisode(v) \/ OwnerRefused(v)

Review ==
    \/ AttachFeedback \/ CompileStart \/ CompileAgain \/ ConfirmRevision
    \/ \E v \in Versions : \/ CompileAbandoned(v)
                          \/ \E usable \in BOOLEAN : SaveCompilation(v, usable)

Evaluation ==
    \E e \in Evaluators :
        \/ \E plan \in Plans : ClaimEvaluation(e, plan)
        \/ \E n \in 1..MaxEvaluations :
               \/ MarkEvaluationRunning(e, n) \/ CompleteEvaluation(e, n)
               \/ FailEvaluation(e, n)
        \/ EvaluatorDies(e)

Next ==
    \/ ReserveEpisode \/ Reconcile \/ CancelLook \/ Cancel \/ CancelRefused
    \/ \E v \in Versions : OwnerStep(v) \/ OwnerDies(v) \/ Accept(v)
    \/ Review \/ Stop \/ Reopen \/ Evaluation

Spec == Init /\ [][Next]_vars

\* An invocation that is alive goes on with its episode, and an operator who finds
\* the task running under a dead owner cancels it.
FairSpec ==
    /\ Spec
    /\ \A v \in Versions : WF_vars(OwnerStep(v))
    /\ WF_vars(task.status = "RUNNING" /\ task.cur \notin owners /\ CancelLook)
    /\ WF_vars(Cancel \/ CancelRefused)
-----------------------------------------------------------------------------
\* Each variable has its type: the manifest, the records and the processes.
TypeOK ==
    /\ task \in Manifests
    /\ episodes \in [Versions -> EpisodeRecords \cup {None}]
    /\ owners \subseteq Versions /\ reviews \subseteq Versions
    /\ compilations \subseteq
           [id : 1..MaxCompilations, review : Versions, usable : BOOLEAN]
    /\ compiling \in [Versions -> 0..MaxCompiling] /\ strategies \subseteq Plans
    /\ looked \in 0..MaxEpisodes /\ deaths \in 0..MaxDeaths
    /\ evaluations \in [1..MaxEvaluations -> EvaluationRecords \cup {None}]
    /\ evaluators \in [Evaluators -> {"new", "active", "gone"}]
    /\ lease \in Evaluators \cup {None}

\* Where the task stands, or will stand again when it is reopened.
Stands == IF task.resume = None THEN task.status ELSE task.resume

StatusIs(v, set) == episodes[v] # None /\ episodes[v].status \in set

\* The manifest and the episode records agree on what happened, whatever process
\* died between two writes, and however the task was paused and reopened: a pause
\* remembers a checkpoint that is true, only the current episode of a running task is
\* open, the last completed version is the latest that completed, and at most one
\* record, reserved and not yet in the manifest, lies ahead of it
\* (service.py reconcile, cancel, stop, reopen: "the terminal episode is authoritative").
ManifestAgrees ==
    /\ TypeOK
    /\ (task.resume # None) <=> task.status \in {"BLOCKED", "STOPPED", "ACCEPTED"}
    /\ \A v \in Versions :
           /\ v < task.cur => StatusIs(v, {"COMPLETED", "FAILED"})
           /\ v = task.cur => StatusIs(v, IF task.status = "RUNNING"
                                          THEN Active \cup {"COMPLETED", "FAILED"}
                                          ELSE {"COMPLETED", "FAILED"})
           /\ v > task.cur => episodes[v] = None \/ (v = task.cur + 1
                                                     /\ StatusIs(v, {"RESERVED"}))
           /\ v > task.last /\ StatusIs(v, {"COMPLETED"}) =>
                  v = task.cur /\ task.status = "RUNNING"
    /\ task.last # 0 => StatusIs(task.last, {"COMPLETED"})
    /\ Stands = "CREATED" => task.last = 0
    /\ Stands \in {"AWAITING", "FEEDBACK_RECORDED"} => task.last = task.cur /\ task.cur # 0
    /\ Stands \in {"FEEDBACK_RECORDED", "REVISION_READY"} => LastOf(task.feedback) = task.last
    /\ Stands = "REVISION_READY" => ConfirmedContext

\* Each revised episode applies the review of its own parent: the parent completed,
\* was reviewed, the review was compiled once, and the plan comes from that review,
\* also when attempts failed and the version was retried (service.py:974-1096).
RevisesItsParent ==
    \A v \in Versions : episodes[v] # None /\ episodes[v].parent # 0 =>
        LET e == episodes[v] IN
        /\ e.parent < v /\ StatusIs(e.parent, {"COMPLETED"})
        /\ e.review = e.parent /\ e.review \in reviews
        /\ e.plan # None /\ e.plan.source = e.parent /\ e.plan \in strategies
        /\ Usable(e.review) # {}

\* A review has at most one usable compilation, however many invocations compile it
\* at once and whoever of them dies: with two, no revision could ever be confirmed
\* ("exactly one active AVAILABLE compilation", service.py:3075-3078).
OneUsableCompilation == \A v \in Versions : Cardinality(Usable(v)) <= 1

\* A cancel ends only the episode whose owner the operator looked at: not one that
\* another invocation claimed between the look and the cancel (cli/evolve.py:850-856).
CancelHitsWhatItSaw ==
    [][\A v \in owners \cap owners' :
           StatusIs(v, Active) /\ episodes'[v].status = "FAILED" => looked = v]_vars

\* An evaluation is taken from its evaluator, or failed in its name, only when that
\* evaluator is gone: while it lives it holds the lease (service.py:663-722).
OnlyTheDeadAreReclaimed ==
    [][\A n \in 1..MaxEvaluations :
           /\ evaluations[n] # None /\ evaluations[n].status \in Active
           /\ evaluators[evaluations[n].owner] = "active"
           /\ evaluations'[n] # evaluations[n]
           => /\ evaluations'[n].owner = evaluations[n].owner
              /\ evaluations'[n].status = "FAILED" =>
                     evaluators'[evaluations[n].owner] = "gone"]_vars

\* A running task settles: its owner ends it, or, when the owner died at whatever
\* point, a cancel does, from each state the death can leave (service.py:1355-1451).
RunSettles == task.status = "RUNNING" ~> task.status # "RUNNING"
=============================================================================
