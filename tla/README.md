# PhotomatAgent: specifications and proofs

TLA+ models of the stateful parts of PhotomatAgent, model-checked with TLC and,
where they carry the most weight, proved with TLAPS. Paths below are relative to
`src/src/photomatagent/`.

PhotomatAgent is an agent runtime for photoelectric materials research. Most of its
code computes (property calculators, input generators, parsers, prompts). What can
go wrong between two steps lives in a few places: jobs sent to a Slurm cluster over
ssh and remembered in SQLite, runs executed by a background worker of the local
workbench, and long multi-step workflows that persist their progress in files.

## Inventory

| component | state it keeps | operations | what is hard | what makes it correct |
|---|---|---|---|---|
| **Remote submission lifecycle** `scientific/remote/{lifecycle,registry,monitor}.py` | table `job_registry`: request id -> lifecycle state, job id, unique remote directory; monitors in memory | `submit_once`, forced attempts, `reconcile`, `refresh_status`, `mark_result_state`, `JobMonitor.start` | awaits between reading a row and acting on it; ambiguous sbatch timeouts; crashes between commits; several processes on one registry | a request never gets two jobs; a row keeps the job it names; results come from the job's own directory; failures are real |
| **Slurm and ssh transport** `scientific/remote/{scnet,scheduler}.py` | the cluster's job table and directories | `sbatch`, `squeue`, `sacct`, uploads | lost replies, commands that outlive their client, outages that look like answers | what a command prints is what the lifecycle may conclude |
| **Workbench runs** `application/{store,runner,service}.py` | SQLite: runs, request keys, event log; memory: queue, running task, worker thread, pending approvals | start, resume, cancel, resolve approval, start and stop of the manager | two event loops in two threads; cancellation in every phase; retries; restarts | one active run per task; executed once; a cancelled run never succeeds; an end is told once, and is final; runs settle |
| **QD evolution events** `scientific/evolution/qd/` | files under `.photomatagent/qd`: trials with revisions, proposal batches, budget ledger, archive | `run_event`, `consider`, `mark_used`, ledger `reserve_with_cap`/`settle`/`begin` | coordinators that die and rerun, leases, compare-and-set on an index, orphan revisions | nothing is executed or paid twice, caps hold, the archive only improves and never loses a validated result |
| **Unified VASP workflow** `scientific/applications/vasp/unified/` | a manifest per workflow (state, state and request of each stage), approvals, rows of the job registry | prepare, preflight, submit, approve, status and wait, resume, collect | every tool saves a new revision after it acted outside; lost sbatch replies, failed queries, forced attempts, deaths before the save | a stage runs only on validated results, only when approved, and again only after a failure, but for jobs the registry lost sight of; a wait ends |
| **Agent runtime** `runtime/` | conversation, compaction cursor, counters of the run, session snapshot | one turn: build a request, answer, tool calls; compaction; restore | interruption at every await, compaction over a trimmed copy, restart from a snapshot, counters that reset each other | calls and results stay paired in the history and in each request; a session comes back; a run ends and reports what it reached |
| **Closed research loop** `application/closed_loop.py` | rounds, last delivery check | run, check delivery, repair | verdicts of several rounds and a wall-time limit | a success was checked |
| **Expert evolution** `scientific/evolution/{service,store,executor}.py`, `cli/evolve.py` | a manifest and one record per episode, review, compilation, strategy and evaluation | create, start, iterate, feedback, compile, confirm, accept, stop, reopen, cancel, reconcile, evaluate | records are replaced before the manifest, owners and evaluators die, commands of several processes | manifest and records agree; each revision is of its own parent; nobody's work is ended by mistake |
| **Revision plans** `application/revisions.py` | rows of revision plans | prepare, compile, execute | compile timeout, source changed in between, crash while COMPILING | a plan runs at most once and only on the source it was made for |
| **Scientific loop** `scientific/loop/` | rounds, candidates, stagnation counters | `run` | caps and stop rules interact | it stops, for the reason it reports |
| **MCP manager** `mcp/` | server processes and their states | start, call, stop, close_all | per-server locks, owner loop, timeouts | no leaked server, no call after close |
| Capability acquisition, tools, models, CLI, web, experiments, other applications, calculators, web UI | see `PROJECT.json`, "components" | | mostly sequential or pure I/O | |

How they interact: the CLI and the web routes call the workbench service; a workbench
run executes one worker body at a time (agent runtime, closed loop or host operation)
on a worker thread; tools of that body call the VASP workflow, which submits through
`SubmitOnceSession`; a resume of an interrupted run first asks `application/recovery.py`
whether the job registry still has external computation under way.

The hazards of this code, each at its line and with the properties that watch it, are
the list "hazards" of `PROJECT.json`; the properties below were chosen from it.

## Modules

| module | models |
|---|---|
| `AtMostOnce` | the abstract promise of submit-once: per id free -> doubt -> bound, at most one acceptance |
| `SubmitOnce` | the submission lifecycle, the registry, the monitor, with Slurm and ssh as environment |
| `MCSubmitOnce` | model values and symmetry for TLC |
| `SubmitOnceProofs` | `TypeCorrect`, `OneDirectory`, `SerialOneJob`, `FailuresAreConfirmed`, `OwnResults`, `ParkedStaysParked`, `JobsStayIdentified`, and `SerialRefinesLedger` |
| `WorkbenchRuns` | store, run manager, worker thread, approvals, restart and resume |
| `MCWorkbenchRuns` | model values and symmetry for TLC |
| `WorkbenchProofs` | `TypeCorrect`, `NoLateWork`, `OneActiveRun`, `CancellationHonoured`, `ExecutedOnce`, `EndsAreTold`, `ApprovalsAreSettled` |
| `EvolutionEvents` | evolution coordinators, budget ledger, trials, proposal batches, archive |
| `MCEvolutionEvents` | symmetry for TLC |
| `EvolutionProofs` | `ExecutedAtMostOnce`, `LiveTrialLeftAlone`, `AskedAtMostOnce`, `NothingOnCredit`, `CellsOnlyImprove`, `RecoveryIsComplete` |
| `EvolutionBudgetProofs` | `BudgetKept`, and lemmas about sums over finite sets |
| `AgentTranscript`, `MCAgentTranscript` | the conversation of a session: history, requests, compaction, snapshot |
| `AgentProofs` | `HistoryIsPaired`, `CompactionIsWhole`, `RequestIsPaired` |
| `RunControl`, `MCRunControl` | when an agent run ends, in its closed loop and under its time limit, and as what |
| `RunControlProofs` | `TypeCorrect`, `BlockedRunIsBounded`, `SuccessIsDelivered` |
| `ExpertEvolution`, `MCExpertEvolution` | an expert-feedback task: episodes, reviews, compilations, revisions, evaluations |
| `ExpertProofs` | `TypeCorrect`, `ManifestIsTrue`, `OneCompilationIsUsed`, `EpisodesReviseTheirParent`, `CancelIsAimed`, `TheLivingKeepTheirs` |
| `VaspWorkflow`, `MCVaspWorkflow` | a staged VASP workflow over the job registry and the scheduler |
| `VaspProofs` | `TypeCorrect`, `StagesRunOnEvidence`, `RetriesAreAccounted`, `JobsAreApproved` |

The modules meet at named abstractions: `WorkbenchRuns` has the worker body as one
choice of outcomes, `RunControl` is that body; `RunControl` leaves the messages to
`AgentTranscript`, which leaves the reasons to stop to it; `VaspWorkflow` has a submission
as one step with the outcomes that `SubmitOnce` shows for one submitter, and `SubmitOnce`
implements `AtMostOnce`.

### SubmitOnce

State: `registry` is the table `job_registry` reduced to state, job id and directory (a
row that does not exist has state "none"); `jobs` is what Slurm knows, with the request
id of the job's marker; `late` are sbatch commands whose ssh client has given up;
`claimed` counts the timestamped directories handed out; `caller` holds each coroutine's
control point and locals.

One step is one registry transaction, one remote command as the cluster evaluates it, or
one local decision; between two steps of a coroutine there is an await or a commit. So
`submit_once` becomes `Submit` (the read that decides), `GateFails`/`GatePasses`
(`_store` -> `put`), `ClaimDirectory`/`DirectoryClash`, `StageFails`/`StageSucceeds`,
`Sbatch` (at the cluster) and `ApplySbatch` (in the registry). `reconcile` is
`ReconcileRead`, `QueryStatus`/`ApplyStatus` for a row with a job id, and
`Scan`/`ApplyScan` for the search by name. `put` forgets job id and directory, `update`
keeps absent columns and refuses another job id: `Put`, `Update`, `UpdateJob`.

Data is abstracted to what the properties tell apart. A request id is `<<r, n>>`, the
n-th forced attempt of r; `JobName` keeps only r because the code's job name keeps only
the first eight characters of the id. Uploads, digests and input checks are one step
that succeeds or fails. The preflight gate is a choice. `Crash` is the end of a process
or the cancellation of a coroutine: no handler of the lifecycle catches
`CancelledError`, so both leave the row as it was committed last. `LateSbatch`,
`SlurmOutage` and `ShortAccounting` switch three environment behaviours the code has no
defence against, so that what depends on their absence is visible: an sbatch that outlives
its ssh client, squeue and sacct both failing behind a working ssh, and a sacct that is
asked for a name without a start time and leaves out what ended before midnight
(`Listings`, scheduler.py:149).

That a claimed directory is new is an assumption of `ClaimDirectory`: its name carries the
time in microseconds, and the UNIQUE index of the table (registry.py:226-227) guards only
against rows of other requests, not against two claims of one request.

### WorkbenchRuns

State: `status`, `task`, `keys` and `log` are the tables runs, request_keys and events;
`proc`, `queue`, `running`, `worker`, `approval` live in memory and vanish with the
process; `reply` is the answer to the last start or resume request.

The owner loop is single-threaded, so a handler is one action up to its next await.
Where a handler makes two commits, `Commit` has a second outcome: the process dies in
between and only the first commit remains. The worker is a thread with its own loop and
takes a step at a time: `WorkerRegisters`, `WorkerChecksFlag`, a host operation or the
building of a runtime (`WorkerBuilds`) and then the body (`WorkerFinishes`, `WallTimeout`,
`WorkerAsks`), and the finally block (`WorkerCloses`, `CleanupCancelled`, `WorkerEnds`). The
wall-time limit surrounds the body only, so `WallTimeout` ends neither a host operation nor
a build; `worker.flag`, `.posted`, `.registered`, `.closing`
are `_worker_cancel_requested`, a `task.cancel` on its way, `_worker_tasks` and
`_worker_closing`. `Start`, `Interrupt`, `StartEnds` are the restart; `StartRun`,
`ResumeRun`, `ResumeRefused`, `CancelQueued`, `CancelRunning`, `ResolveApproval` are the
requests of clients, with idempotency keys that may be retried.

The branch of `_execute` for a run that is CANCEL_REQUESTED before it started is not
reachable (`cancel` makes a queued run CANCELLED without an await in between) and has no
action. `WAITING_INPUT` is never assigned.

### EvolutionEvents

State: the files are `ops` (the ledger: per event and operation what was reserved, what
was used, whether it was started), `trials` (the current revision of each trial),
`batches` (stored proposal batches) and `archive` (revision of the index, the entry of
each cell, and a revision file without a manifest). `lease` are the execution locks; `pc`,
`event`, `batch`, `genome` and `mem` are the program counter and the locals of each
coordinator. `executed`, `proposed`, `runs` and `beside` are history.

One step is one operation under the file lock of the ledger or of the store, or one
awaited answer. So `run_event` becomes `RunEvent`; `RecoverArchive`, `RecoverTrials`,
`Recover`, `Recovered` for `_recover_validated_trials`; `Entries`, `Seen`, `Round` for the
baseline and the head of the loop; `BatchOperation` ... `SettleBatch` for
`_proposal_batch` with `mark_used` (`MarkUsed`, `MarkRevision`, `MarkCommit`);
`Proposals`, `Proposal`, `Tried` for the loop over a batch; `TrialOperation` ...
`ReserveTrial` for `_trial`; `TrialLease`, `Leased*`, `Execute`, `Validate`, `SettleTrial`
for `_run_trial_leased`; `Consider`, `ConsiderRevision`, `ConsiderCommit` for
`QDArchive.consider`. `End` is every return of `run_event`.

A coordinator may die at every step (`Crash`), and between the two files of an archive
commit (`Orphan`). A trial commit has the same two files, but the next load adopts the
orphan (store.py 495-527), so it is atomic in the model. The CLI holds a lock per task
while an event runs, but the coordinator is also called without it (`qd_strategy.py`),
and the lease and the compare-and-set of the store exist for concurrent coordinators; so
several coordinators may run one event here.

Data: of the seven budget fields tokens and trials are kept; seconds, calls and proposals
are reserved and settled in the same calls. A genome stands for its content digest. A
validation has a quality (0: not qualified) and a cell. Ties within the tolerance are
decided in the code by runtime, dependencies and genome id: here a choice, except that an
entry never beats itself. Whether open issues are resolved, and whether an actionable one
is left, is a choice. Which genomes the model proposes, what they cost and what a trial
yields are choices.

The branches of `_run_trial_leased` for COLLECTED and VALIDATED records are unreachable
(see `BlockedIsAmbiguous` under Findings) and have no action.

### AgentTranscript

State: `messages` is `ConversationState.messages`, `cursor` the engine's
`compacted_message_count`, `phase` where `AgentRuntime.run` waits ("idle" between two turns,
"down" without a process), `todo` the calls of the response in hand, `request` the
conversation part of the model request, `saved` the session file. `ran` is history: the
calls whose tool was started.

`StartTurn` closes what the turn before left open and appends the goal.
`SendWorkingCopy` and `CompactAndSend` are `ContextEngine.build`: the working copy hides
calls of earlier turns that were closed unexecuted or have no result, with their results
(`Hidden`, `Trim`), a cut is chosen in it among whole
user turns or whole transactions (`TurnCut`, `IntraTurnCut`), held back behind open calls,
and mapped back to the durable history (`CompactAt`). `Reply` is the provider's answer, in
the four ways the loop takes it (`RespondCalls`, `RespondStop`, `RespondTruncated`,
`RespondLateCalls`); `RefuseCall`, `StartTool`, `FinishTool` and `EndIteration` are the tool
phase. `Interrupt` is the cancellation of a workbench run at any await, `Die` the end of a
process, `Reopen`, `Resume`, `ResumeForRevision` and `RestoreRefused` are the ways a session
is opened again, with `Restorable` the validation of the snapshot. Token counts are left
out: whether a threshold is reached and whether the summary succeeds are choices.

### RunControl

State: the counters of one run (`iteration`, `calls`, `recoveries`, `streak`, `used`,
`charged`, `seen`), of its closed loop (`round`, `last`, `previous`, `repeats`, `status`),
the facts of the scientific state that the counters look at (`blocker`, `step`), and the
events the outcome is read from (`reason`, `journal`). `quiet` and `expired` are history.

`StartRound` is the begin of `AgentRuntime.run`; `RespondStop`, `RespondTruncated`,
`RespondCalls`, `RequestFails` the answers; `ToolFails` and `ToolSucceeds` one tool call,
which observes something new or old, advances the workflow, blocks it, frees it or waits;
`EndIteration` applies the streak, the diagnostic budget and `StopPolicy.should_stop` in
the order of the code. `CheckDelivery` and `CloseLoop` are the rounds of
`ResearchClosedLoop`, `WallTime` the deadline of the run manager, which may fire at every
await, and `Outcome` is `_completion_status`.

### ExpertEvolution

State: `task` is the manifest, `episodes`, `reviews`, `compilations`, `strategies` and
`evaluations` are the records, `owners` the versions whose invocation is alive, `compiling`
the compilers in flight, `looked` what a cancelling operator has read, `lease` and
`evaluators` the invocations of `evaluate`.

Every operation holds the lock of the task and is one action; but it replaces several
files, so each action that does has a second outcome in which the process dies after the
records and before the manifest (`Saved` or `Dies`). What happens between two operations of
one command is a step of its own where another process can come in between: `CancelLook`
and `Cancel`, `CompileStart` and `CompileEnds`, the claim and the end of an evaluation. The
episode's own work is an answer (`CompleteEpisode`, `FailEpisode`); `OwnerRefused` and
`CancelRefused` are the refusals that end a command. Importing, comparing and publishing
are left out.

### VaspWorkflow

State: `manifest` (state of the workflow, state and request id of each stage, the stages
whose execution identity is bound), `registry` (a row per attempt), `jobs` (what the
scheduler knows), `evidence` (jobs whose results passed validation; history), `pending`,
`approved`, `approvals` (decisions about the stored revision; how often one was approved).

One action is one tool call: `Prepare`, `Preflight`, `SubmitAsks` and `SubmitRuns` (submit
without and with a decision), `Approve`, `Status`, `Resume`, `Collect`, and `JobEnds` at
the cluster. A tool that acted outside ends with its save or with a death before it
(`SavedOrDead`, `Finish`); `Stored` is what a submit has saved by then. A save is a new
revision, and a decision names its revision, so every save empties `pending` and
`approved`. `Sbatch` has three outcomes (a job, a rejection or a reply nobody can read, a
lost reply); `Reconciled` is the submission of a request that has a row and no job;
`Forced` the new attempt after a failure. The observations of a query are translated by
`Mapped`, `StagesAfter`, `Implied` and `Observed`, those of a resume by `Named`, `Found` and
`Recovered`, those of a collection by `Collected` and `Decided`: the code has one table for
each, and so has the model. A resume asks the stages in turn and stops at the first whose
name stands for several jobs or for one in a state nobody can read, or whose query fails
(`Stops`, `Findings`). A collection can refuse results that validated before: the structure
they are compared with lies in the workspace and changes (periodic.py:928-969).

Abstractions: a stage whose inputs are refused counts as not submitted; the inputs of an
attempt and its identity are saved in one step; a pending decision of a submit that then
goes on is not kept; a submission does not interleave with itself (`SubmitOnce` does that).

## Runs

| run | instance | shows |
|---|---|---|
| `serial` | 1 request, 1 forced attempt, 1 submitter, 1 monitor, 2 jobs, 2 directories | `OneJobPerRequest`, `FailureIsConfirmed`, `ResultsFromOwnDirectory`, `JobStaysIdentified`, `ParkedUntilObserved`, and the refinement `ImplementsLedger` of `AtMostOnce` |
| `shared` | 2 submitters of one request, late sbatch, Slurm outage, short accounting | what survives a race: `OneJobPerDirectory` |
| `monitor` | 1 submitter, 1 monitor, fairness | `WatchedJobSettles` |
| `workbench` | 2 tasks, 2 keys, 2 runs, 2 process deaths, fairness | the safety properties of the workbench and `RunsSettle` |
| `evolution` | 2 events, 2 coordinators, 3 runs | `ExecutedOnce`, `ProposedOnce`, `CapKept`, `LiveTrialRuns`, `ArchiveAccounted`, `RecoveryRebuilds`, `ArchiveKeepsUp` |
| `transcript` | 2 turns, 3 tool calls, 2 process ends, 1 revision, 2 requests a turn | `HistoryPaired`, `RequestPaired`, `CompactionKeepsWhole`, `SessionComesBack` |
| `control` | 3 rounds of 6 iterations, batches of 2 calls, 2 observations, 2 kinds of defects | `BlockedRunBounded`, `SucceededMeansDelivered`, `RunEnds` |
| `expert` | 3 episodes, 2 evaluations by 2 evaluators, 2 compilers at once, 1 death | `ManifestAgrees`, `RevisesItsParent`, `OneUsableCompilation`, `CancelHitsWhatItSaw`, `OnlyTheDeadAreReclaimed`, `RunSettles` |
| `vasp` | 2 chained stages, the second one needs approval, 2 forced attempts of the first and 1 of the second, 1 death | `RunsOnEvidence`, `EachJobApproved`, `RetriesAccounted`, `WaitSettles` |
| `race`, `wedged`, `misjudged` | see Findings | three promises of comments that the code does not keep |

The type invariant of each module is the first conjunct of one of its safety invariants
(`HistoryPaired`, `BlockedRunBounded`, `ManifestAgrees`, `RunsOnEvidence`,
`OneActiveRunPerTask`, `CapKept`) and a property of its own in `serial`.

Bounds and why they are enough. A second job is the first that can be one too many, so
two jobs and two directories show every violation of "at most one"; a request and one
forced attempt of it are the smallest family that shares a job name; two submitters are
the smallest race. For the workbench two runs give a run and its resumption, or runs of
two tasks; two deaths give a crash during the recovery from a crash; a queue of two
holds an id twice; one approval and one recovery notice per run suffice because none of
the actions depends on how many came before. For evolution events two coordinators are
the smallest race, on one event or on two that share the archive, and a third run is the
smallest recovery beside a live coordinator. Two qualities give better, equal and worse;
one cell makes every result compete; the tolerance is 0, so that the smallest difference
counts. The proofs remove the bounds for the properties they cover.

A second turn is what closes the calls of an interrupted first; three calls give a
response with two and a transaction before or after it; with a protected tail of one turn
and one transaction the cuts fall everywhere. Two truncated responses exceed the one
recovery; two process ends are a death while the session of a death is restored. For the
control of a run, limits of two iterations without progress and two diagnostic observations
are the smallest where a streak can decay and grow again, six iterations leave room to
use both up, and a third round follows two checks with equal or different defects. Three
episodes are a first one, a revision of it and a retry or a second revision; two evaluators
contend for a lease; one death in front of each manifest write is every torn state, because
each operation starts from the files alone. Two stages are the smallest chain; two forced
attempts of the first are what it takes to start a job beside the live job of an earlier
forced attempt, which `RetriesAccounted` has to account for (`OneLiveJob` below).

Every property of a passing run has a mutant: a change of one mapped definition, kept
beside it in the module and introduced as "Mutant of", under which TLC finds the
property violated.

Deadlock is checked in the runs of `SubmitOnce` and `WorkbenchRuns`. In the other modules
the system may stop: the runs of all coordinators have ended, the goals are spent, the run
is reported, the task is accepted, the workflow has failed.

### Fairness

`SubmitOnce!FairSpec`: the steps of a monitor are weakly fair (its loop sleeps and polls
for as long as its task lives), and an answer other than UNKNOWN is strongly fair: ssh
that fails now and then, but not for ever. Nothing obliges a submitter to call, a job to
end or a late sbatch to arrive; the property starts from a job that ended.

`WorkbenchRuns!FairSpec`: both event loops run what is ready; `asyncio.timeout` around
the worker body fires, which presumes that a tool yields to the loop again and again;
`start` finishes and `stop` goes on. Clients, users and tools owe nothing: an approval
may never be answered, a body may never finish by itself. Nor is anything assumed of what
runs outside the timeout: a host operation (runner.py:327-337), the building of a runtime
(350-359) and the cleanup (448-453) may hang for ever. `RunsSettle` says so: runs and
shutdown settle unless the worker is for ever in one of these places (`Unlimited`); and a
host operation or a build does not excuse a cancellation that came and was lost.

`EvolutionEvents` has no fairness and no liveness property: an event is a finite sequence
of awaited calls each with its own timeout, and what a coordinator that dies leaves
undone is not taken up by anybody until a user runs the event again.

`AgentTranscript!FairSpec`: only that somebody opens a closed session again (`Resume` or,
when the snapshot is refused, `RestoreRefused`); no turn has to make progress.

`RunControl!FairSpec`: the run goes on (the event loop runs, a provider and a tool answer
or fail, both have timeouts). Nothing obliges the wall-time limit to fire, or the workflow
to advance; so `RunEnds` rests on the counters alone.

`ExpertEvolution!FairSpec`: a live owner ends its episode, and when the owner is dead an
operator looks and cancels. Nobody has to review, compile, confirm or evaluate.

`VaspWorkflow!FairSpec`: jobs end (the walltime of Slurm), and the wait tool asks again and
again, with every query answered now and then. No user has to approve, submit or collect.

## Proofs

All theorems hold for every set of events, requests, processes and values and for every
bound. What they assume of the constants is one named assumption per module, which TLC
evaluates in the runs:

* `SubmitOnceAssumption`: the bounds are naturals, submitters and watchers are disjoint,
  outcomes are scheduler states, the three switches are Booleans. The theorems about the
  serial client add `Serial`: at most one submitter, no late sbatch, no hidden outage, and
  an accounting that lists every job. The run `race` and the instances
  `MCSubmitOnceOutage.cfg` and `MCSubmitOnceAccounting.cfg` show that three of its four
  parts cannot be dropped.
* `WorkbenchAssumption`, `RunControlAssumption`, `BoundsAssumption` (`ExpertEvolution`): the
  bounds are naturals, positive where the code needs one, and `None` is none of the values
  it stands beside.
* `EvolutionAssumption`: the same; qualities and costs are positive, and the genomes a model
  can propose are finite in number, because `Tokens` is a sum over the operations of an
  event.
* `TranscriptAssumption` (`AgentTranscript`): the same; at most one recovery of a truncated
  response, as the loop has it, and the numbers of recent turns and transactions that a
  compaction spares are positive.
* `StagesAssumption` (`VaspWorkflow`): the same, and a stage depends on earlier ones only,
  as the plan builder numbers them.

No property of a run is inductive as it stands. What was added, module by module:

**Submission** (`SubmitOnceProofs`)

* `TypeCorrect` from `TypeInv`: that a sighting names a job, that a coroutine in a given
  control point has a request id and, where it needs one, a directory or an answer, is
  added in `CallerInv` and `RowInv`. One lemma per helper (`Become`, `Put`, `Update`, ...)
  and one step per action.
* `OneDirectory` from `DirInv`: a directory that was handed out belongs to exactly one of: a
  coroutine between claiming and sbatch, a late sbatch command, a job. `OneJobPerDirectory`
  by itself says nothing of the coroutine that is about to create the second job.
* `SerialOneJob` from `SerialInv`, whose heart is `Unsubmitted`: a submitter between gate and
  sbatch has a request without a job. It holds because the row it read before was absent,
  or because a reconciliation that was answered without an error saw no job by that name;
  that nothing invalidates the answer meanwhile is what `Serial` says.
* `FailuresAreConfirmed`, `OwnResults`, `ParkedStaysParked`, `JobsStayIdentified` from
  `ServedInv`: for each control point of a caller, what its last look at registry and cluster
  is still worth (`Local`), and where the jobs of a request are (`JobsPlaced`). That a row
  keeps its job takes more than the check of `update`: a caller at the gate, whose `put`
  erases, works for a request whose row names none, and one that scans by the shared name
  too. Each theorem says only what its property does: rows FAILED without a job id while a
  job exists (scnet.py:552) and rows that adopted the job of a sibling attempt are
  reachable, and outside `FailureIsConfirmed` and `ResultsFromOwnDirectory`.
* `SerialRefinesLedger`: under the mapping of `SubmitOnce!Ledger` every initial state is one
  of `AtMostOnce`, and every step a step of it or a stutter (`LedgerSteps`); `Sound` ties the
  mapped state of a request to its row and its job.

**Workbench** (`WorkbenchProofs`): `TypeCorrect`, `NoLateWork`, `OneActiveRun`, `ExecutedOnce` and
`CancellationHonoured` from `RowsInv`: the tables have their shape, what is in memory belongs
to the rows (`Memory`), a worker at work has an unfinished row (`Working`), and a task has one
active run (`Alone`). `EndsAreTold` is inductive beside it: it counts the ends in a run's log.
`ApprovalsAreSettled` needs an accounting in every phase of the worker: while nothing has
crashed, the approvals asked are those settled plus the one still open (`Balanced`).

**Evolution events** (`EvolutionProofs`, `EvolutionBudgetProofs`)

* `ExecutedAtMostOnce` and `LiveTrialLeftAlone` from `LeaseInv`: a coordinator at `leased` or
  `executing` holds the lease of its trial, a trial under execution is RUNNING, and one that
  was executed is past RESERVED. Neither the lease nor the check of `start_trial` would do
  alone: the record that decides what to do was read before the lease was taken.
* `AskedAtMostOnce` from `AskInv`: a coordinator between `begin` and `propose` is the only one
  there for its batch, and nobody has asked yet. An operation that is not reserved is not
  started, so a reservation never resets a start.
* `NothingOnCredit` and `CellsOnlyImprove` from `ArchInv`: every entry, with all that was in its
  cell before, is of a trial that is validated and charged (`Backed`), which no later step
  undoes (`Forward`); and a coordinator on its way to a commit offers a paid trial that is
  no worse than the entry it read (`Offers`). That the entry it read is still the one it
  replaces is the compare-and-set of `Fresh`, on entry and revision.
* `RecoveryIsComplete` from `RebuildInv`, and for a tolerance of 0, which is what
  `qd_strategy.py:230` sets: the entry of a cell is the best of its lineage (`Peak`), so what
  was beaten once stays beaten, whoever commits meanwhile; a coordinator in its recovery has
  every validated trial still to offer, under offer, or kept (`Rebuild`), and what it saw in
  the archive when it began is still in a lineage. Two coordinators at work on one event are
  both marked (`Together`), so one that is not marked knows that nobody else writes the
  trials of its event.
* `BudgetKept` from `BudgetInv`: the ledger keeps its caps and every operation what it
  reserved (`LedgerSound`), a stored batch was begun, and a coordinator knows of its batch and
  its budget what `Ours` lists. The step that matters is a reservation: the rest of the
  budget was read before, so only the comparison under the lock (`Fits`) keeps the cap; a
  settlement lowers a charge, a start leaves it. For this, what a change of one operation
  does to the sum of all (`FoldChanges`) is proved for every finite set, by the choice of a
  smallest counterexample among its subsets.

**Agent transcript** (`AgentProofs`): from `TranscriptInv`, of three parts. `Files`: the history
in memory and the one of the session file are `Sound`: no call is issued twice, calls are
numbered in order, and the history is `Tidy`, that is whole transactions (`Paired`), or whole
transactions and one last message that still waits for results (`OpenAt`). `Waiting`: the
queue `todo` is what waits for a result, and nothing does while a request is made.
`Bounds`: phases and counters.

* `HistoryIsPaired`: `Paired` is not inductive, because a response opens a transaction that
  results close one by one. The lemmas are about what is appended to a history that is `OpenAt`:
  a result of a waiting call (`ResultsAdded`) keeps it so, and the last one makes it `Paired`
  (`OpenDone`).
* `CompactionIsWhole`: a cut is a position of the working copy, which leaves messages out.
  `CompactionBoundary` shows that the first message shown after the cut starts a span of the
  history itself, so the cursor, which is its position there, does too; `PrefixWhole` that
  nothing waits before a message that is not a result.
* `RequestIsPaired`: hiding keeps transactions whole. What is left of one whose message is
  shown stands directly behind that message, one result per call that is shown
  (`BlockShown`, with `NoGap`, a fact about finite sets of integers); of one whose message is
  hidden nothing is left. The hypothesis `CursorWhole` of the property excludes the cursor of
  a revision behind an open call, which is one of the findings below.

All this rests on `Ascending`, which lists a finite set of positions in order: it is
written with ranks, because the prover knows nothing of how `SelectSeq` computes.

**Run control** (`RunControlProofs`): `TypeCorrect` and `BlockedRunIsBounded` from `Counters`: the
iterations a blocked run was explored for are at most the streak plus twice the diagnostic
observations used, a potential that every way to go on pays for. `SuccessIsDelivered` from
`Verdict`, which ties the outcome to the journal and the last check.

**Expert evolution** (`ExpertProofs`): from one invariant of seven parts: types; what a paused task has
(`Paused`); manifest and records (`Records`); compilations and their invocations
(`OneUsable`); which files a death may have left ahead of the manifest (`Standing`); each
episode's parent, review and strategy (`Reviewed`); evaluators and leases (`Leased`).
`CancelIsAimed` and `TheLivingKeepTheirs` are action properties and follow from it.

**VASP workflow** (`VaspProofs`): from types, `Requests` (the rows and jobs of a stage are its own
attempts), `RowsTrue` (a row that says COMPLETED or FAILED is of a job that is), `ValidatedTrue`
and `Supplied` (a validated stage has evidence, and so had all it depends on when it ran).
`JobsAreApproved` has an invariant of its own, `Approved`, that counts approvals, jobs and the
decision under way. `RetriesAreAccounted` has `Retries`: of a stage's jobs that did not fail,
those other than the one on record number at most the jobs without a row that names them
plus the deaths. A forced attempt is made only when the job on record failed, so it adds
one on record, one without a name, or a death. The attempt found one flaw of the model:
tables of observations had been written with CASE arms that overlap, whose value TLA+
leaves open; they now state the order in which the code looks.

The invariants were model-checked on the instances of the runs before they were proved.

Every invariant and every action property that a passing run checks is stated by a theorem.
Only model-checked are the liveness properties, which the prover cannot handle:
`WatchedJobSettles`, `RunsSettle`, `SessionComesBack`, `RunEnds`, `RunSettles`, `WaitSettles`.
`RecoveryRebuilds` is neither checked nor proved for a tolerance other than 0: ties may then
lower a cell step by step (see "Not modelled").

## Findings

Three promises of the repository are refuted by runs:

* `race`: two submitters of one request that both read the registry before either has
  written its row each create a job; registry.py:4-6 says that this can never happen.
* `wedged`: a death between an archive revision and its manifest leaves a file that no
  other commit can replace: the archive takes no more results, and a running event passes
  over the ARCHIVE_CONFLICT in silence.
* `misjudged`: a status query between the preflight and the submit of a later stage fails
  the workflow although every job completed; service.py:979-981 says that only an explicit
  contradiction does.

Others are stated in the modules, with a comment that says what they are about, and are
not true of the code either. They have no run of their own; TLC shows each one when the
named configuration is used, or when the property is added to the run's.

| statement | what the code does | to see it |
|---|---|---|
| `SubmitOnce!OneJobPerRequest` with an outage | squeue and sacct both down behind a working ssh look like "no such job", because the scan hides their errors; the request is submitted again (lifecycle.py:10-15) | `MCSubmitOnceOutage.cfg` |
| `SubmitOnce!OneJobPerRequest` with a short accounting | `sacct --name` has no start time and so goes back to midnight only; a job that ended the day before and whose id was lost is not found, and the request is submitted again (scheduler.py:141-142: the name "decides whether a timed-out sbatch actually created a job") | `MCSubmitOnceAccounting.cfg` |
| `SubmitOnce!JobStaysIdentified` with two submitters | both read no row; one gets its job recorded, then the gate of the other fails and its `put` writes PREPARED over the row: job id and directory are gone (registry.py:184-185: every transition "refuses to regress the recorded job_id") | `MCSubmitOnceErased.cfg` |
| `SubmitOnce!AdoptsOwnJob` | a forced attempt shares its Slurm name with the request it repeats, and reconciliation by name adopts the other's job; the marker check decides nothing (lifecycle.py:8-11) | `MCSubmitOnceAdoption.cfg` |
| `EvolutionEvents!BlockedIsAmbiguous` | an event that is run again is refused by a trial whose outcome is known, because `reserve_trial` compares the stored record, cost and outputs included, with a fresh one (cli/qd.py:264) | `MCEvolutionEventsReplay.cfg` |
| `AgentTranscript!SnapshotRestores` | a session interrupted in a tool call after a compaction writes a snapshot that `_validate_engine_snapshot` refuses; sessions/store.py:1-8 calls it resumable. The run manager starts over without the summary, `chat --resume` has no way back | `transcript` |
| `AgentTranscript!AbandonedNeverRan` | a call whose tool ran is closed as "not executed because the previous turn ended", by a function that says it appends facts (loop.py:1603) | `transcript` |
| `AgentTranscript!RequestNeverSplit` | a revision after an interrupted run sets the cursor behind calls that have no result; their results then open the next request alone | `transcript` |
| `RunControl!DeliveryReported` | the wall-time limit fires while the closing event commits: DELIVERY_COMPLETE is followed by WALL_TIME_EXHAUSTED and the run is PARTIAL (runner.py:431-433, 743-745) | `control` |
| `RunControl!CallsWithinBudget` | the closed loop "reuses the sole runtime and budget" (closed_loop.py:157), but the stop policy compares the iteration of a round, so each round has the whole budget | `control` |
| `RunControl!BudgetRestored` | the diagnostic budget is not restored when the blocker is cleared but at the next charge (loop.py:479-505) | `control` |
| `VaspWorkflow!OneLiveJob` | a forced attempt whose sbatch times out, or whose process dies before the save, leaves the failed request as the one on record; resume offers a new attempt while the first forced job runs (service.py:1056: "the stage is active -> wait, never submit a second job") | `vasp` |

Seen while modelling, true of the models' transitions, and stated as no property:

* `vasp/unified`: a decision names the manifest revision, so any save, a status query
  included, voids what the user has approved; the comment at service.py:1761-1763 wants a
  version "intentionally separate from ordinary manifest revision". When the first sbatch
  of a workflow is ambiguous and created nothing, submit asks for a preflight, preflight
  refuses RECONCILING, and resume stays there. A collection before any submission turns
  PREFLIGHTED into RUNNING. A failed query downgrades a validated stage, and a later
  COMPLETED does not bring the validation back until the next collection.
* `scientific/evolution`: a death between the reservation of an episode and the manifest
  leaves a record with a dead owner's token that every later start refuses
  (service.py:2858) and no cancel reaches. A reservation of a dead evaluator made before
  the task moved on is reclaimed and then refused by every claim. A death between the
  strategy and the manifest in `confirm_revision`, followed by new observations of other
  tasks, makes every later confirmation conflict. `reopen` does not consult
  `ALLOWED_TRANSITIONS`; no operation sets BUDGET_EXHAUSTED.
* `application/closed_loop.py`: line 187 knows the reason "token_budget_exhausted", the stop
  policy says "max_total_tokens".

## Not modelled

* A command that reaches Slurm after its client gave up is modelled (`late`), but no
  promise of one job per request is claimed with it: the lifecycle has no defence.
* Failing SQLite writes: a write succeeds or the process dies.
* Two processes on one workbench database: the owner check is per process, and a second
  manager would interrupt the first one's runs. Two processes on one VASP manifest: its
  save is a compare-and-set, and the loser's tool call fails.
* A monitor whose poll raises ends silently.
* Hazards that were seen and that no property speaks of: a status answer that comes late
  takes a row back from COLLECTED or VALIDATED to a scheduler state (lifecycle.py:1120; the
  model does it too); a revision plan checks the digest
  of its source before it reserves the run that executes it (application/revisions.py:290);
  repeated ties within the tolerance can let a cell of the archive drift downwards
  (qd/archive.py:35); the recovery of an event stops at the first trial that solves it and
  leaves later validated trials unsettled (qd/coordinator.py:532).
* What tools, providers, judges, checkers and calculators compute: their answers are
  choices.
* The components listed as `not_modelled` in `PROJECT.json`, each with its reason. Most of
  the repository's lines are there: calculators, generators, parsers, literature
  retrieval, command line and rendering are data transformations or pure I/O without two
  actors or two steps that could disagree.

## Plan

1. `RevisionPlans` (plan states, compile timeout, source change), `LoopController`,
   `McpServers`.
