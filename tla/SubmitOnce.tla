------------------------------ MODULE SubmitOnce ------------------------------
(***************************************************************************)
(* The submission lifecycle of remote HPC jobs: SubmitOnceSession          *)
(* (scientific/remote/lifecycle.py) over the SQLite job registry           *)
(* (registry.py), the detached JobMonitor (monitor.py) and, as the         *)
(* environment, the Slurm cluster behind ssh (scnet.py, scheduler.py).     *)
(*                                                                         *)
(* A caller is a coroutine of any process that opened the registry.  Every *)
(* registry transaction is one step; between two steps of a caller lies an *)
(* await or a commit, so another caller, Slurm or a crash may come first.  *)
(* What a remote query answers is fixed when the cluster evaluates it and  *)
(* applied by a later step.                                                *)
(***************************************************************************)
EXTENDS Integers, FiniteSets

CONSTANTS
    Requests,       \* request ids a caller derives from its manifest
    MaxAttempts,    \* bound on forced attempts "<rid>-attempt-<n>" per request
    MaxJobs,        \* bound on the jobs sbatch accepts
    MaxDirs,        \* bound on the remote directories claimed
    Submitters,     \* callers that submit, reconcile, poll and collect
    Watchers,       \* JobMonitor background tasks
    Outcomes,       \* scheduler states a finished job can be in
    LateSbatch,     \* can sbatch reach Slurm after its ssh client timed out?
    SlurmOutage,    \* can squeue and sacct both fail while ssh succeeds?
    ShortAccounting \* does sacct by name leave out jobs that ended another day?

FailedStates == {"FAILED", "TIMEOUT", "OUT_OF_MEMORY", "CANCELLED"}

ASSUME SubmitOnceAssumption ==
    /\ MaxAttempts \in Nat /\ MaxJobs \in Nat /\ MaxDirs \in Nat
    /\ Submitters \cap Watchers = {}
    /\ Outcomes \subseteq FailedStates \cup {"COMPLETED"}
    /\ {LateSbatch, SlurmOutage, ShortAccounting} \subseteq BOOLEAN

Callers == Submitters \cup Watchers
JobIds == 1 .. MaxJobs
Dirs == 1 .. MaxDirs
None == 0                            \* NULL in the job_id and directory columns

\* <<r, 0>> is the request id itself, <<r, n>> its n-th forced attempt.
Rids == Requests \X (0 .. MaxAttempts)

\* The Slurm job name carries only the first eight characters of the request
\* id, so every attempt of a request has the name of the request.
JobName(rid) == rid[1]

\* Mutant of Ambiguous: a parked request may be submitted again.
AmbiguousOrParked ==
    {"SUBMITTING", "PREFLIGHT_PASSED", "PREPARED", "UNKNOWN_RECONCILIATION_REQUIRED"}

Ambiguous == {"SUBMITTING", "PREFLIGHT_PASSED", "PREPARED"}
Active == {"SUBMITTED", "PENDING", "RUNNING"}
Succeeded == {"COMPLETED", "COLLECTED", "VALIDATED"}
Unresolved == "UNKNOWN_RECONCILIATION_REQUIRED"
Terminal == Succeeded \cup FailedStates \cup {Unresolved}
States == Ambiguous \cup Active \cup Terminal

LiveJob == {"PENDING", "RUNNING"}
JobStates == {"absent"} \cup LiveJob \cup FailedStates \cup {"COMPLETED"}

VARIABLES
    registry,   \* request id -> row of job_registry; state "none": no row
    jobs,       \* what Slurm knows: job id -> marker's request id, dir, state
    late,       \* sbatch commands still running after their client gave up
    claimed,    \* remote directories handed out so far (timestamped names)
    caller      \* the coroutine of each caller: control point and locals

vars == <<registry, jobs, late, claimed, caller>>

-----------------------------------------------------------------------------
(* Rows and coroutines.                                                     *)

Row(state, job, dir) == [state |-> state, job |-> job, dir |-> dir]
NoRow == Row("none", None, None)

Idle == [pc |-> "idle", op |-> "none", rid |-> <<>>, job |-> None,
         dir |-> None, reply |-> "none", seen |-> {}]

Return(c) == caller' = [caller EXCEPT ![c] = Idle]

\* The coroutine goes on with the same call.
Become(c, pc, job, dir, reply, seen) ==
    caller' = [caller EXCEPT ![c] = [pc |-> pc, op |-> caller[c].op, rid |-> caller[c].rid,
                                     job |-> job, dir |-> dir, reply |-> reply, seen |-> seen]]

\* What the last remote command answered is no longer used.
Goto(c, pc) == Become(c, pc, None, caller[c].dir, "none", {})

\* Receive what a remote command printed.
Answer(c, pc, reply, seen) == Become(c, pc, caller[c].job, caller[c].dir, reply, seen)

At(c, pc) == caller[c].pc = pc
Rid(c) == caller[c].rid

(* JobRegistry.put: an upsert of the whole row; the rows _store builds have  *)
(* neither a job id nor a directory.                                         *)
Put(rid, state) == registry' = [registry EXCEPT ![rid] = Row(state, None, None)]

(* JobRegistry.update: absent columns keep their value (COALESCE) ...        *)
Update(rid, state) ==
    registry' = IF registry[rid].state = "none" THEN registry
                ELSE [registry EXCEPT ![rid].state = state]

(* ... and a row whose job id is another one refuses the update: ValueError. *)
JobConflict(rid, job) ==
    registry[rid].job # None /\ registry[rid].job # job

UpdateJob(rid, state, job) ==
    registry' = IF JobConflict(rid, job) \/ registry[rid].state = "none"
                THEN registry
                ELSE [registry EXCEPT ![rid] = Row(state, job, registry[rid].dir)]

-----------------------------------------------------------------------------
(* Slurm, as the commands of scheduler.py see it.                           *)

Known(name) == {j \in JobIds : jobs[j].state # "absent"
                               /\ JobName(jobs[j].rid) = name}
LiveNamed(name) == {j \in Known(name) : jobs[j].state \in LiveJob}

\* squeue by name; only when it prints nothing, sacct by name.  Asked for a name and not
\* for a start time, sacct goes back to the last midnight.
ByName(name) == IF LiveNamed(name) # {} THEN LiveNamed(name) ELSE Known(name)

Listings(name) ==
    {ByName(name)} \cup IF ShortAccounting /\ LiveNamed(name) = {} THEN SUBSET Known(name)
                       ELSE {}

Sighting(j, state) == [job |-> j, state |-> state]
Sightings == [job : JobIds, state : JobStates \cup {"SUBMITTED", "UNKNOWN"}]

\* sbatch accepts the script: the job gets the next id.
Accept(rid, dir, j) ==
    /\ jobs[j].state = "absent"
    /\ \A k \in JobIds : k < j => jobs[k].state # "absent"
    /\ jobs' = [jobs EXCEPT ![j] = [rid |-> rid, dir |-> dir, state |-> "PENDING"]]

-----------------------------------------------------------------------------
Init ==
    /\ registry = [r \in Rids |-> NoRow]
    /\ jobs = [j \in JobIds |-> [rid |-> <<>>, dir |-> None, state |-> "absent"]]
    /\ late = {}
    /\ claimed = 0
    /\ caller = [c \in Callers |-> Idle]

Begin(c, op, pc, rid) ==
    /\ At(c, "idle")
    /\ caller' = [caller EXCEPT ![c] = [pc |-> pc, op |-> op, rid |-> rid, job |-> None,
                                        dir |-> None, reply |-> "none", seen |-> {}]]
    /\ UNCHANGED <<registry, jobs, late, claimed>>

\* Mutant of Submit: what failed is submitted anew, also when there was a job.
SubmitFailedAgain(c, rid) ==
    \/ registry[rid].state \in {"none", "FAILED"} /\ Begin(c, "submit", "gate", rid)
    \/ registry[rid].state \in Ambiguous /\ Begin(c, "submit", "reconcile", rid)

\* Mutant of Submit: an ambiguous row is submitted without reconciliation.
SubmitBlindly(c, rid) ==
    /\ \/ registry[rid].state \in {"none"} \cup Ambiguous
       \/ registry[rid].state = "FAILED" /\ registry[rid].job = None
    /\ Begin(c, "submit", "gate", rid)

(* submit_once without force_new_attempt: no row, go to the gate; an         *)
(* ambiguous row, or FAILED before a job existed, must be reconciled first.  *)
(* Every other row is a duplicate and the call returns without a change.     *)
Submit(c, rid) ==
    \/ /\ registry[rid].state = "none"
       /\ Begin(c, "submit", "gate", rid)
    \/ /\ \/ registry[rid].state \in Ambiguous
          \/ registry[rid].state = "FAILED" /\ registry[rid].job = None
       /\ Begin(c, "submit", "reconcile", rid)

(* submit_once with force_new_attempt: draw attempt ids until one is free.   *)
ForceSubmit(c, rid, attempt) ==
    /\ registry[rid].state # "none"
    /\ JobName(attempt) = JobName(rid)
    /\ registry[attempt].state = "none"
    /\ Begin(c, "submit", "gate", attempt)

Reconcile(c, rid) == registry[rid].state # "none" /\ Begin(c, "reconcile", "reconcile", rid)
RefreshStatus(c, rid) == registry[rid].job # None /\ Begin(c, "status", "status", rid)
Watch(w, rid) == Begin(w, "watch", "status", rid)

(* collect: only a row whose scheduler run succeeded is downloaded.          *)
Collect(c, rid) ==
    /\ registry[rid].state \in Succeeded
    /\ registry[rid].job # None
    /\ Begin(c, "collect", "download", rid)

-----------------------------------------------------------------------------
(* reconcile and refresh_status read the row, then await the scheduler.      *)

ReconcileRead(c) ==
    /\ At(c, "reconcile")
    /\ Become(c, IF registry[Rid(c)].job # None THEN "query" ELSE "scan",
              registry[Rid(c)].job, caller[c].dir, "none", {})
    /\ UNCHANGED <<registry, jobs, late, claimed>>

\* A monitor whose row has no job id (yet) sleeps and polls again.
StatusRead(c) ==
    /\ At(c, "status")
    /\ IF registry[Rid(c)].job # None
       THEN Become(c, "query", registry[Rid(c)].job, caller[c].dir, "none", {})
       ELSE IF caller[c].op = "watch" THEN UNCHANGED caller ELSE Return(c)
    /\ UNCHANGED <<registry, jobs, late, claimed>>

(* job_status: the state squeue or sacct prints, UNKNOWN when ssh fails or    *)
(* the printed state is not understood.                                      *)
QueryStatus(c) ==
    /\ At(c, "query")
    /\ \E state \in {jobs[caller[c].job].state, "UNKNOWN"} :
          Answer(c, "statusAnswered", "ok", {Sighting(caller[c].job, state)})
    /\ UNCHANGED <<registry, jobs, late, claimed>>

\* Mutant of AfterStatus: the monitor polls once.
AfterStatusOnce(c, state) ==
    IF caller[c].op = "watch" THEN Goto(c, "stopped") ELSE Return(c)

\* What the coroutine does after a status pull.
AfterStatus(c, state) ==
    IF caller[c].op = "watch"
    THEN Goto(c, IF state \in Terminal THEN "stopped" ELSE "status")
    ELSE Return(c)

\* Mutant of ApplyStatus: a job that cannot be seen counts as failed.
ApplyStatusUnknownFails(c) ==
    /\ At(c, "statusAnswered")
    /\ \E s \in caller[c].seen :
          LET state == IF s.state = "UNKNOWN" THEN "FAILED" ELSE s.state IN
          Update(Rid(c), state) /\ AfterStatus(c, state)
    /\ UNCHANGED <<jobs, late, claimed>>

(* _query_status: UNKNOWN changes nothing, every other answer is written      *)
(* over whatever state the row has by now.  reconcile falls through to the   *)
(* scan by name when the job was not confirmed.                              *)
ApplyStatus(c) ==
    /\ At(c, "statusAnswered")
    /\ \E s \in caller[c].seen :
          IF s.state = "UNKNOWN"
          THEN /\ UNCHANGED registry
               /\ IF caller[c].op \in {"submit", "reconcile"}
                  THEN Goto(c, "scan")
                  ELSE AfterStatus(c, registry[Rid(c)].state)
          ELSE Update(Rid(c), s.state) /\ AfterStatus(c, s.state)
    /\ UNCHANGED <<jobs, late, claimed>>

(* jobs_by_name: an error when ssh fails.  The remote command hides the       *)
(* errors of squeue and sacct and ends in head, so with both down it prints  *)
(* nothing and still succeeds.  A listed job may be in a state the mapping   *)
(* does not know.                                                            *)
Scan(c) ==
    /\ At(c, "scan")
    /\ \E found \in Listings(JobName(Rid(c))) :
       \/ Answer(c, "scanned", "error", {})
       \/ Answer(c, "scanned", "ok", {Sighting(j, jobs[j].state) : j \in found})
       \/ found # {} /\ Answer(c, "scanned", "ok", {Sighting(j, "UNKNOWN") : j \in found})
       \/ SlurmOutage /\ Answer(c, "scanned", "ok", {})
    /\ UNCHANGED <<registry, jobs, late, claimed>>

\* Mutant of ApplyScan: an observation is written as it was read.
ApplyScanRaw(c) ==
    /\ At(c, "scanned")
    /\ \E s \in caller[c].seen : UpdateJob(Rid(c), s.state, s.job)
    /\ Return(c)
    /\ UNCHANGED <<jobs, late, claimed>>

\* Mutant of ApplyScan: a failed query is taken for "no such job".
ApplyScanErrorIsNotFound(c) ==
    /\ At(c, "scanned")
    /\ IF caller[c].seen = {}
       THEN /\ UNCHANGED registry
            /\ IF caller[c].op = "submit" THEN Goto(c, "gate") ELSE Return(c)
       ELSE /\ \E s \in caller[c].seen :
                 UpdateJob(Rid(c), IF s.state = "UNKNOWN" THEN Unresolved ELSE s.state, s.job)
            /\ Return(c)
    /\ UNCHANGED <<jobs, late, claimed>>

(* The rest of reconcile.  QUERY_FAILED leaves the state; several candidates  *)
(* park the request; one is adopted; none allows a new submission.           *)
ApplyScan(c) ==
    /\ At(c, "scanned")
    /\ LET seen == caller[c].seen IN
       \/ /\ caller[c].reply = "error"
          /\ UNCHANGED registry
          /\ Return(c)
       \/ /\ Cardinality(seen) > 1
          /\ Update(Rid(c), Unresolved)
          /\ Return(c)
       \/ /\ Cardinality(seen) = 1
          /\ \E s \in seen :
                UpdateJob(Rid(c), IF s.state = "UNKNOWN" THEN Unresolved ELSE s.state, s.job)
          /\ Return(c)
       \/ /\ caller[c].reply = "ok"
          /\ seen = {}
          /\ UNCHANGED registry
          /\ IF caller[c].op = "submit" THEN Goto(c, "gate") ELSE Return(c)
    /\ UNCHANGED <<jobs, late, claimed>>

-----------------------------------------------------------------------------
(* The new attempt of submit_once.                                          *)

GateFails(c) ==
    /\ At(c, "gate")
    /\ Put(Rid(c), "PREPARED")
    /\ Return(c)
    /\ UNCHANGED <<jobs, late, claimed>>

GatePasses(c) ==
    /\ At(c, "gate")
    /\ Put(Rid(c), "PREFLIGHT_PASSED")
    /\ Goto(c, "claim")
    /\ UNCHANGED <<jobs, late, claimed>>

\* Mutant of ClaimDirectory: the directory is not recorded.
ClaimDirectorySilently(c) ==
    /\ At(c, "claim")
    /\ claimed < MaxDirs
    /\ claimed' = claimed + 1
    /\ registry' = [registry EXCEPT ![Rid(c)].state = "SUBMITTING"]
    /\ Become(c, "stage", None, claimed + 1, "none", {})
    /\ UNCHANGED <<jobs, late>>

\* Mutant of ClaimDirectory: a name without a timestamp.
ClaimDirectoryByName(c) ==
    /\ At(c, "claim")
    /\ claimed' = 1
    /\ registry' = [registry EXCEPT ![Rid(c)] = Row("SUBMITTING", None, 1)]
    /\ Become(c, "stage", None, 1, "none", {})
    /\ UNCHANGED <<jobs, late>>

(* The directory name carries the time in microseconds: that it is new is      *)
(* assumed.  The row moves to SUBMITTING with it ...                         *)
ClaimDirectory(c) ==
    /\ At(c, "claim")
    /\ claimed < MaxDirs
    /\ claimed' = claimed + 1
    /\ registry' = [registry EXCEPT
                        ![Rid(c)] = Row("SUBMITTING", registry[Rid(c)].job, claimed + 1)]
    /\ Become(c, "stage", None, claimed + 1, "none", {})
    /\ UNCHANGED <<jobs, late>>

(* ... unless the row of another request took that very name.                *)
DirectoryClash(c) ==
    /\ At(c, "claim")
    /\ \E other \in Rids \ {Rid(c)} :
          JobName(other) = JobName(Rid(c)) /\ registry[other].dir # None
    /\ Update(Rid(c), Unresolved)
    /\ Return(c)
    /\ UNCHANGED <<jobs, late, claimed>>

(* Local input checks, upload, remote copies, input and digest verification:  *)
(* each failure records FAILED and returns before sbatch.                    *)
StageFails(c) ==
    /\ At(c, "stage")
    /\ Update(Rid(c), "FAILED")
    /\ Return(c)
    /\ UNCHANGED <<jobs, late, claimed>>

StageSucceeds(c) ==
    /\ At(c, "stage")
    /\ Goto(c, "sbatch")
    /\ UNCHANGED <<registry, jobs, late, claimed>>

(* submit_script.  Accepted: the reply is the job id, or it is lost to a      *)
(* client timeout, or it cannot be parsed (RuntimeError).  Not accepted: a   *)
(* rejection, or a timeout before Slurm got the command - which may still be *)
(* on its way.                                                               *)
Sbatch(c) ==
    /\ At(c, "sbatch")
    /\ \/ /\ \E j \in JobIds :
                /\ Accept(Rid(c), caller[c].dir, j)
                /\ \E reply \in {"ok", "timeout", "error"} :
                      Answer(c, "submitted", reply, {Sighting(j, "SUBMITTED")})
          /\ UNCHANGED late
       \/ /\ \E reply \in {"timeout", "error"} : Answer(c, "submitted", reply, {})
          /\ UNCHANGED <<jobs, late>>
       \/ /\ LateSbatch
          /\ late' = late \cup {[rid |-> Rid(c), dir |-> caller[c].dir]}
          /\ Answer(c, "submitted", "timeout", {})
          /\ UNCHANGED jobs
    /\ UNCHANGED <<registry, claimed>>

(* The tail of _submit_attempt: a timeout stays SUBMITTING (ambiguous), any    *)
(* other exception is FAILED, success records the job id.                    *)
ApplySbatch(c) ==
    /\ At(c, "submitted")
    /\ \/ caller[c].reply = "timeout" /\ Update(Rid(c), "SUBMITTING")
       \/ caller[c].reply = "error" /\ Update(Rid(c), "FAILED")
       \/ /\ caller[c].reply = "ok"
          /\ \E s \in caller[c].seen : UpdateJob(Rid(c), "SUBMITTED", s.job)
    /\ Return(c)
    /\ UNCHANGED <<jobs, late, claimed>>

(* mark_result_state: COLLECTED only from a scheduler state, VALIDATED from   *)
(* any; a failed validation keeps the state.                                 *)
MarkResult(c) ==
    /\ At(c, "download")
    /\ \/ Update(Rid(c), "VALIDATED")
       \/ IF registry[Rid(c)].state \in Active \cup {"COMPLETED"}
          THEN Update(Rid(c), "COLLECTED")
          ELSE UNCHANGED registry
    /\ Return(c)
    /\ UNCHANGED <<jobs, late, claimed>>

(* The process dies, or the coroutine is cancelled: no handler catches        *)
(* CancelledError.  The row keeps what was committed.                        *)
Crash(c) ==
    /\ caller[c].pc \notin {"idle", "stopped"}
    /\ Return(c)
    /\ UNCHANGED <<registry, jobs, late, claimed>>

-----------------------------------------------------------------------------
(* The cluster.                                                             *)

LateArrives ==
    \E r \in late, j \in JobIds :
        /\ Accept(r.rid, r.dir, j)
        /\ late' = late \ {r}
        /\ UNCHANGED <<registry, claimed, caller>>

JobBecomes(j, state) ==
    jobs' = [jobs EXCEPT ![j] = [rid |-> jobs[j].rid, dir |-> jobs[j].dir, state |-> state]]

JobStarts(j) ==
    /\ jobs[j].state = "PENDING"
    /\ JobBecomes(j, "RUNNING")
    /\ UNCHANGED <<registry, late, claimed, caller>>

JobEnds(j) ==
    /\ jobs[j].state \in LiveJob
    /\ \E s \in Outcomes : JobBecomes(j, s)
    /\ UNCHANGED <<registry, late, claimed, caller>>

-----------------------------------------------------------------------------
SubmitterCall(c) ==
    \E rid \in Rids :
        \/ Submit(c, rid)
        \/ \E attempt \in Rids : ForceSubmit(c, rid, attempt)
        \/ Reconcile(c, rid)
        \/ RefreshStatus(c, rid)
        \/ Collect(c, rid)

CallerStep(c) ==
    \/ ReconcileRead(c) \/ StatusRead(c)
    \/ QueryStatus(c) \/ ApplyStatus(c)
    \/ Scan(c) \/ ApplyScan(c)
    \/ GateFails(c) \/ GatePasses(c)
    \/ ClaimDirectory(c) \/ DirectoryClash(c)
    \/ StageFails(c) \/ StageSucceeds(c)
    \/ Sbatch(c) \/ ApplySbatch(c)
    \/ MarkResult(c)

Next ==
    \/ \E c \in Submitters : SubmitterCall(c)
    \/ \E w \in Watchers, rid \in Rids : Watch(w, rid)
    \/ \E c \in Callers : CallerStep(c) \/ Crash(c)
    \/ LateArrives
    \/ \E j \in JobIds : JobStarts(j) \/ JobEnds(j)

Spec == Init /\ [][Next]_vars

(* The monitor loop polls for ever and ssh answers again and again.  Nothing  *)
(* obliges a caller to call, Slurm to start a job or a late sbatch to arrive. *)
HeardStatus(w) == QueryStatus(w) /\ \E s \in caller'[w].seen : s.state # "UNKNOWN"

FairSpec ==
    /\ Spec
    /\ \A w \in Watchers :
          /\ WF_vars(StatusRead(w) \/ QueryStatus(w) \/ ApplyStatus(w))
          /\ SF_vars(HeardStatus(w))

-----------------------------------------------------------------------------
(* Properties.                                                              *)

JobRecords == [rid : Rids \cup {<<>>}, dir : 0 .. MaxDirs, state : JobStates]
RowRecords == [state : States \cup {"none"}, job : 0 .. MaxJobs, dir : 0 .. MaxDirs]
CallerRecords ==
    [pc : {"idle", "gate", "claim", "stage", "sbatch", "submitted", "reconcile",
           "status", "query", "statusAnswered", "scan", "scanned", "download",
           "stopped"},
     op : {"none", "submit", "reconcile", "status", "watch", "collect"},
     rid : Rids \cup {<<>>}, job : 0 .. MaxJobs, dir : 0 .. MaxDirs,
     reply : {"none", "ok", "error", "timeout"}, seen : SUBSET Sightings]

(* Rows, jobs and coroutines have the shape their columns and locals have.   *)
TypeOK ==
    /\ registry \in [Rids -> RowRecords]
    /\ jobs \in [JobIds -> JobRecords]
    /\ late \subseteq [rid : Rids, dir : 0 .. MaxDirs]
    /\ claimed \in 0 .. MaxDirs
    /\ caller \in [Callers -> CallerRecords]

Exists(j) == jobs[j].state # "absent"

(* lifecycle.py:6-7, registry.py:4-6: the same request id never produces a    *)
(* second remote job, whatever timed out, was rejected or crashed before.    *)
OneJobPerRequest ==
    \A j, k \in JobIds :
        Exists(j) /\ Exists(k) /\ jobs[j].rid = jobs[k].rid => j = k

(* lifecycle.py:14-15: a row that names a job says FAILED, TIMEOUT,           *)
(* OUT_OF_MEMORY or CANCELLED only of a job that did end that way - never of *)
(* one that is alive or succeeded, however late the answer was applied.  (A   *)
(* row that names none may say FAILED beside a job nobody recorded: a reply  *)
(* of sbatch that cannot be parsed, scnet.py:552.)                           *)
FailureIsConfirmed ==
    \A rid \in Rids :
        registry[rid].state \in FailedStates /\ registry[rid].job # None
            => jobs[registry[rid].job].state \in FailedStates

(* A row that names its own job names the directory that job runs in: what    *)
(* collect downloads is the output of the recorded job.                      *)
ResultsFromOwnDirectory ==
    \A rid \in Rids :
        LET job == registry[rid].job IN
        job # None /\ jobs[job].rid = rid => registry[rid].dir = jobs[job].dir

(* lifecycle.py:560-570: a parked request is only released by what Slurm says *)
(* of its jobs, never by a submission.                                       *)
ParkedUntilObserved ==
    [][\A rid \in Rids :
          registry[rid].state = Unresolved
              => registry'[rid].state \in {Unresolved} \cup JobStates]_vars

(* registry.py:184-185, 362-371 (job_id must never regress): from the moment a  *)
(* row names a job it names that job, whatever is submitted again, reconciled *)
(* by a name it shares with other attempts, queried late or cut off by a death. *)
JobStaysIdentified ==
    [][\A rid \in Rids :
          registry[rid].job # None => registry'[rid].job = registry[rid].job]_vars

(* registry.py:226-227: two jobs never write into the same remote directory,  *)
(* even when callers race on one request and sbatch commands arrive late.    *)
OneJobPerDirectory ==
    \A j, k \in JobIds :
        Exists(j) /\ Exists(k) /\ jobs[j].dir = jobs[k].dir => j = k

(* lifecycle.py:8-11: reconciliation finds out whether THIS request created a *)
(* job, so the job it adopts is the one the request submitted.               *)
AdoptsOwnJob ==
    \A rid \in Rids :
        registry[rid].job # None => jobs[registry[rid].job].rid = rid

(* monitor.py: a watched job that ended is eventually recorded in a terminal  *)
(* state, unless the monitor is stopped first.                               *)
WatchedJobSettles ==
    \A w \in Watchers, rid \in Rids :
        (/\ caller[w].op = "watch" /\ Rid(w) = rid /\ ~At(w, "stopped")
         /\ registry[rid].job # None
         /\ jobs[registry[rid].job].state \notin LiveJob)
        ~> (registry[rid].state \in Terminal \/ At(w, "idle"))

(* A caller that has no rival implements the promise of AtMostOnce: a request *)
(* is bound once its row names the job that carries its marker, in doubt      *)
(* from its first directory on, free before.                                 *)
Bound(rid) == registry[rid].job # None /\ jobs[registry[rid].job].rid = rid

Ledger == INSTANCE AtMostOnce WITH
    Ids <- Rids,
    accepted <- [rid \in Rids |-> Cardinality({j \in JobIds : jobs[j].rid = rid})],
    view <- [rid \in Rids |->
                IF Bound(rid) THEN "bound"
                ELSE IF registry[rid].dir # None \/ registry[rid].job # None
                     THEN "doubt" ELSE "free"]

(* The serial lifecycle refines the abstract ledger.                         *)
ImplementsLedger == Ledger!Spec
=============================================================================
