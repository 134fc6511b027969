----------------------------- MODULE WorkbenchRuns -----------------------------
(***************************************************************************)
(* The life of a research run in the local workbench: the durable store    *)
(* (application/store.py), the RunManager that owns the queue, the worker  *)
(* and the approvals (runner.py), and the service that admits, cancels and *)
(* resumes runs (service.py).                                              *)
(*                                                                         *)
(* Two threads act: the owner loop (API handlers, the consumer, _execute)  *)
(* and the single worker thread (_worker_main).  A handler of the owner    *)
(* loop runs without interruption between two awaits; the process may die  *)
(* after any commit, and only the store survives.                          *)
(***************************************************************************)
EXTENDS Integers, Sequences, FiniteSets

CONSTANTS
    Tasks,          \* research tasks
    Keys,           \* Idempotency-Key values clients send
    MaxRuns,        \* bound on the runs ever reserved
    MaxCrashes,     \* bound on process deaths
    MaxQueue,       \* bound on the in-memory queue
    MaxApprovals,   \* bound on approval requests of one run
    MaxRecoveries   \* bound on recovery_required events of one run

ASSUME WorkbenchAssumption ==
    /\ MaxRuns \in Nat /\ MaxCrashes \in Nat /\ MaxQueue \in Nat
    /\ MaxApprovals \in Nat /\ MaxRecoveries \in Nat

RunIds == 1 .. MaxRuns
NoRun == 0

Active == {"QUEUED", "RUNNING", "CANCEL_REQUESTED"}
Finished == {"SUCCEEDED", "PARTIAL", "FAILED", "CANCELLED", "INTERRUPTED"}

\* What the last loop event of a run makes of it (_completion_status); an
\* evaluation that was cancelled completes as CANCELLED.
Completions == {"SUCCEEDED", "PARTIAL", "CANCELLED"}

VARIABLES
    \* durable
    status,     \* runs.status; "none": no such row
    task,       \* runs.task_id
    keys,       \* request_keys: what a key was used for
    log,        \* events of each run, in order
    \* volatile
    proc,       \* the process: down, starting, up, stopping
    queue,      \* asyncio.Queue of admitted run ids
    running,    \* the run in _running, with the progress of _execute
    worker,     \* the worker thread, and what the owner loop left for it
    approval,   \* the approval request the worker waits for
    reply,      \* what the last start or resume request was answered
    crashes

durable == <<status, task, keys>>
volatile == <<queue, running, worker, approval>>
vars == <<status, task, keys, log, proc, queue, running, worker, approval, reply, crashes>>

-----------------------------------------------------------------------------
NoBinding == [op |-> "none", task |-> "none", source |-> NoRun, run |-> NoRun]
Free == [run |-> NoRun, at |-> "idle"]
\* flag: run_id in _worker_cancel_requested; posted: task.cancel is on its way;
\* registered: _worker_tasks has the run; closing: _worker_closing has it.
NoWorker == [at |-> "none", flag |-> FALSE, posted |-> FALSE,
             registered |-> FALSE, closing |-> FALSE, outcome |-> "none"]
NoReply == [key |-> "none", run |-> NoRun]

Appended(r, e) == [log EXCEPT ![r] = Append(@, e)]
Count(r, e) == Cardinality({i \in DOMAIN log[r] : log[r][i] = e})
Has(r, e) == Count(r, e) > 0

\* Everything in memory is gone.
Die ==
    /\ proc' = "down"
    /\ queue' = <<>>
    /\ running' = Free
    /\ worker' = NoWorker
    /\ approval' = "none"
    /\ crashes' = crashes + 1

MayDie == crashes < MaxCrashes

(* finish_run or transition_run, then append_event_for_run: two transactions  *)
(* of one handler.  If the process dies between them the rest of the handler *)
(* - its effect on memory, After - never happens.                            *)
Commit(r, newStatus, event, After) ==
    /\ status' = [status EXCEPT ![r] = newStatus]
    /\ \/ log' = Appended(r, event) /\ After
       \/ MayDie /\ Die /\ UNCHANGED log
    /\ UNCHANGED <<task, keys, reply>>

Init ==
    /\ status = [r \in RunIds |-> "none"]
    /\ task = [r \in RunIds |-> "none"]
    /\ keys = [k \in Keys |-> NoBinding]
    /\ log = [r \in RunIds |-> <<>>]
    /\ proc = "down"
    /\ queue = <<>>
    /\ running = Free
    /\ worker = NoWorker
    /\ approval = "none"
    /\ reply = NoReply
    /\ crashes = 0

Listening == proc \in {"up", "stopping"}
NextRun == CHOOSE r \in RunIds :
              status[r] = "none" /\ \A q \in RunIds : q < r => status[q] # "none"

-----------------------------------------------------------------------------
(* Admission.                                                               *)

(* reserve_run: one transaction.  A known key must name the same request and  *)
(* gets the run it made; a new one needs a task without an active run.       *)
SameRequest(k, op, t, source) ==
    keys[k].op = op /\ keys[k].task = t /\ keys[k].source = source

\* Mutant of ActiveRun: a run being cancelled no longer counts.
ActiveUnlessCancelled(t) ==
    \E r \in RunIds : status[r] \in {"QUEUED", "RUNNING"} /\ task[r] = t

ActiveRun(t) == \E r \in RunIds : status[r] \in Active /\ task[r] = t

Reserve(k, op, t, source) ==
    IF keys[k] # NoBinding
    THEN /\ reply' = [key |-> k, run |-> IF SameRequest(k, op, t, source)
                                         THEN keys[k].run ELSE NoRun]
         /\ UNCHANGED durable
    ELSE IF ActiveRun(t)
    THEN /\ reply' = [key |-> k, run |-> NoRun]
         /\ UNCHANGED durable
    ELSE /\ status' = [status EXCEPT ![NextRun] = "QUEUED"]
         /\ task' = [task EXCEPT ![NextRun] = t]
         /\ keys' = [keys EXCEPT ![k] = [op |-> op, task |-> t, source |-> source,
                                         run |-> NextRun]]
         /\ reply' = [key |-> k, run |-> NextRun]

\* The rest of start_run and resume_run: put the reserved run in the queue,
\* also when this is the retry of a request that was already admitted.
Enqueue ==
    /\ queue' = IF reply'.run # NoRun /\ status'[reply'.run] = "QUEUED"
                THEN Append(queue, reply'.run) ELSE queue
    /\ UNCHANGED <<proc, running, worker, approval, crashes>>

Room == (\E r \in RunIds : status[r] = "none") /\ Len(queue) < MaxQueue

StartRun(k, t) ==
    /\ Listening /\ Room
    /\ Reserve(k, "reserve_run", t, NoRun)
    /\ UNCHANGED log
    /\ Enqueue \/ (MayDie /\ Die)

(* resume_run: a new run for an interrupted one.  When inspect_recovery finds *)
(* external computation the request is refused and the refusal recorded.     *)
ResumeRun(k, r) ==
    /\ Listening /\ Room
    /\ status[r] = "INTERRUPTED"
    /\ Reserve(k, "resume_run", task[r], r)
    /\ UNCHANGED log
    /\ Enqueue \/ (MayDie /\ Die)

ResumeRefused(r) ==
    /\ Listening
    /\ status[r] = "INTERRUPTED"
    /\ Count(r, "recovery_required") < MaxRecoveries
    /\ log' = Appended(r, "recovery_required")
    /\ UNCHANGED <<durable, proc, volatile, reply, crashes>>

-----------------------------------------------------------------------------
(* Cancellation and shutdown.                                               *)

(* _request_worker_cancel: at most once per run; not when cleanup has begun;  *)
(* a worker that is not registered yet finds the flag itself.                *)
CancelWorker ==
    worker' = IF worker.flag THEN worker
              ELSE [worker EXCEPT !.flag = TRUE,
                                  !.posted = worker.registered /\ ~worker.closing]

Withdraw == approval' = IF approval = "pending" THEN "withdrawn" ELSE approval

(* cancel: a queued run is cancelled on the spot, the run being executed gets  *)
(* CANCEL_REQUESTED, its approval is withdrawn and its worker told.          *)
CancelQueued(r) ==
    /\ Listening
    /\ status[r] = "QUEUED"
    /\ \/ /\ status' = [status EXCEPT ![r] = "CANCELLED"]
          /\ \/ /\ log' = [log EXCEPT ![r] = @ \o <<"cancel_requested", "run_cancelled">>]
                /\ UNCHANGED <<proc, volatile, crashes>>
             \/ MayDie /\ Die /\ log' = Appended(r, "cancel_requested")
       \/ /\ MayDie /\ Die
          /\ status' = [status EXCEPT ![r] = "CANCEL_REQUESTED"]
          /\ \/ UNCHANGED log
             \/ log' = Appended(r, "cancel_requested")
    /\ UNCHANGED <<task, keys, reply>>

\* Mutant of CancelRunning: the run is reported cancelled at once.
CancelRunningAtOnce(r) ==
    /\ Listening
    /\ status[r] = "RUNNING"
    /\ Commit(r, "CANCELLED", "run_cancelled",
              /\ Withdraw
              /\ IF running.run = r THEN CancelWorker ELSE UNCHANGED worker
              /\ UNCHANGED <<proc, queue, running, crashes>>)

CancelRunning(r) ==
    /\ Listening
    /\ status[r] = "RUNNING"
    /\ Commit(r, "CANCEL_REQUESTED", "cancel_requested",
              /\ Withdraw
              /\ IF running.run = r THEN CancelWorker ELSE UNCHANGED worker
              /\ UNCHANGED <<proc, queue, running, crashes>>)

(* stop: withdraw approvals, cancel the worker of the run in _running, wait    *)
(* for it, then drop the queue.                                              *)
StopBegins ==
    /\ proc = "up"
    /\ proc' = "stopping"
    /\ Withdraw
    /\ IF running.run # NoRun THEN CancelWorker ELSE UNCHANGED worker
    /\ UNCHANGED <<durable, log, queue, running, reply, crashes>>

StopEnds ==
    /\ proc = "stopping"
    /\ running = Free
    /\ proc' = "down"
    /\ queue' = <<>>
    /\ UNCHANGED <<durable, log, running, worker, approval, reply, crashes>>

Crash ==
    /\ proc # "down" /\ MayDie
    /\ Die
    /\ UNCHANGED <<durable, log, reply>>

-----------------------------------------------------------------------------
(* start: queued runs are admitted again, every other unfinished run of the    *)
(* dead process is interrupted.                                              *)

Unfinished == {r \in RunIds : status[r] \in Active}

Start ==
    /\ proc = "down"
    /\ proc' = "starting"
    /\ UNCHANGED <<durable, log, volatile, reply, crashes>>

\* Mutant of Interrupt: the runs of the dead process are queued again.
RequeueInterrupted(r) ==
    /\ proc = "starting"
    /\ status[r] \in Active \ {"QUEUED"}
    /\ Commit(r, "QUEUED", "run_interrupted", UNCHANGED <<proc, volatile, crashes>>)

Interrupt(r) ==
    /\ proc = "starting"
    /\ status[r] \in Active \ {"QUEUED"}
    /\ Commit(r, "INTERRUPTED", "run_interrupted",
              UNCHANGED <<proc, volatile, crashes>>)

\* The consumer starts once every unfinished run was treated.
StartEnds ==
    /\ proc = "starting"
    /\ \A r \in Unfinished : status[r] = "QUEUED"
    /\ \E order \in [1 .. Cardinality(Unfinished) -> Unfinished] :
          /\ {order[i] : i \in DOMAIN order} = Unfinished
          /\ queue' = order
    /\ proc' = "up"
    /\ UNCHANGED <<durable, log, running, worker, approval, reply, crashes>>

-----------------------------------------------------------------------------
(* The consumer and _execute, on the owner loop.                            *)

(* _consume: one run at a time; an id that is no longer QUEUED is dropped.    *)
Dequeue ==
    /\ proc = "up"
    /\ running = Free
    /\ queue # <<>>
    /\ queue' = Tail(queue)
    /\ running' = IF status[Head(queue)] = "QUEUED"
                  THEN [run |-> Head(queue), at |-> "created"] ELSE Free
    /\ UNCHANGED <<durable, log, proc, worker, approval, reply, crashes>>

(* The first part of _execute.  The run may have been cancelled since.        *)
BeginExecution ==
    LET r == running.run IN
    /\ running.at = "created"
    /\ \/ /\ status[r] # "QUEUED"
          /\ running' = Free
          /\ worker' = NoWorker
          /\ UNCHANGED <<durable, log, proc, queue, approval, reply, crashes>>
       \/ /\ status[r] = "QUEUED"
          /\ Commit(r, "RUNNING", "run_started",
                    /\ running' = [running EXCEPT !.at = "executing"]
                    /\ worker' = [worker EXCEPT !.at = "submitted"]
                    /\ UNCHANGED <<proc, queue, approval, crashes>>)

Finish(r, newStatus, event) ==
    Commit(r, newStatus, event,
           /\ running' = Free
           /\ worker' = NoWorker
           /\ UNCHANGED <<proc, queue, approval, crashes>>)

\* Mutant of EndExecution: a late cancellation does not count.
EndExecutionUnchecked ==
    /\ worker.at = "ended"
    /\ approval = "none"
    /\ \/ worker.outcome \in Completions /\ Finish(running.run, worker.outcome, "run_completed")
       \/ worker.outcome = "cancelled" /\ Finish(running.run, "INTERRUPTED", "run_interrupted")
       \/ worker.outcome = "error" /\ Finish(running.run, "FAILED", "run_failed")

\* Mutant of EndExecution: every CancelledError is told as an interruption.
EndExecutionMistold ==
    /\ worker.at = "ended"
    /\ approval = "none"
    /\ Finish(running.run,
              IF status[running.run] = "CANCEL_REQUESTED" THEN "CANCELLED" ELSE "INTERRUPTED",
              "run_interrupted")

(* The rest of _execute, when the worker's future is done.  Callbacks of the   *)
(* owner loop run in the order they were posted: a withdrawn approval is     *)
(* settled before the worker's end is seen.                                  *)
EndExecution ==
    LET r == running.run
        cancelled == status[r] = "CANCEL_REQUESTED" IN
    /\ worker.at = "ended"
    /\ approval = "none"
    /\ \/ /\ worker.outcome \in Completions
          /\ IF cancelled THEN Finish(r, "CANCELLED", "run_cancelled")
             ELSE Finish(r, worker.outcome, "run_completed")
       \/ /\ worker.outcome = "cancelled"
          /\ IF cancelled THEN Finish(r, "CANCELLED", "run_cancelled")
             ELSE Finish(r, "INTERRUPTED", "run_interrupted")
       \/ /\ worker.outcome = "error"
          /\ Finish(r, "FAILED", "run_failed")

-----------------------------------------------------------------------------
(* _worker_main, on the worker thread.  A run is a host operation, or its     *)
(* runtime is built and then driven (the body).  Only the body runs inside   *)
(* asyncio.timeout(wall_seconds); nothing in the manager limits the host     *)
(* operation, the building of the runtime and the closing of it.             *)

WorkerSteps(from, to) == worker.at = from /\ worker' = [worker EXCEPT !.at = to]
InMemory == UNCHANGED <<durable, log, proc, queue, running, reply, crashes>>

WorkerRegisters ==
    /\ worker.at = "submitted"
    /\ worker' = [worker EXCEPT !.at = "registered", !.registered = TRUE]
    /\ InMemory /\ UNCHANGED approval

\* Leave the body with an outcome; the finally block comes next.
Leave(outcome) ==
    worker' = [worker EXCEPT !.at = "leaving", !.outcome = outcome,
                             !.posted = @ /\ outcome # "cancelled"]

\* Mutant of WorkerChecksFlag: a cancellation that came before the worker
\* registered is not looked for.
WorkerChecksNothing ==
    /\ worker.at = "registered"
    /\ \/ WorkerSteps("registered", "host")
       \/ WorkerSteps("registered", "building")
    /\ InMemory /\ UNCHANGED approval

WorkerChecksFlag ==
    /\ worker.at = "registered"
    /\ IF worker.flag THEN Leave("cancelled")
       ELSE \/ WorkerSteps("registered", "host")
            \/ WorkerSteps("registered", "building")
    /\ InMemory /\ UNCHANGED approval

\* The snapshot is loaded and the runtime built and restored, or that fails.
WorkerBuilds ==
    /\ worker.at = "building"
    /\ WorkerSteps("building", "body") \/ Leave("error")
    /\ InMemory /\ UNCHANGED approval

(* The runtime, the closed loop or a host operation ends, with a result or     *)
(* with an exception.                                                        *)
WorkerFinishes ==
    /\ worker.at \in {"host", "body"}
    /\ \E outcome \in Completions \cup {"error"} :
          /\ outcome = "CANCELLED" => worker.at = "host"
          /\ Leave(outcome)
    /\ InMemory /\ UNCHANGED approval

\* The wall time of the run is over: the run becomes PARTIAL.
WallTimeout ==
    /\ worker.at \in {"body", "asking"}
    /\ Leave("PARTIAL")
    /\ Withdraw
    /\ InMemory

(* The task.cancel the owner loop posted arrives.  An evaluation takes it as   *)
(* the end of its case and returns a report that says CANCELLED.             *)
WorkerCancelled ==
    /\ worker.at \in {"host", "building", "body", "asking"}
    /\ worker.posted
    /\ \/ Leave("cancelled")
       \/ /\ worker.at = "host"
          /\ worker' = [worker EXCEPT !.at = "leaving", !.outcome = "CANCELLED",
                                      !.posted = FALSE]
    /\ Withdraw
    /\ InMemory

(* The finally block: from its first line on no cancellation is posted, but   *)
(* one posted before may still arrive and cut the cleanup short.             *)
WorkerCloses ==
    /\ worker.at = "leaving"
    /\ worker' = [worker EXCEPT !.at = "closing", !.closing = TRUE]
    /\ InMemory /\ UNCHANGED approval

CleanupCancelled ==
    /\ worker.at = "closing"
    /\ worker.posted
    /\ worker' = [worker EXCEPT !.outcome = "cancelled", !.posted = FALSE]
    /\ InMemory /\ UNCHANGED approval

WorkerEnds ==
    /\ worker.at = "closing"
    /\ worker' = [worker EXCEPT !.at = "ended", !.registered = FALSE, !.closing = FALSE]
    /\ InMemory /\ UNCHANGED approval

-----------------------------------------------------------------------------
(* Approvals: the worker asks, the owner loop publishes and settles.         *)

WorkerAsks ==
    /\ worker.at = "body"
    /\ approval = "none"
    /\ Count(running.run, "approval_pending") < MaxApprovals
    /\ WorkerSteps("body", "asking")
    /\ approval' = "requested"
    /\ InMemory

(* _await_approval: refused at once unless the run is RUNNING.               *)
ApprovalOpens ==
    LET r == running.run IN
    /\ approval = "requested"
    /\ IF proc = "stopping" \/ status[r] # "RUNNING"
       THEN /\ approval' = "none"
            /\ worker' = IF worker.at = "asking" THEN [worker EXCEPT !.at = "body"] ELSE worker
            /\ UNCHANGED log
       ELSE /\ approval' = IF worker.at = "asking" THEN "pending" ELSE "withdrawn"
            /\ log' = Appended(r, "approval_pending")
            /\ UNCHANGED worker
    /\ UNCHANGED <<durable, proc, queue, running, reply, crashes>>

(* resolve_approval: only while pending, the run RUNNING and not stopping.    *)
ResolveApproval ==
    /\ proc = "up"
    /\ approval = "pending"
    /\ status[running.run] = "RUNNING"
    /\ approval' = "decided"
    /\ UNCHANGED <<durable, log, proc, queue, running, worker, reply, crashes>>

\* Mutant of ApprovalCloses: only a decision is published, no withdrawal.
ApprovalClosesQuietly ==
    /\ approval \in {"decided", "withdrawn"}
    /\ log' = IF approval = "decided" THEN Appended(running.run, "approval_resolved") ELSE log
    /\ IF worker.at # "asking" THEN UNCHANGED worker
       ELSE IF approval = "decided" THEN WorkerSteps("asking", "body") ELSE Leave("cancelled")
    /\ approval' = "none"
    /\ UNCHANGED <<durable, proc, queue, running, reply, crashes>>

\* The finally block of _await_approval; the worker goes on with the decision,
\* or is cancelled by a withdrawn one.
ApprovalCloses ==
    /\ approval \in {"decided", "withdrawn"}
    /\ log' = Appended(running.run, "approval_resolved")
    /\ \/ worker.at = "asking" /\ approval = "decided" /\ WorkerSteps("asking", "body")
       \/ worker.at = "asking" /\ approval = "withdrawn" /\ Leave("cancelled")
       \/ worker.at # "asking" /\ UNCHANGED worker
    /\ approval' = "none"
    /\ UNCHANGED <<durable, proc, queue, running, reply, crashes>>

-----------------------------------------------------------------------------
WorkerStep ==
    \/ WorkerRegisters \/ WorkerChecksFlag \/ WorkerBuilds \/ WorkerFinishes
    \/ WallTimeout \/ WorkerCancelled \/ WorkerCloses \/ CleanupCancelled \/ WorkerEnds
    \/ WorkerAsks

OwnerStep ==
    \/ Dequeue \/ BeginExecution \/ EndExecution
    \/ ApprovalOpens \/ ApprovalCloses
    \/ StopEnds \/ StartEnds
    \/ \E r \in RunIds : Interrupt(r)

Request ==
    \/ \E k \in Keys, t \in Tasks : StartRun(k, t)
    \/ \E k \in Keys, r \in RunIds : ResumeRun(k, r)
    \/ \E r \in RunIds : ResumeRefused(r) \/ CancelQueued(r) \/ CancelRunning(r)
    \/ ResolveApproval

Next == WorkerStep \/ OwnerStep \/ Request \/ StopBegins \/ Start \/ Crash

Spec == Init /\ [][Next]_vars

(* Both event loops keep running, a started manager finishes starting, and     *)
(* asyncio.timeout fires: the body yields to its loop again and again.        *)
(* Nothing obliges a client to ask, a user to answer or a tool to end, nor    *)
(* what no timeout surrounds - a host operation, the building of a runtime    *)
(* and its closing - to end or to take a cancellation.                        *)
FairSpec ==
    /\ Spec
    /\ WF_vars(\/ StartEnds \/ StopEnds \/ \E r \in RunIds : Interrupt(r)
               \/ Dequeue \/ BeginExecution \/ EndExecution)
    /\ WF_vars(ApprovalOpens \/ ApprovalCloses)
    /\ WF_vars(WorkerRegisters \/ WorkerChecksFlag \/ WorkerCloses)
    /\ WF_vars(WallTimeout)

-----------------------------------------------------------------------------
(* Properties.                                                              *)

Events == {"run_started", "cancel_requested", "run_completed", "run_cancelled",
           "run_interrupted", "run_failed", "recovery_required",
           "approval_pending", "approval_resolved"}
Outcomes == Completions \cup {"cancelled", "error"}

(* The rows, and what the two loops keep in memory, have their shape.         *)
TypeOK ==
    /\ status \in [RunIds -> Active \cup Finished \cup {"none"}]
    /\ task \in [RunIds -> Tasks \cup {"none"}]
    /\ keys \in [Keys -> [op : {"none", "reserve_run", "resume_run"},
                         task : Tasks \cup {"none"},
                         source : RunIds \cup {NoRun}, run : RunIds \cup {NoRun}]]
    /\ log \in [RunIds -> Seq(Events)]
    /\ proc \in {"down", "starting", "up", "stopping"}
    /\ queue \in Seq(RunIds)
    /\ running \in [run : RunIds \cup {NoRun}, at : {"idle", "created", "executing"}]
    /\ worker \in [at : {"none", "submitted", "registered", "host", "building", "body",
                         "asking", "leaving", "closing", "ended"},
                   flag : BOOLEAN, posted : BOOLEAN, registered : BOOLEAN,
                   closing : BOOLEAN, outcome : Outcomes \cup {"none"}]
    /\ approval \in {"none", "requested", "pending", "decided", "withdrawn"}
    /\ reply \in [key : Keys \cup {"none"}, run : RunIds \cup {NoRun}]
    /\ crashes \in Nat

(* store.py:106-108: a task never has two unfinished runs, though runs are     *)
(* admitted, resumed and retried around crashes.                             *)
OneActiveRunPerTask ==
    /\ TypeOK
    /\ \A r, q \in RunIds :
           status[r] \in Active /\ status[q] \in Active /\ task[r] = task[q] => r = q

(* A run is executed at most once, although a retried request, a restart and   *)
(* the queue may each hand its id to the consumer again.                     *)
SingleExecution == \A r \in RunIds : Count(r, "run_started") <= 1

(* While a worker is at work its run is RUNNING or CANCEL_REQUESTED: no run     *)
(* is reported finished, and its task freed for the next run, before its     *)
(* worker has saved the session and released the runtime.                    *)
NoWorkAfterTheEnd ==
    worker.at \notin {"none", "ended"} =>
        status[running.run] \in {"RUNNING", "CANCEL_REQUESTED"}

(* A run that was told to cancel never becomes a success: whatever its worker  *)
(* still produces, it ends cancelled, failed or interrupted.                 *)
CancelHonoured ==
    [][\A r \in RunIds :
          status[r] = "CANCEL_REQUESTED" /\ status'[r] # status[r]
              => status'[r] \in {"CANCELLED", "FAILED", "INTERRUPTED"}]_vars

\* The status a run has once the event was appended.
EndedBy ==
    [e \in {"run_completed", "run_cancelled", "run_interrupted", "run_failed"} |->
        CASE e = "run_completed" -> Completions
          [] e = "run_cancelled" -> {"CANCELLED"}
          [] e = "run_interrupted" -> {"INTERRUPTED"}
          [] e = "run_failed" -> {"FAILED"}]

(* What the event stream tells a client of the end of a run is what the row    *)
(* says, and it is told once: only a recovery notice comes after it.         *)
EndIsTold ==
    \A r \in RunIds : \A i \in DOMAIN log[r] :
        log[r][i] \in DOMAIN EndedBy =>
            /\ status[r] \in EndedBy[log[r][i]]
            /\ \A j \in (i + 1) .. Len(log[r]) : log[r][j] = "recovery_required"

(* runner.py:210-215: every approval that was published is settled before the  *)
(* run ends, however it ends, unless the process died.                       *)
ApprovalsSettled ==
    \A r \in RunIds :
        status[r] \in Finished /\ crashes = 0
            => Count(r, "approval_pending") = Count(r, "approval_resolved")

\* Where the manager sets the worker no limit, and what it was told is done
\* with: it was not asked to cancel, or the request is still on its way.
Unlimited ==
    \/ worker.at \in {"host", "building"} /\ (worker.flag => worker.posted)
    \/ worker.at = "closing"

(* An admitted run ends, also one that waits for an approval nobody gives, one *)
(* that was told to cancel and the ones queued behind it, unless the process *)
(* stops first; and stop ends.  The one excuse is a worker that for ever is  *)
(* where no timeout reaches it (runner.py:327-337, 350-359, 448-453), and    *)
(* there only as long as no cancellation was lost on it.                     *)
RunsSettle ==
    \/ <>[]Unlimited
    \/ /\ \A r \in RunIds : status[r] \in Active /\ proc = "up"
                              ~> status[r] \in Finished \/ proc # "up"
       /\ proc = "stopping" ~> proc = "down"
=============================================================================
