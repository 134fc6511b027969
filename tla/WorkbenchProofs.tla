---------------------------- MODULE WorkbenchProofs ----------------------------
(***************************************************************************)
(* Theorems about WorkbenchRuns for every set of tasks and keys and every   *)
(* bound: one active run per task, one execution per run, no work behind a  *)
(* finished row, a cancellation that is honoured, an end that is told once  *)
(* and truthfully, and approvals that are settled.                          *)
(***************************************************************************)
EXTENDS WorkbenchRuns, FiniteSetTheorems, SequenceTheorems,
        WellFoundedInduction, TLAPS

-----------------------------------------------------------------------------
(* Counting the events of a log.                                            *)

Marks(s, x) == {i \in DOMAIN s : s[i] = x}

LEMMA MarksFinite ==
    ASSUME NEW S, NEW s \in Seq(S), NEW x
    PROVE  IsFiniteSet(Marks(s, x)) /\ Cardinality(Marks(s, x)) \in Nat
<1>1. Marks(s, x) \in SUBSET (1 .. Len(s)) /\ Len(s) \in Nat
  BY LenProperties DEF Marks
<1>2. IsFiniteSet(1 .. Len(s))
  BY <1>1, FS_Interval
<1> QED BY <1>1, <1>2, FS_Subset, FS_CardinalityType

\* An appended event counts for itself.
LEMMA MarksAppend ==
    ASSUME NEW S, NEW s \in Seq(S), NEW e \in S, NEW x
    PROVE  Cardinality(Marks(Append(s, e), x))
              = Cardinality(Marks(s, x)) + (IF e = x THEN 1 ELSE 0)
<1> DEFINE t == Append(s, e)
<1>1. /\ Len(s) \in Nat /\ DOMAIN s = 1 .. Len(s)
      /\ DOMAIN t = 1 .. (Len(s) + 1)
      /\ \A i \in 1 .. Len(s) : t[i] = s[i]
      /\ t[Len(s) + 1] = e
  BY LenProperties, AppendProperties
<1>2. IsFiniteSet(Marks(s, x)) /\ Cardinality(Marks(s, x)) \in Nat
  BY MarksFinite
<1>3. CASE e = x
  <2>1. Marks(t, x) = Marks(s, x) \cup {Len(s) + 1}
    BY <1>1, <1>3 DEF Marks
  <2>2. Len(s) + 1 \notin Marks(s, x)
    BY <1>1 DEF Marks
  <2> QED BY <1>2, <1>3, <2>1, <2>2, FS_AddElement
<1>4. CASE e # x
  <2>1. Marks(t, x) = Marks(s, x)
    BY <1>1, <1>4 DEF Marks
  <2> QED BY <1>2, <1>4, <2>1
<1> QED BY <1>3, <1>4

LEMMA MarksOther ==
    ASSUME NEW S, NEW s \in Seq(S), NEW e \in S, NEW x, e # x
    PROVE  Cardinality(Marks(Append(s, e), x)) = Cardinality(Marks(s, x))
<1>1. Cardinality(Marks(s, x)) \in Nat
  BY MarksFinite
<1> QED BY <1>1, MarksAppend

LEMMA CountIsMarks ==
    ASSUME NEW r, NEW e
    PROVE  Count(r, e) = Cardinality(Marks(log[r], e))
BY DEF Count, Marks

-----------------------------------------------------------------------------
(* The next free run id is one: a non-empty set of numbers has a least.      *)

LEMMA NextRunIsFree ==
    ASSUME WorkbenchAssumption, \E r \in RunIds : status[r] = "none"
    PROVE  NextRun \in RunIds /\ status[NextRun] = "none"
<1> DEFINE T == {r \in RunIds : status[r] = "none"}
<1>1. T \subseteq Nat /\ T # {}
  BY DEF RunIds, WorkbenchAssumption
<1>2. PICK m \in T : \A y \in T : ~ (<<y, m>> \in OpToRel(<, Nat))
  BY <1>1, NatLessThanWellFounded, WFMin, Zenon
<1>3. \A q \in RunIds : q < m => status[q] # "none"
  <2>1. \A q \in T : ~ (q < m)
    BY <1>1, <1>2 DEF OpToRel
  <2> QED BY <2>1
<1> QED BY <1>3 DEF NextRun

-----------------------------------------------------------------------------
(* Type correctness.                                                        *)

Statuses == Active \cup Finished \cup {"none"}

LEMMA StatusesAre ==
    /\ Statuses = {"none", "QUEUED", "RUNNING", "CANCEL_REQUESTED", "SUCCEEDED",
                   "PARTIAL", "FAILED", "CANCELLED", "INTERRUPTED"}
    /\ Completions \subseteq Statuses
BY DEF Statuses, Active, Finished, Completions

LEMMA EventsAre ==
    {"run_started", "cancel_requested", "run_completed", "run_cancelled", "run_interrupted",
     "run_failed", "recovery_required", "approval_pending", "approval_resolved"} = Events
BY DEF Events

LEMMA AppendedTyped ==
    ASSUME log \in [RunIds -> Seq(Events)], NEW r, NEW e \in Events
    PROVE  Appended(r, e) \in [RunIds -> Seq(Events)]
<1>1. \A q \in RunIds : Append(log[q], e) \in Seq(Events)
  BY AppendProperties
<1> QED BY <1>1 DEF Appended

\* What is left of the memory after a crash has its shape.
MemoryTyped ==
    /\ proc \in {"down", "starting", "up", "stopping"}
    /\ queue \in Seq(RunIds)
    /\ running \in [run : RunIds \cup {NoRun}, at : {"idle", "created", "executing"}]
    /\ worker \in [at : {"none", "submitted", "registered", "host", "building", "body",
                         "asking", "leaving", "closing", "ended"},
                   flag : BOOLEAN, posted : BOOLEAN, registered : BOOLEAN,
                   closing : BOOLEAN, outcome : Outcomes \cup {"none"}]
    /\ approval \in {"none", "requested", "pending", "decided", "withdrawn"}
    /\ crashes \in Nat

\* What a key may be bound to.
Bindings == [op : {"none", "reserve_run", "resume_run"}, task : Tasks \cup {"none"},
             source : RunIds \cup {NoRun}, run : RunIds \cup {NoRun}]

RowsTyped ==
    /\ status \in [RunIds -> Statuses]
    /\ task \in [RunIds -> Tasks \cup {"none"}]
    /\ keys \in [Keys -> Bindings]
    /\ log \in [RunIds -> Seq(Events)]
    /\ reply \in [key : Keys \cup {"none"}, run : RunIds \cup {NoRun}]

LEMMA TypeParts == TypeOK <=> RowsTyped /\ MemoryTyped
BY DEF TypeOK, RowsTyped, MemoryTyped, Statuses, Bindings

LEMMA TypeInit == Init => TypeOK
<1> SUFFICES ASSUME Init PROVE RowsTyped /\ MemoryTyped
  BY TypeParts
<1>1. RowsTyped
  BY EmptySeq DEF Init, RowsTyped, Bindings, Statuses, NoBinding, NoReply
<1>2. MemoryTyped
  BY EmptySeq DEF Init, MemoryTyped, Free, NoWorker
<1> QED BY <1>1, <1>2

LEMMA DieTyped == MemoryTyped /\ Die => MemoryTyped'
BY EmptySeq DEF MemoryTyped, Die, Free, NoWorker

LEMMA Retyped ==
    ASSUME RowsTyped, NEW r, NEW s \in Statuses, NEW e \in Events,
           status' = [status EXCEPT ![r] = s],
           log' = Appended(r, e) \/ log' = log,
           UNCHANGED <<task, keys, reply>>
    PROVE  RowsTyped'
<1>1. log' \in [RunIds -> Seq(Events)]
  BY AppendedTyped DEF RowsTyped
<1> QED BY <1>1 DEF RowsTyped

LEMMA TypePrimed ==
    ASSUME RowsTyped', MemoryTyped'
    PROVE  TypeOK'
BY TypeParts, PTL

LEMMA EnqueueTyped ==
    ASSUME TypeOK, RowsTyped', Enqueue
    PROVE  MemoryTyped'
<1>1. reply'.run # NoRun => reply'.run \in RunIds
  BY DEF RowsTyped, NoRun
<1>2. queue' \in Seq(RunIds)
  BY <1>1, AppendProperties DEF Enqueue, TypeOK
<1> QED BY <1>2 DEF Enqueue, TypeOK, MemoryTyped

LEMMA ReserveTyped ==
    ASSUME WorkbenchAssumption, TypeOK, \E r \in RunIds : status[r] = "none",
           NEW k \in Keys, NEW op \in {"reserve_run", "resume_run"},
           NEW t \in Tasks \cup {"none"}, NEW source \in RunIds \cup {NoRun},
           Reserve(k, op, t, source), UNCHANGED log
    PROVE  RowsTyped'
<1>1. CASE keys[k] # NoBinding
  BY <1>1 DEF Reserve, TypeOK, RowsTyped, Bindings, Statuses, durable
<1>2. CASE keys[k] = NoBinding /\ ActiveRun(t)
  BY <1>2 DEF Reserve, TypeOK, RowsTyped, Bindings, Statuses, durable
<1>3. CASE keys[k] = NoBinding /\ ~ActiveRun(t)
  <2>1. NextRun \in RunIds
    BY NextRunIsFree
  <2>2. "QUEUED" \in Statuses
    BY StatusesAre
  <2>3. status' \in [RunIds -> Statuses]
    BY <1>3, <2>2 DEF Reserve, TypeOK, Statuses
  <2>4. task' \in [RunIds -> Tasks \cup {"none"}]
    BY <1>3 DEF Reserve, TypeOK
  <2>5. keys' \in [Keys -> Bindings]
    <3>1. [op |-> op, task |-> t, source |-> source, run |-> NextRun] \in Bindings
      BY <2>1 DEF Bindings
    <3>2. keys \in [Keys -> Bindings]
      BY DEF TypeOK, Bindings
    <3>3. keys' = [keys EXCEPT ![k] = [op |-> op, task |-> t, source |-> source,
                                       run |-> NextRun]]
      BY <1>3 DEF Reserve
    <3> QED BY <3>1, <3>2, <3>3
  <2>6. reply' \in [key : Keys \cup {"none"}, run : RunIds \cup {NoRun}]
    BY <1>3, <2>1 DEF Reserve, TypeOK
  <2> QED BY <2>3, <2>4, <2>5, <2>6 DEF TypeOK, RowsTyped, Bindings
<1> QED BY <1>1, <1>2, <1>3

\* The worker record and the approval keep their shape under every change of
\* some of their fields.
WorkerTyped ==
    worker \in [at : {"none", "submitted", "registered", "host", "building", "body",
                     "asking", "leaving", "closing", "ended"},
               flag : BOOLEAN, posted : BOOLEAN, registered : BOOLEAN,
               closing : BOOLEAN, outcome : Outcomes \cup {"none"}]

LEMMA WithdrawTyped ==
    MemoryTyped /\ Withdraw => approval' \in {"none", "requested", "pending", "decided", "withdrawn"}
BY DEF MemoryTyped, Withdraw

LEMMA CancelWorkerTyped == WorkerTyped /\ CancelWorker => WorkerTyped'
BY DEF WorkerTyped, CancelWorker

LEMMA LeaveTyped ==
    ASSUME WorkerTyped, NEW o \in Outcomes, Leave(o)
    PROVE  WorkerTyped'
BY DEF WorkerTyped, Leave

LEMMA WorkerStepsTyped ==
    ASSUME WorkerTyped, NEW from, NEW to \in {"host", "building", "body", "asking"},
           WorkerSteps(from, to)
    PROVE  WorkerTyped'
BY DEF WorkerTyped, WorkerSteps

LEMMA WorkerOnly ==
    ASSUME RowsTyped, MemoryTyped, InMemory, WorkerTyped',
           UNCHANGED approval \/ Withdraw \/ approval' = "requested"
    PROVE  RowsTyped' /\ MemoryTyped'
<1>1. RowsTyped'
  BY DEF RowsTyped, InMemory, durable
<1>2. approval' \in {"none", "requested", "pending", "decided", "withdrawn"}
  BY WithdrawTyped DEF MemoryTyped
<1>3. MemoryTyped'
  BY <1>2 DEF MemoryTyped, WorkerTyped, InMemory
<1> QED BY <1>1, <1>3

LEMMA TypeStep == WorkbenchAssumption /\ TypeOK /\ [Next]_vars => TypeOK'
<1> SUFFICES ASSUME WorkbenchAssumption, TypeOK, [Next]_vars
             PROVE  RowsTyped' /\ MemoryTyped'
  BY TypePrimed
<1>0. RowsTyped /\ MemoryTyped /\ WorkerTyped
  BY TypeParts DEF MemoryTyped, WorkerTyped
<1>a. UNCHANGED <<durable, log, reply>> => RowsTyped'
  BY <1>0 DEF RowsTyped, durable
<1>b. Die => MemoryTyped'
  BY <1>0, DieTyped
<1>c. UNCHANGED <<proc, volatile, crashes>> => MemoryTyped'
  BY <1>0 DEF MemoryTyped, volatile
<1>1. ASSUME NEW k \in Keys, NEW t \in Tasks, StartRun(k, t)
      PROVE  RowsTyped' /\ MemoryTyped'
  <2>1. RowsTyped'
    BY <1>1, ReserveTyped DEF StartRun, Room
  <2> QED BY <1>1, <1>b, <2>1, EnqueueTyped DEF StartRun
<1>2. ASSUME NEW k \in Keys, NEW r \in RunIds, ResumeRun(k, r)
      PROVE  RowsTyped' /\ MemoryTyped'
  <2>1. task[r] \in Tasks \cup {"none"}
    BY DEF TypeOK
  <2>2. RowsTyped'
    BY <1>2, <2>1, ReserveTyped DEF ResumeRun, Room
  <2> QED BY <1>2, <1>b, <2>2, EnqueueTyped DEF ResumeRun
<1>3. ASSUME NEW r \in RunIds, ResumeRefused(r)
      PROVE  RowsTyped' /\ MemoryTyped'
  <2>1. log' \in [RunIds -> Seq(Events)]
    BY <1>3, AppendedTyped DEF ResumeRefused, TypeOK, Events
  <2> QED BY <1>0, <1>3, <1>c, <2>1 DEF ResumeRefused, RowsTyped, durable
<1>4. ASSUME NEW r \in RunIds, CancelQueued(r)
      PROVE  RowsTyped' /\ MemoryTyped'
  <2>1. /\ status' = [status EXCEPT ![r] = "CANCELLED"]
        \/ status' = [status EXCEPT ![r] = "CANCEL_REQUESTED"]
    BY <1>4 DEF CancelQueued
  <2>2. status' \in [RunIds -> Statuses]
    BY <1>0, <2>1, StatusesAre DEF RowsTyped
  <2>3. log[r] \o <<"cancel_requested", "run_cancelled">> \in Seq(Events)
    <3>1. <<"cancel_requested", "run_cancelled">> \in Seq(Events)
      BY DEF Events
    <3> QED BY <1>0, <3>1, ConcatProperties DEF RowsTyped
  <2>4. [log EXCEPT ![r] = @ \o <<"cancel_requested", "run_cancelled">>] \in [RunIds -> Seq(Events)]
    BY <1>0, <2>3 DEF RowsTyped
  <2>5. Appended(r, "cancel_requested") \in [RunIds -> Seq(Events)]
    BY <1>0, AppendedTyped DEF RowsTyped, Events
  <2>6. log' \in [RunIds -> Seq(Events)]
    BY <1>0, <1>4, <2>4, <2>5 DEF CancelQueued, RowsTyped
  <2>7. RowsTyped'
    BY <1>0, <1>4, <2>2, <2>6 DEF CancelQueued, RowsTyped
  <2>8. MemoryTyped'
    BY <1>4, <1>b, <1>c DEF CancelQueued
  <2> QED BY <2>7, <2>8
<1>5. ASSUME NEW r \in RunIds, CancelRunning(r)
      PROVE  RowsTyped' /\ MemoryTyped'
  <2>1. RowsTyped'
    BY <1>0, <1>5, Retyped, StatusesAre DEF CancelRunning, Commit, Events
  <2>2. CASE Die
    BY <1>b, <2>1, <2>2
  <2>3. CASE /\ Withdraw
             /\ IF running.run = r THEN CancelWorker ELSE UNCHANGED worker
             /\ UNCHANGED <<proc, queue, running, crashes>>
    <3>1. WorkerTyped'
      BY <1>0, <2>3, CancelWorkerTyped DEF WorkerTyped
    <3> QED BY <1>0, <2>1, <2>3, <3>1, WithdrawTyped DEF MemoryTyped, WorkerTyped
  <2> QED BY <1>5, <2>2, <2>3 DEF CancelRunning, Commit
<1>6. ASSUME StopBegins
      PROVE  RowsTyped' /\ MemoryTyped'
  <2>1. WorkerTyped'
    BY <1>0, <1>6, CancelWorkerTyped DEF WorkerTyped, StopBegins
  <2>2. MemoryTyped'
    BY <1>0, <1>6, <2>1, WithdrawTyped DEF MemoryTyped, WorkerTyped, StopBegins
  <2> QED BY <1>6, <1>a, <2>2 DEF StopBegins
<1>7. ASSUME StopEnds
      PROVE  RowsTyped' /\ MemoryTyped'
  <2>1. MemoryTyped'
    BY <1>0, <1>7, EmptySeq DEF MemoryTyped, StopEnds
  <2> QED BY <1>7, <1>a, <2>1 DEF StopEnds
<1>8. ASSUME Crash
      PROVE  RowsTyped' /\ MemoryTyped'
  BY <1>8, <1>a, <1>b DEF Crash
<1>9. ASSUME Start
      PROVE  RowsTyped' /\ MemoryTyped'
  <2>1. MemoryTyped'
    BY <1>0, <1>9 DEF MemoryTyped, Start, volatile
  <2> QED BY <1>9, <1>a, <2>1 DEF Start
<1>10. ASSUME NEW r \in RunIds, Interrupt(r)
       PROVE  RowsTyped' /\ MemoryTyped'
  <2>1. RowsTyped'
    BY <1>0, <1>10, Retyped, StatusesAre DEF Interrupt, Commit, Events
  <2> QED BY <1>10, <1>b, <1>c, <2>1 DEF Interrupt, Commit
<1>11. ASSUME StartEnds
       PROVE  RowsTyped' /\ MemoryTyped'
  <2>1. Unfinished \subseteq RunIds /\ IsFiniteSet(RunIds)
    BY FS_Interval DEF Unfinished, RunIds, WorkbenchAssumption
  <2>2. Cardinality(Unfinished) \in Nat
    BY <2>1, FS_Subset, FS_CardinalityType
  <2>3. queue' \in Seq(RunIds)
    BY <1>11, <2>1, <2>2 DEF StartEnds
  <2>4. MemoryTyped'
    BY <1>0, <1>11, <2>3 DEF MemoryTyped, StartEnds
  <2> QED BY <1>11, <1>a, <2>4 DEF StartEnds
<1>12. ASSUME Dequeue
       PROVE  RowsTyped' /\ MemoryTyped'
  <2>1. Head(queue) \in RunIds /\ Tail(queue) \in Seq(RunIds)
    BY <1>0, <1>12, HeadTailProperties DEF MemoryTyped, Dequeue
  <2>2. MemoryTyped'
    BY <1>0, <1>12, <2>1 DEF MemoryTyped, Dequeue, Free
  <2> QED BY <1>12, <1>a, <2>2 DEF Dequeue
<1>13. ASSUME BeginExecution
       PROVE  RowsTyped' /\ MemoryTyped'
  <2>1. RowsTyped'
    BY <1>0, <1>13, <1>a, Retyped, StatusesAre DEF BeginExecution, Commit, Events
  <2>2. CASE UNCHANGED log /\ Die
    BY <1>b, <2>1, <2>2
  <2>3. CASE /\ running' = Free /\ worker' = NoWorker
             /\ UNCHANGED <<proc, queue, approval, crashes>>
    BY <1>0, <2>1, <2>3 DEF MemoryTyped, Free, NoWorker
  <2>4. CASE /\ running' = [running EXCEPT !.at = "executing"]
             /\ worker' = [worker EXCEPT !.at = "submitted"]
             /\ UNCHANGED <<proc, queue, approval, crashes>>
    BY <1>0, <2>1, <2>4 DEF MemoryTyped
  <2> QED BY <1>13, <2>2, <2>3, <2>4 DEF BeginExecution, Commit
<1>14. ASSUME EndExecution
       PROVE  RowsTyped' /\ MemoryTyped'
  <2>1. PICK s \in Statuses, e \in Events : Finish(running.run, s, e)
    BY <1>14, StatusesAre DEF EndExecution, Events
  <2>2. RowsTyped'
    BY <1>0, <2>1, Retyped DEF Finish, Commit
  <2>3. CASE Die
    BY <1>b, <2>2, <2>3
  <2>4. CASE /\ running' = Free /\ worker' = NoWorker
             /\ UNCHANGED <<proc, queue, approval, crashes>>
    BY <1>0, <2>2, <2>4 DEF MemoryTyped, Free, NoWorker
  <2> QED BY <2>1, <2>3, <2>4 DEF Finish, Commit
<1>15. ASSUME WorkerStep
       PROVE  RowsTyped' /\ MemoryTyped'
  <2>1. CASE WorkerRegisters \/ WorkerCloses \/ CleanupCancelled \/ WorkerEnds
    <3>1. WorkerTyped'
      BY <1>0, <2>1 DEF WorkerRegisters, WorkerCloses, CleanupCancelled, WorkerEnds,
                        WorkerTyped, Outcomes
    <3> QED BY <1>0, <2>1, <3>1, WorkerOnly
              DEF WorkerRegisters, WorkerCloses, CleanupCancelled, WorkerEnds
  <2>2. CASE WorkerChecksFlag \/ WorkerBuilds
    <3>1. WorkerTyped'
      BY <1>0, <2>2, LeaveTyped, WorkerStepsTyped DEF WorkerChecksFlag, WorkerBuilds, Outcomes
    <3> QED BY <1>0, <2>2, <3>1, WorkerOnly DEF WorkerChecksFlag, WorkerBuilds
  <2>3. CASE WorkerFinishes
    <3>1. WorkerTyped'
      BY <1>0, <2>3, LeaveTyped DEF WorkerFinishes, Outcomes
    <3> QED BY <1>0, <2>3, <3>1, WorkerOnly DEF WorkerFinishes
  <2>4. CASE WallTimeout \/ WorkerCancelled
    <3>1. WorkerTyped'
      BY <1>0, <2>4, LeaveTyped
         DEF WallTimeout, WorkerCancelled, WorkerTyped, Outcomes, Completions
    <3> QED BY <1>0, <2>4, <3>1, WorkerOnly DEF WallTimeout, WorkerCancelled
  <2>5. CASE WorkerAsks
    <3>1. WorkerTyped'
      BY <1>0, <2>5, WorkerStepsTyped DEF WorkerAsks
    <3> QED BY <1>0, <2>5, <3>1, WorkerOnly DEF WorkerAsks
  <2> QED BY <1>15, <2>1, <2>2, <2>3, <2>4, <2>5 DEF WorkerStep
<1>16. ASSUME ApprovalOpens \/ ApprovalCloses \/ ResolveApproval
       PROVE  RowsTyped' /\ MemoryTyped'
  <2>1. log' \in [RunIds -> Seq(Events)]
    BY <1>0, <1>16, AppendedTyped
       DEF ApprovalOpens, ApprovalCloses, ResolveApproval, RowsTyped, Events
  <2>2. RowsTyped'
    BY <1>0, <1>16, <2>1 DEF ApprovalOpens, ApprovalCloses, ResolveApproval, RowsTyped, durable
  <2>3. WorkerTyped'
    <3>1. CASE ApprovalOpens
      BY <1>0, <3>1 DEF ApprovalOpens, WorkerTyped
    <3>2. CASE ApprovalCloses
      BY <1>0, <3>2, LeaveTyped, WorkerStepsTyped DEF ApprovalCloses, WorkerTyped, Outcomes
    <3>3. CASE ResolveApproval
      BY <1>0, <3>3 DEF ResolveApproval, WorkerTyped
    <3> QED BY <1>16, <3>1, <3>2, <3>3
  <2>4. MemoryTyped'
    BY <1>0, <1>16, <2>3
       DEF MemoryTyped, WorkerTyped, ApprovalOpens, ApprovalCloses, ResolveApproval
  <2> QED BY <2>2, <2>4
<1>17. ASSUME UNCHANGED vars
       PROVE  RowsTyped' /\ MemoryTyped'
  BY <1>17, <1>a, <1>c DEF vars, durable, volatile
<1> QED BY <1>1, <1>2, <1>3, <1>4, <1>5, <1>6, <1>7, <1>8, <1>9, <1>10, <1>11,
           <1>12, <1>13, <1>14, <1>15, <1>16, <1>17 DEF Next, OwnerStep, Request

(* Every reachable state has the shape TypeOK says.                           *)
THEOREM TypeCorrect == Spec => []TypeOK
<1> USE WorkbenchAssumption
<1>1. Init => TypeOK
  BY TypeInit
<1>2. TypeOK /\ [Next]_vars => TypeOK'
  BY TypeStep
<1> QED BY <1>1, <1>2, PTL DEF Spec

-----------------------------------------------------------------------------
(* The memory of the process: who is executing what.                        *)

\* Only an executing run has a worker or an approval, and only a listening
\* process has a run at all.
Memory ==
    /\ proc \in {"down", "starting"} => running = Free
    /\ running.at = "idle" <=> running.run = NoRun
    /\ worker.at = "none" <=> running.at # "executing"
    /\ approval # "none" => running.at = "executing"

Working ==
    running.at = "executing" =>
        running.run \in RunIds /\ status[running.run] \in {"RUNNING", "CANCEL_REQUESTED"}

\* Both survive a step of the worker thread that neither starts nor ends work.
LEMMA WorkerOnlyKeeps ==
    ASSUME TypeOK, Memory, Working,
           InMemory, worker.at # "none", worker'.at # "none"
    PROVE  Memory' /\ Working'
<1>1. running.at = "executing" /\ proc \notin {"down", "starting"} /\ running.run # NoRun
  BY DEF Memory, TypeOK, Free
<1> QED BY <1>1 DEF Memory, Working, InMemory, durable

LEMMA WorkerMoves ==
    ASSUME TypeOK, Memory, WorkerStep
    PROVE  InMemory /\ worker.at # "none" /\ worker'.at # "none"
<1>1. worker.at # "none" /\ InMemory
  BY DEF WorkerStep, WorkerRegisters, WorkerChecksFlag, WorkerBuilds, WorkerFinishes, WallTimeout,
         WorkerCancelled, WorkerCloses, CleanupCancelled, WorkerEnds, WorkerAsks, WorkerSteps
<1>2. worker'.at # "none"
  <2>1. CASE WorkerRegisters \/ WorkerCloses \/ CleanupCancelled \/ WorkerEnds
    BY <2>1 DEF WorkerRegisters, WorkerCloses, CleanupCancelled, WorkerEnds, TypeOK
  <2>2. CASE \/ WorkerChecksFlag \/ WorkerBuilds \/ WorkerFinishes
             \/ WallTimeout \/ WorkerCancelled \/ WorkerAsks
    BY <2>2 DEF WorkerChecksFlag, WorkerBuilds, WorkerFinishes, WallTimeout, WorkerCancelled, WorkerAsks,
                WorkerSteps, Leave, TypeOK
  <2> QED BY <2>1, <2>2 DEF WorkerStep
<1> QED BY <1>1, <1>2

LEMMA DieForgets ==
    ASSUME Die
    PROVE  Memory' /\ Working'
BY DEF Die, Memory, Working, Free, NoWorker, NoRun

\* A run leaves RUNNING and CANCEL_REQUESTED with its worker gone.
LEMMA FinishForgets ==
    ASSUME TypeOK, Memory, NEW s, NEW e, Finish(running.run, s, e), approval = "none"
    PROVE  Memory' /\ Working'
<1>1. CASE Die
  BY <1>1, DieForgets
<1>2. CASE running' = Free /\ worker' = NoWorker /\ UNCHANGED <<proc, approval>>
  BY <1>2 DEF Memory, Working, Free, NoWorker, NoRun
<1> QED BY <1>1, <1>2 DEF Finish, Commit

LEMMA CancelWorkerKeeps ==
    ASSUME TypeOK, CancelWorker \/ UNCHANGED worker
    PROVE  worker'.at = worker.at
BY DEF CancelWorker, TypeOK

\* A reservation touches nothing but a row that was free.
LEMMA ReserveKeeps ==
    ASSUME WorkbenchAssumption, TypeOK, \E r \in RunIds : status[r] = "none",
           NEW k, NEW op, NEW t, NEW source, Reserve(k, op, t, source)
    PROVE  \/ UNCHANGED <<status, task>>
           \/ \E n \in RunIds :
                 /\ status[n] = "none" /\ ~ActiveRun(t)
                 /\ status' = [status EXCEPT ![n] = "QUEUED"]
                 /\ task' = [task EXCEPT ![n] = t]
BY NextRunIsFree DEF Reserve, durable

LEMMA MemoryInit == Init => Memory /\ Working
BY DEF Init, Memory, Working, Free, NoWorker, NoRun

LEMMA MemoryStep ==
    ASSUME WorkbenchAssumption, TypeOK, Memory, Working, [Next]_vars
    PROVE  Memory' /\ Working'
<1>0. Die => Memory' /\ Working'
  BY DieForgets
<1>a. UNCHANGED <<proc, running, worker, approval, status>> => Memory' /\ Working'
  BY DEF Memory, Working
<1>1. ASSUME NEW k \in Keys, NEW t \in Tasks \cup {"none"}, NEW op, NEW source,
             Listening, Room, Reserve(k, op, t, source), Enqueue \/ Die
      PROVE  Memory' /\ Working'
  <2>1. \/ status' = status
        \/ \E n \in RunIds : status[n] = "none" /\ status' = [status EXCEPT ![n] = "QUEUED"]
    BY <1>1, ReserveKeeps DEF Room
  <2>2. Enqueue => Working'
    BY <2>1 DEF Enqueue, Working, TypeOK
  <2>3. Enqueue => Memory'
    BY DEF Enqueue, Memory
  <2> QED BY <1>0, <1>1, <2>2, <2>3
<1>2. ASSUME NEW r \in RunIds, ResumeRefused(r)
      PROVE  Memory' /\ Working'
  BY <1>2, <1>a DEF ResumeRefused, durable, volatile
<1>3. ASSUME NEW r \in RunIds, CancelQueued(r)
      PROVE  Memory' /\ Working'
  <2>1. CASE UNCHANGED <<proc, volatile, crashes>> /\ status' = [status EXCEPT ![r] = "CANCELLED"]
    <3>1. Working'
      BY <1>3, <2>1 DEF CancelQueued, Working, volatile, TypeOK
    <3> QED BY <2>1, <3>1 DEF Memory, volatile
  <2> QED BY <1>0, <1>3, <2>1 DEF CancelQueued
<1>4. ASSUME NEW r \in RunIds, CancelRunning(r)
      PROVE  Memory' /\ Working'
  <2>1. CASE /\ status' = [status EXCEPT ![r] = "CANCEL_REQUESTED"]
             /\ Withdraw
             /\ IF running.run = r THEN CancelWorker ELSE UNCHANGED worker
             /\ UNCHANGED <<proc, queue, running, crashes>>
    <3>1. worker'.at = worker.at
      BY <2>1, CancelWorkerKeeps
    <3>2. approval' # "none" => approval # "none"
      BY <2>1 DEF Withdraw
    <3>3. Working'
      BY <2>1 DEF Working, TypeOK
    <3> QED BY <2>1, <3>1, <3>2, <3>3 DEF Memory
  <2> QED BY <1>0, <1>4, <2>1 DEF CancelRunning, Commit
<1>5. ASSUME StopBegins
      PROVE  Memory' /\ Working'
  <2>1. worker'.at = worker.at
    BY <1>5, CancelWorkerKeeps DEF StopBegins
  <2>2. approval' # "none" => approval # "none"
    BY <1>5 DEF StopBegins, Withdraw
  <2> QED BY <1>5, <2>1, <2>2 DEF StopBegins, durable, Memory, Working
<1>6. ASSUME StopEnds \/ Start \/ StartEnds
      PROVE  Memory' /\ Working'
  <2>1. Working'
    BY <1>6 DEF StopEnds, Start, StartEnds, durable, volatile, Working
  <2> QED BY <1>6, <2>1 DEF StopEnds, Start, StartEnds, durable, volatile, Memory
<1>7. ASSUME NEW r \in RunIds, Interrupt(r)
      PROVE  Memory' /\ Working'
  <2>1. running = Free
    BY <1>7 DEF Interrupt, Memory
  <2>2. CASE UNCHANGED <<proc, volatile, crashes>>
    BY <2>1, <2>2 DEF Memory, Working, volatile, Free
  <2> QED BY <1>0, <1>7, <2>2 DEF Interrupt, Commit
<1>8. ASSUME Dequeue
      PROVE  Memory' /\ Working'
  <2>1. Head(queue) \in RunIds
    BY <1>8, HeadTailProperties DEF TypeOK, Dequeue
  <2>2. Memory'
    BY <1>8, <2>1 DEF Dequeue, Memory, Free, NoRun, RunIds
  <2> QED BY <1>8, <2>2 DEF Dequeue, Working, Free
<1>9. ASSUME BeginExecution
      PROVE  Memory' /\ Working'
  <2>1. CASE running' = Free /\ worker' = NoWorker /\ UNCHANGED <<durable, proc, approval>>
    BY <1>9, <2>1 DEF BeginExecution, Memory, Working, Free, NoWorker, NoRun
  <2>2. CASE /\ status' = [status EXCEPT ![running.run] = "RUNNING"]
             /\ running' = [running EXCEPT !.at = "executing"]
             /\ worker' = [worker EXCEPT !.at = "submitted"]
             /\ UNCHANGED <<proc, queue, approval, crashes>>
    <3>1. running.run \in RunIds /\ running.at = "created"
      BY <1>9 DEF BeginExecution, Memory, TypeOK
    <3>2. Working'
      BY <2>2, <3>1 DEF Working, TypeOK
    <3>3. Memory'
      BY <2>2, <3>1 DEF Memory, TypeOK, Free
    <3> QED BY <3>2, <3>3
  <2> QED BY <1>0, <1>9, <2>1, <2>2 DEF BeginExecution, Commit
<1>10. ASSUME EndExecution
       PROVE  Memory' /\ Working'
  <2>1. PICK s \in Statuses, e \in Events : Finish(running.run, s, e) /\ approval = "none"
    BY <1>10, StatusesAre DEF EndExecution, Events
  <2> QED BY <2>1, FinishForgets
<1>11. ASSUME WorkerStep
       PROVE  Memory' /\ Working'
  BY <1>11, WorkerMoves, WorkerOnlyKeeps
<1>12. ASSUME ApprovalOpens \/ ApprovalCloses \/ ResolveApproval
       PROVE  Memory' /\ Working'
  <2>1. approval # "none" /\ UNCHANGED <<durable, proc, running>>
    BY <1>12 DEF ApprovalOpens, ApprovalCloses, ResolveApproval
  <2>2. worker'.at # "none"
    <3>1. worker.at # "none"
      BY <2>1 DEF Memory
    <3> QED BY <1>12, <3>1
            DEF ApprovalOpens, ApprovalCloses, ResolveApproval, TypeOK, WorkerSteps, Leave
  <2>3. Working'
    BY <2>1 DEF Working, durable
  <2> QED BY <2>1, <2>2, <2>3 DEF Memory
<1>13. ASSUME Crash \/ UNCHANGED vars
       PROVE  Memory' /\ Working'
  BY <1>0, <1>13, <1>a DEF Crash, vars
<1>14. ASSUME NEW k \in Keys, NEW r \in RunIds, ResumeRun(k, r)
       PROVE  Memory' /\ Working'
  <2>1. task[r] \in Tasks \cup {"none"}
    BY DEF TypeOK
  <2> QED BY <1>1, <1>14, <2>1 DEF ResumeRun
<1>15. ASSUME NEW k \in Keys, NEW t \in Tasks, StartRun(k, t)
       PROVE  Memory' /\ Working'
  BY <1>1, <1>15 DEF StartRun
<1> QED BY <1>2, <1>3, <1>4, <1>5, <1>6, <1>7, <1>8, <1>9, <1>10, <1>11, <1>12, <1>13,
           <1>14, <1>15 DEF Next, OwnerStep, Request

(* While a worker is at work its run is RUNNING or CANCEL_REQUESTED: no other *)
(* handler, thread or restart takes the row away from it.                    *)
THEOREM NoLateWork == Spec => []NoWorkAfterTheEnd
<1> USE WorkbenchAssumption
<1>1. Init => TypeOK /\ Memory /\ Working
  BY TypeInit, MemoryInit
<1>2. TypeOK /\ Memory /\ Working /\ [Next]_vars => (TypeOK /\ Memory /\ Working)'
  BY TypeStep, MemoryStep
<1>3. Memory /\ Working => NoWorkAfterTheEnd
  BY DEF Memory, Working, NoWorkAfterTheEnd
<1> QED BY <1>1, <1>2, <1>3, PTL DEF Spec

-----------------------------------------------------------------------------
(* What one step may do to the row and the log of one run.                  *)

Steady(q) == status'[q] = status[q] /\ log'[q] = log[q]
Told(q, e) == log'[q] = log[q] \/ log'[q] = Append(log[q], e)

LEMMA AppendTwo ==
    ASSUME NEW S, NEW s \in Seq(S), NEW a \in S, NEW b \in S
    PROVE  s \o <<a, b>> = Append(Append(s, a), b)
<1> DEFINE p == <<a, b>>
           t == s \o p
           u == Append(s, a)
           v == Append(u, b)
<1>1. p \in Seq(S) /\ Len(p) = 2 /\ p[1] = a /\ p[2] = b
  OBVIOUS
<1>2. Len(s) \in Nat
  BY LenProperties
<1>3. /\ t \in Seq(S) /\ Len(t) = Len(s) + 2
      /\ \A i \in 1 .. Len(s) + 2 : t[i] = IF i <= Len(s) THEN s[i] ELSE p[i - Len(s)]
  <2> HIDE DEF p
  <2>1. /\ s \o p \in Seq(S)
        /\ Len(s \o p) = Len(s) + Len(p)
        /\ \A i \in 1 .. Len(s) + Len(p) :
              (s \o p)[i] = IF i <= Len(s) THEN s[i] ELSE p[i - Len(s)]
    BY <1>1, ConcatProperties, Zenon
  <2> QED BY <1>1, <2>1
<1>4. /\ u \in Seq(S) /\ Len(u) = Len(s) + 1 /\ u[Len(s) + 1] = a
      /\ \A i \in 1 .. Len(s) : u[i] = s[i]
  BY AppendProperties
<1>5. /\ v \in Seq(S) /\ Len(v) = Len(s) + 2 /\ v[Len(s) + 2] = b
      /\ \A i \in 1 .. Len(s) + 1 : v[i] = u[i]
  <2> HIDE DEF u
  <2>1. Len(u) + 1 = Len(s) + 2
    BY <1>2, <1>4
  <2> QED BY <1>4, <2>1, AppendProperties
<1>6. ASSUME NEW i \in 1 .. Len(s) + 2
      PROVE  t[i] = v[i]
  <2> HIDE DEF p, t, u, v
  <2>1. CASE i <= Len(s)
    BY <1>2, <1>3, <1>4, <1>5, <2>1
  <2>2. CASE i = Len(s) + 1
    BY <1>1, <1>2, <1>3, <1>4, <1>5, <2>2
  <2>3. CASE i = Len(s) + 2
    BY <1>1, <1>2, <1>3, <1>5, <2>3
  <2> QED BY <1>2, <2>1, <2>2, <2>3
<1> HIDE DEF p, t, u, v
<1>7. t = v
  BY <1>3, <1>5, <1>6, SeqEqual
<1> QED BY <1>7 DEF p, t, u, v

\* The ends of an execution; a crash may lose the event but not the row.
Ends(q) ==
    \E e \in DOMAIN EndedBy :
        /\ status[q] \in {"RUNNING", "CANCEL_REQUESTED"}
        /\ status'[q] \in EndedBy[e]
        /\ status[q] = "CANCEL_REQUESTED" => status'[q] \notin {"SUCCEEDED", "PARTIAL"}
        /\ Told(q, e)

CancelledInQueue(q) ==
    /\ status[q] = "QUEUED" /\ status'[q] = "CANCELLED"
    /\ \/ log'[q] = Append(log[q], "cancel_requested")
       \/ log'[q] = Append(Append(log[q], "cancel_requested"), "run_cancelled")

RunStep(q) ==
    \/ Steady(q)
    \/ status[q] = "none" /\ status'[q] = "QUEUED" /\ log'[q] = log[q]
    \/ status[q] = "QUEUED" /\ status'[q] = "RUNNING" /\ Told(q, "run_started")
    \/ CancelledInQueue(q)
    \/ /\ status[q] \in {"QUEUED", "RUNNING"} /\ status'[q] = "CANCEL_REQUESTED"
       /\ Told(q, "cancel_requested")
    \/ Ends(q)
    \/ /\ status[q] = "INTERRUPTED" /\ status'[q] = "INTERRUPTED"
       /\ Told(q, "recovery_required")
    \/ /\ status[q] \in {"RUNNING", "CANCEL_REQUESTED"} /\ status'[q] = status[q]
       /\ Told(q, "approval_pending") \/ Told(q, "approval_resolved")

LEMMA CommitSteps ==
    ASSUME TypeOK, NEW r \in RunIds, NEW s, NEW e,
           status' = [status EXCEPT ![r] = s],
           log' = Appended(r, e) \/ log' = log
    PROVE  /\ \A q \in RunIds \ {r} : Steady(q)
           /\ status'[r] = s /\ Told(r, e)
BY DEF TypeOK, Appended, Steady, Told

LEMMA AppendSteps ==
    ASSUME TypeOK, NEW r \in RunIds, NEW e, log' = Appended(r, e), status' = status
    PROVE  /\ \A q \in RunIds \ {r} : Steady(q)
           /\ status'[r] = status[r] /\ Told(r, e)
BY DEF TypeOK, Appended, Steady, Told

LEMMA EndedByValues ==
    /\ DOMAIN EndedBy = {"run_completed", "run_cancelled", "run_interrupted", "run_failed"}
    /\ EndedBy["run_completed"] = Completions
    /\ EndedBy["run_cancelled"] = {"CANCELLED"}
    /\ EndedBy["run_interrupted"] = {"INTERRUPTED"}
    /\ EndedBy["run_failed"] = {"FAILED"}
    /\ \A e \in DOMAIN EndedBy : EndedBy[e] \subseteq Finished
<1>1. DOMAIN EndedBy = {"run_completed", "run_cancelled", "run_interrupted", "run_failed"}
  BY DEF EndedBy
<1>2. EndedBy["run_completed"] = Completions
  BY DEF EndedBy
<1>3. /\ EndedBy["run_cancelled"] = {"CANCELLED"}
      /\ EndedBy["run_interrupted"] = {"INTERRUPTED"}
      /\ EndedBy["run_failed"] = {"FAILED"}
  BY DEF EndedBy
<1> QED BY <1>1, <1>2, <1>3 DEF Completions, Finished

LEMMA FinishSteps ==
    ASSUME TypeOK, NEW r \in RunIds, NEW e \in DOMAIN EndedBy, NEW s \in EndedBy[e],
           Finish(r, s, e), status[r] \in {"RUNNING", "CANCEL_REQUESTED"},
           status[r] = "CANCEL_REQUESTED" => s \notin {"SUCCEEDED", "PARTIAL"}
    PROVE  \A q \in RunIds : RunStep(q)
<1>1. /\ \A q \in RunIds \ {r} : Steady(q)
      /\ status'[r] = s /\ Told(r, e)
  BY CommitSteps DEF Finish, Commit
<1>2. Ends(r)
  BY <1>1 DEF Ends
<1> QED BY <1>1, <1>2 DEF RunStep

LEMMA RunsStep ==
    ASSUME WorkbenchAssumption, TypeOK, Memory, Working, [Next]_vars
    PROVE  \A q \in RunIds : RunStep(q)
<1>0. UNCHANGED <<status, log>> => \A q \in RunIds : RunStep(q)
  BY DEF RunStep, Steady
<1>1. ASSUME NEW k \in Keys, NEW t \in Tasks \cup {"none"}, NEW op, NEW source,
             Room, Reserve(k, op, t, source), UNCHANGED log
      PROVE  \A q \in RunIds : RunStep(q)
  <2>1. \/ status' = status
        \/ \E n \in RunIds : status[n] = "none" /\ status' = [status EXCEPT ![n] = "QUEUED"]
    BY <1>1, ReserveKeeps DEF Room
  <2> QED BY <1>1, <2>1 DEF RunStep, Steady, TypeOK
<1>2. ASSUME NEW k \in Keys, NEW r \in RunIds, ResumeRun(k, r)
      PROVE  \A q \in RunIds : RunStep(q)
  <2>1. task[r] \in Tasks \cup {"none"}
    BY DEF TypeOK
  <2> QED BY <1>1, <1>2, <2>1 DEF ResumeRun
<1>3. ASSUME NEW k \in Keys, NEW t \in Tasks, StartRun(k, t)
      PROVE  \A q \in RunIds : RunStep(q)
  BY <1>1, <1>3 DEF StartRun
<1>4. ASSUME NEW r \in RunIds, ResumeRefused(r)
      PROVE  \A q \in RunIds : RunStep(q)
  BY <1>4, AppendSteps DEF ResumeRefused, durable, RunStep
<1>5. ASSUME NEW r \in RunIds, CancelQueued(r)
      PROVE  \A q \in RunIds : RunStep(q)
  <2>1. CASE status' = [status EXCEPT ![r] = "CANCEL_REQUESTED"]
    <3>1. log' = Appended(r, "cancel_requested") \/ log' = log
      BY <1>5, <2>1 DEF CancelQueued, TypeOK
    <3>2. /\ \A q \in RunIds \ {r} : Steady(q)
          /\ status'[r] = "CANCEL_REQUESTED" /\ Told(r, "cancel_requested")
      BY <2>1, <3>1, CommitSteps
    <3> QED BY <1>5, <3>2 DEF CancelQueued, RunStep
  <2>2. CASE /\ status' = [status EXCEPT ![r] = "CANCELLED"]
             /\ log' = Appended(r, "cancel_requested")
    <3>1. CancelledInQueue(r)
      BY <1>5, <2>2 DEF CancelQueued, CancelledInQueue, Appended, TypeOK
    <3> QED BY <2>2, <3>1, CommitSteps DEF RunStep
  <2>3. CASE /\ status' = [status EXCEPT ![r] = "CANCELLED"]
             /\ log' = [log EXCEPT ![r] = @ \o <<"cancel_requested", "run_cancelled">>]
    <3>1. log[r] \o <<"cancel_requested", "run_cancelled">>
            = Append(Append(log[r], "cancel_requested"), "run_cancelled")
      BY AppendTwo DEF TypeOK, Events
    <3>2. CancelledInQueue(r)
      BY <1>5, <2>3, <3>1 DEF CancelQueued, CancelledInQueue, TypeOK
    <3>3. \A q \in RunIds \ {r} : Steady(q)
      BY <2>3 DEF Steady, TypeOK
    <3> QED BY <3>2, <3>3 DEF RunStep
  <2> QED BY <1>5, <2>1, <2>2, <2>3 DEF CancelQueued
<1>6. ASSUME NEW r \in RunIds, CancelRunning(r)
      PROVE  \A q \in RunIds : RunStep(q)
  BY <1>6, CommitSteps DEF CancelRunning, Commit, RunStep
<1>7. ASSUME NEW r \in RunIds, Interrupt(r)
      PROVE  \A q \in RunIds : RunStep(q)
  <2>1. /\ \A q \in RunIds \ {r} : Steady(q)
        /\ status'[r] = "INTERRUPTED" /\ Told(r, "run_interrupted")
    BY <1>7, CommitSteps DEF Interrupt, Commit
  <2>2. Ends(r)
    BY <1>7, <2>1, EndedByValues DEF Interrupt, Ends, Active
  <2> QED BY <2>1, <2>2 DEF RunStep
<1>8. ASSUME BeginExecution
      PROVE  \A q \in RunIds : RunStep(q)
  <2>1. running.run \in RunIds
    BY <1>8 DEF BeginExecution, Memory, TypeOK
  <2>2. CASE status[running.run] = "QUEUED" /\ status' = [status EXCEPT ![running.run] = "RUNNING"]
    <3>1. log' = Appended(running.run, "run_started") \/ log' = log
      BY <1>8 DEF BeginExecution, Commit
    <3>2. /\ \A q \in RunIds \ {running.run} : Steady(q)
          /\ status'[running.run] = "RUNNING" /\ Told(running.run, "run_started")
      BY <2>1, <2>2, <3>1, CommitSteps
    <3> QED BY <2>2, <3>2 DEF RunStep
  <2> QED BY <1>0, <1>8, <2>2 DEF BeginExecution, Commit, durable
<1>9. ASSUME EndExecution
      PROVE  \A q \in RunIds : RunStep(q)
  <2> DEFINE r == running.run
  <2>1. r \in RunIds /\ status[r] \in {"RUNNING", "CANCEL_REQUESTED"}
    <3>1. worker.at = "ended"
      BY <1>9 DEF EndExecution
    <3> QED BY <3>1 DEF Memory, Working
  <2>2. PICK e \in DOMAIN EndedBy, s \in Finished :
             /\ s \in EndedBy[e] /\ Finish(r, s, e)
             /\ status[r] = "CANCEL_REQUESTED" => s \notin {"SUCCEEDED", "PARTIAL"}
    <3>1. CASE Finish(r, "CANCELLED", "run_cancelled")
      BY <3>1, EndedByValues DEF Finished
    <3>2. CASE Finish(r, "INTERRUPTED", "run_interrupted")
      BY <3>2, EndedByValues DEF Finished
    <3>3. CASE Finish(r, "FAILED", "run_failed")
      BY <3>3, EndedByValues DEF Finished
    <3>4. CASE /\ worker.outcome \in Completions /\ Finish(r, worker.outcome, "run_completed")
               /\ status[r] # "CANCEL_REQUESTED"
      BY <3>4, EndedByValues DEF Finished, Completions
    <3> QED BY <1>9, <3>1, <3>2, <3>3, <3>4 DEF EndExecution
  <2> QED BY <2>1, <2>2, FinishSteps
<1>10. ASSUME ApprovalOpens \/ ApprovalCloses
       PROVE  \A q \in RunIds : RunStep(q)
  <2>1. running.run \in RunIds /\ status[running.run] \in {"RUNNING", "CANCEL_REQUESTED"}
    BY <1>10 DEF ApprovalOpens, ApprovalCloses, Memory, Working
  <2>2. \/ log' = log
        \/ log' = Appended(running.run, "approval_pending")
        \/ log' = Appended(running.run, "approval_resolved")
    BY <1>10 DEF ApprovalOpens, ApprovalCloses
  <2>3. status' = status
    BY <1>10 DEF ApprovalOpens, ApprovalCloses, durable
  <2> QED BY <1>0, <2>1, <2>2, <2>3, AppendSteps DEF RunStep
<1>11. ASSUME \/ StopBegins \/ StopEnds \/ Crash \/ Start \/ StartEnds \/ Dequeue
              \/ ResolveApproval \/ UNCHANGED vars
       PROVE  UNCHANGED <<status, log>>
  BY <1>11 DEF StopBegins, StopEnds, Crash, Start, StartEnds, Dequeue, ResolveApproval,
               vars, durable
<1>12. ASSUME WorkerStep
       PROVE  UNCHANGED <<status, log>>
  BY <1>12, WorkerMoves DEF InMemory, durable
<1> QED BY <1>0, <1>2, <1>3, <1>4, <1>5, <1>6, <1>7, <1>8, <1>9, <1>10, <1>11, <1>12
        DEF Next, OwnerStep, Request

-----------------------------------------------------------------------------
(* One active run per task.                                                 *)

\* Rows become active in one way only, a reservation for a task that has no
\* active run.
Admission ==
    \/ task' = task /\ \A q \in RunIds : status[q] = "none" => status'[q] = "none"
    \/ \E n \in RunIds, t \in Tasks \cup {"none"} :
          /\ status[n] = "none" /\ ~ActiveRun(t)
          /\ status' = [status EXCEPT ![n] = "QUEUED"]
          /\ task' = [task EXCEPT ![n] = t]

LEMMA RowsAdmitted ==
    ASSUME WorkbenchAssumption, TypeOK, Memory, Working, [Next]_vars
    PROVE  Admission
<1>1. ASSUME NEW k \in Keys, NEW t \in Tasks, StartRun(k, t)
      PROVE  Admission
  BY <1>1, ReserveKeeps DEF StartRun, Room, Admission
<1>2. ASSUME NEW k \in Keys, NEW r \in RunIds, ResumeRun(k, r)
      PROVE  Admission
  <2>1. task[r] \in Tasks \cup {"none"}
    BY DEF TypeOK
  <2> QED BY <1>2, <2>1, ReserveKeeps DEF ResumeRun, Room, Admission
<1>3. ASSUME UNCHANGED durable
      PROVE  Admission
  BY <1>3 DEF durable, Admission
<1>4. ASSUME NEW r \in RunIds, NEW s, status[r] # "none", UNCHANGED task,
             status' = [status EXCEPT ![r] = s]
      PROVE  Admission
  BY <1>4 DEF Admission, TypeOK
<1>5. ASSUME NEW r \in RunIds, CancelQueued(r) \/ CancelRunning(r) \/ Interrupt(r)
      PROVE  Admission
  <2>1. status[r] # "none"
    BY <1>5 DEF CancelQueued, CancelRunning, Interrupt, Active
  <2> QED BY <1>4, <1>5, <2>1 DEF CancelQueued, CancelRunning, Interrupt, Commit
<1>6. ASSUME BeginExecution
      PROVE  Admission
  <2>1. running.run \in RunIds
    BY <1>6 DEF BeginExecution, Memory, TypeOK
  <2> QED BY <1>3, <1>4, <1>6, <2>1 DEF BeginExecution, Commit
<1>7. ASSUME EndExecution
      PROVE  Admission
  <2>1. worker.at = "ended"
    BY <1>7 DEF EndExecution
  <2>2. running.run \in RunIds /\ status[running.run] \in {"RUNNING", "CANCEL_REQUESTED"}
    BY <2>1 DEF Memory, Working
  <2>3. PICK s, e : Finish(running.run, s, e)
    BY <1>7 DEF EndExecution
  <2> QED BY <1>4, <2>2, <2>3 DEF Finish, Commit
<1>8. ASSUME \/ StopBegins \/ StopEnds \/ Crash \/ Start \/ StartEnds \/ Dequeue
             \/ ResolveApproval \/ ApprovalOpens \/ ApprovalCloses \/ UNCHANGED vars
      PROVE  UNCHANGED durable
  BY <1>8 DEF StopBegins, StopEnds, Crash, Start, StartEnds, Dequeue, ResolveApproval,
              ApprovalOpens, ApprovalCloses, vars, durable
<1>9. ASSUME NEW r \in RunIds, ResumeRefused(r)
      PROVE  UNCHANGED durable
  BY <1>9 DEF ResumeRefused
<1>10. ASSUME WorkerStep
       PROVE  UNCHANGED durable
  BY <1>10, WorkerMoves DEF InMemory
<1> QED BY <1>1, <1>2, <1>3, <1>5, <1>6, <1>7, <1>8, <1>9, <1>10
        DEF Next, OwnerStep, Request

Alone ==
    \A r, q \in RunIds :
        status[r] \in Active /\ status[q] \in Active /\ task[r] = task[q] => r = q

\* A step that is no admission makes no run active.
LEMMA AloneKept ==
    ASSUME TypeOK, Alone, \A q \in RunIds : RunStep(q), Admission
    PROVE  Alone'
<1>1. CASE task' = task /\ \A q \in RunIds : status[q] = "none" => status'[q] = "none"
  <2>1. ASSUME NEW q \in RunIds, status'[q] \in Active
        PROVE  status[q] \in Active
    <3>1. RunStep(q) /\ (status[q] = "none" => status'[q] = "none")
      BY <1>1
    <3>2. ~Ends(q)
      BY <2>1, EndedByValues DEF Ends, Active, Finished
    <3>3. ~CancelledInQueue(q)
      BY <2>1 DEF CancelledInQueue, Active
    <3> QED BY <2>1, <3>1, <3>2, <3>3 DEF RunStep, Steady, Active
  <2> QED BY <1>1, <2>1 DEF Alone
<1>2. CASE \E n \in RunIds, t \in Tasks \cup {"none"} :
              /\ status[n] = "none" /\ ~ActiveRun(t)
              /\ status' = [status EXCEPT ![n] = "QUEUED"]
              /\ task' = [task EXCEPT ![n] = t]
  <2>1. PICK n \in RunIds, t \in Tasks \cup {"none"} :
              /\ ~ActiveRun(t)
              /\ status' = [status EXCEPT ![n] = "QUEUED"]
              /\ task' = [task EXCEPT ![n] = t]
    BY <1>2
  <2>2. /\ status'[n] = "QUEUED" /\ task'[n] = t
        /\ \A q \in RunIds \ {n} : status'[q] = status[q] /\ task'[q] = task[q]
    BY <2>1 DEF TypeOK
  <2>3. \A q \in RunIds : status[q] \in Active => task[q] # t
    BY <2>1 DEF ActiveRun
  <2> QED BY <2>2, <2>3 DEF Alone
<1> QED BY <1>1, <1>2 DEF Admission

RowsInv == TypeOK /\ Memory /\ Working /\ Alone

LEMMA RowsInvariant == Spec => []RowsInv
<1> USE WorkbenchAssumption
<1>1. Init => RowsInv
  <2>1. Init => Alone
    BY DEF Init, Alone, Active
  <2> QED BY <2>1, TypeInit, MemoryInit DEF RowsInv
<1>2. RowsInv /\ [Next]_vars => RowsInv'
  BY TypeStep, MemoryStep, RunsStep, RowsAdmitted, AloneKept DEF RowsInv
<1> QED BY <1>1, <1>2, PTL DEF Spec

(* A task never has two unfinished runs (store.py:106-108), through retried    *)
(* requests, resumptions, cancellations and restarts.                        *)
THEOREM OneActiveRun == Spec => []OneActiveRunPerTask
<1>1. RowsInv => OneActiveRunPerTask
  BY DEF RowsInv, Alone, OneActiveRunPerTask
<1> QED BY <1>1, RowsInvariant, PTL

(* A run that was told to cancel ends cancelled, failed or interrupted,        *)
(* whatever its worker still brings: EndExecution reads the row again.       *)
THEOREM CancellationHonoured == Spec => CancelHonoured
<1>1. RowsInv /\ [Next]_vars
        => [\A r \in RunIds :
               status[r] = "CANCEL_REQUESTED" /\ status'[r] # status[r]
                  => status'[r] \in {"CANCELLED", "FAILED", "INTERRUPTED"}]_vars
  <2> SUFFICES ASSUME RowsInv, [Next]_vars, NEW r \in RunIds,
                      status[r] = "CANCEL_REQUESTED", status'[r] # status[r]
               PROVE  status'[r] \in {"CANCELLED", "FAILED", "INTERRUPTED"}
    OBVIOUS
  <2>1. RunStep(r)
    BY RunsStep, WorkbenchAssumption DEF RowsInv
  <2>2. Ends(r)
    BY <2>1 DEF RunStep, Steady, CancelledInQueue
  <2> QED BY <2>2, EndedByValues DEF Ends, Completions
<1> QED BY <1>1, RowsInvariant, PTL DEF Spec, CancelHonoured

-----------------------------------------------------------------------------
(* A run is executed once.                                                  *)

\* A run that is free or still in the queue was never started, and QUEUED is
\* never reached again: what StartEnds and retried requests put in the queue
\* once more is dropped by Dequeue when the run was started.
Started(r) == Cardinality(Marks(log[r], "run_started"))
StartedOnce ==
    \A r \in RunIds :
        /\ Started(r) <= 1
        /\ status[r] \in {"none", "QUEUED"} => Started(r) = 0

LEMMA StartedStep ==
    ASSUME TypeOK, TypeOK', StartedOnce, NEW r \in RunIds, RunStep(r)
    PROVE  /\ Started(r)' <= 1
           /\ status'[r] \in {"none", "QUEUED"} => Started(r)' = 0
<1>0. log[r] \in Seq(Events) /\ Started(r) \in Nat
  BY MarksFinite DEF TypeOK, Started
<1>1. /\ Started(r) <= 1
      /\ status[r] \in {"none", "QUEUED"} => Started(r) = 0
  BY DEF StartedOnce
<1>2. ASSUME log'[r] = log[r]
      PROVE  Started(r)' = Started(r)
  BY <1>2 DEF Started
<1>3. ASSUME NEW e \in Events, log'[r] = Append(log[r], e)
      PROVE  Started(r)' = Started(r) + (IF e = "run_started" THEN 1 ELSE 0)
  BY <1>0, <1>3, MarksAppend DEF Started
<1>4. ASSUME NEW e \in Events \ {"run_started"}, Told(r, e)
      PROVE  Started(r)' = Started(r)
  BY <1>0, <1>2, <1>3, <1>4 DEF Told
<1>5. CASE Steady(r)
  BY <1>1, <1>2, <1>5 DEF Steady
<1>6. CASE status[r] = "none" /\ status'[r] = "QUEUED" /\ log'[r] = log[r]
  BY <1>1, <1>2, <1>6
<1>7. CASE status[r] = "QUEUED" /\ status'[r] = "RUNNING" /\ Told(r, "run_started")
  BY <1>0, <1>1, <1>2, <1>3, <1>7 DEF Told, Events
<1>8. CASE CancelledInQueue(r)
  <2> DEFINE s == Append(log[r], "cancel_requested")
             t == Append(s, "run_cancelled")
  <2>1. s \in Seq(Events) /\ Cardinality(Marks(s, "run_started")) = Started(r)
    BY <1>0, AppendProperties, MarksOther DEF Started, Events
  <2>2. Cardinality(Marks(t, "run_started")) = Started(r)
    <3> HIDE DEF s
    <3> QED BY <2>1, MarksOther DEF Events
  <2>3. log'[r] = s \/ log'[r] = t
    BY <1>8 DEF CancelledInQueue
  <2>4. Started(r)' = Started(r)
    <3> HIDE DEF s, t
    <3> QED BY <2>1, <2>2, <2>3 DEF Started
  <2> QED BY <1>1, <1>8, <2>4 DEF CancelledInQueue
<1>9. CASE /\ status[r] \in {"QUEUED", "RUNNING"} /\ status'[r] = "CANCEL_REQUESTED"
           /\ Told(r, "cancel_requested")
  BY <1>1, <1>4, <1>9 DEF Events
<1>10. CASE Ends(r)
  <2>1. PICK e \in DOMAIN EndedBy : status'[r] \in EndedBy[e] /\ Told(r, e)
    BY <1>10 DEF Ends
  <2>2. e \in Events \ {"run_started"} /\ status'[r] \notin {"none", "QUEUED"}
    BY <2>1, EndedByValues DEF Events, Finished
  <2> QED BY <1>1, <1>4, <2>1, <2>2
<1>11. CASE /\ status[r] = "INTERRUPTED" /\ status'[r] = "INTERRUPTED"
            /\ Told(r, "recovery_required")
  BY <1>1, <1>4, <1>11 DEF Events
<1>12. CASE /\ status[r] \in {"RUNNING", "CANCEL_REQUESTED"} /\ status'[r] = status[r]
            /\ Told(r, "approval_pending") \/ Told(r, "approval_resolved")
  BY <1>1, <1>4, <1>12 DEF Events
<1> QED BY <1>5, <1>6, <1>7, <1>8, <1>9, <1>10, <1>11, <1>12 DEF RunStep

(* A run is executed at most once, although a retried request, a restart and   *)
(* the queue may each hand its id to the consumer again.                     *)
THEOREM ExecutedOnce == Spec => []SingleExecution
<1> USE WorkbenchAssumption
<1>1. Init => StartedOnce
  <2> SUFFICES ASSUME Init, NEW r \in RunIds
               PROVE  Started(r) = 0
    BY DEF StartedOnce
  <2>1. Marks(log[r], "run_started") = {}
    BY DEF Init, Marks
  <2> QED BY <2>1, FS_EmptySet DEF Started
<1>2. RowsInv /\ RowsInv' /\ StartedOnce /\ [Next]_vars => StartedOnce'
  <2> SUFFICES ASSUME RowsInv, RowsInv', StartedOnce, [Next]_vars
               PROVE  StartedOnce'
    OBVIOUS
  <2>1. \A r \in RunIds : RunStep(r)
    BY RunsStep DEF RowsInv
  <2> QED BY <2>1, StartedStep DEF StartedOnce, RowsInv
<1>3. StartedOnce => SingleExecution
  BY CountIsMarks DEF StartedOnce, SingleExecution, Started
<1> QED BY <1>1, <1>2, <1>3, RowsInvariant, PTL DEF Spec

-----------------------------------------------------------------------------
(* The end of a run is told once and truthfully.                            *)

EndTold(r) ==
    \A i \in DOMAIN log[r] :
        log[r][i] \in DOMAIN EndedBy =>
            /\ status[r] \in EndedBy[log[r][i]]
            /\ \A j \in (i + 1) .. Len(log[r]) : log[r][j] = "recovery_required"

\* While a run is active its log tells no end.
LEMMA NoEndYet ==
    ASSUME TypeOK, NEW r \in RunIds, EndTold(r), status[r] \notin Finished
    PROVE  \A i \in DOMAIN log[r] : log[r][i] \notin DOMAIN EndedBy
BY EndedByValues DEF EndTold

\* An event after which no end was told, and which is true if it tells one.
LEMMA EndAppended ==
    ASSUME NEW s \in Seq(Events), NEW e \in Events, NEW new,
           \A i \in DOMAIN s : s[i] \notin DOMAIN EndedBy,
           e \in DOMAIN EndedBy => new \in EndedBy[e],
           NEW t, t = s \/ t = Append(s, e)
    PROVE  \A i \in DOMAIN t :
              t[i] \in DOMAIN EndedBy =>
                  /\ new \in EndedBy[t[i]]
                  /\ \A j \in (i + 1) .. Len(t) : t[j] = "recovery_required"
<1>1. CASE t = s
  BY <1>1
<1>2. CASE t = Append(s, e)
  <2>1. /\ Len(s) \in Nat /\ DOMAIN s = 1 .. Len(s) /\ Len(t) = Len(s) + 1
        /\ DOMAIN t = 1 .. (Len(s) + 1) /\ t[Len(s) + 1] = e
        /\ \A i \in 1 .. Len(s) : t[i] = s[i]
    BY <1>2, LenProperties, AppendProperties
  <2> SUFFICES ASSUME NEW i \in 1 .. (Len(s) + 1), t[i] \in DOMAIN EndedBy
               PROVE  /\ new \in EndedBy[t[i]]
                      /\ \A j \in (i + 1) .. Len(t) : t[j] = "recovery_required"
    BY <2>1
  <2>2. i = Len(s) + 1
    BY <2>1
  <2> QED BY <2>1, <2>2
<1> QED BY <1>1, <1>2

LEMMA EndToldStep ==
    ASSUME TypeOK, NEW r \in RunIds, EndTold(r), RunStep(r)
    PROVE  EndTold(r)'
<1>0. log[r] \in Seq(Events)
  BY DEF TypeOK
<1>1. ASSUME NEW e \in Events, status[r] \notin Finished, Told(r, e),
             e \in DOMAIN EndedBy => status'[r] \in EndedBy[e]
      PROVE  EndTold(r)'
  BY <1>0, <1>1, NoEndYet, EndAppended DEF EndTold, Told
<1>2. CASE Steady(r)
  BY <1>2 DEF EndTold, Steady
<1>3. CASE status[r] = "none" /\ status'[r] = "QUEUED" /\ log'[r] = log[r]
  BY <1>1, <1>3, EndedByValues DEF Told, Events, Finished
<1>4. CASE status[r] = "QUEUED" /\ status'[r] = "RUNNING" /\ Told(r, "run_started")
  BY <1>1, <1>4, EndedByValues DEF Events, Finished
<1>5. CASE CancelledInQueue(r)
  <2> DEFINE s == Append(log[r], "cancel_requested")
  <2>1. status[r] \notin Finished /\ status'[r] = "CANCELLED"
    BY <1>5 DEF CancelledInQueue, Finished
  <2>2. s \in Seq(Events)
    BY <1>0, AppendProperties DEF Events
  <2>3. \A i \in DOMAIN s : s[i] \notin DOMAIN EndedBy
    <3>1. \A i \in DOMAIN log[r] : log[r][i] \notin DOMAIN EndedBy
      BY <2>1, NoEndYet
    <3>2. "cancel_requested" \notin DOMAIN EndedBy
      BY EndedByValues
    <3> QED BY <1>0, <3>1, <3>2, AppendProperties, LenProperties DEF Events
  <2>4. log'[r] = s \/ log'[r] = Append(s, "run_cancelled")
    BY <1>5 DEF CancelledInQueue
  <2>5. "run_cancelled" \in Events
        /\ ("run_cancelled" \in DOMAIN EndedBy => "CANCELLED" \in EndedBy["run_cancelled"])
    BY EndedByValues DEF Events
  <2> HIDE DEF s
  <2>6. \A i \in DOMAIN log'[r] :
           log'[r][i] \in DOMAIN EndedBy =>
               /\ "CANCELLED" \in EndedBy[log'[r][i]]
               /\ \A j \in (i + 1) .. Len(log'[r]) : log'[r][j] = "recovery_required"
    BY <2>2, <2>3, <2>4, <2>5, EndAppended
  <2> QED BY <2>1, <2>6 DEF EndTold
<1>6. CASE /\ status[r] \in {"QUEUED", "RUNNING"} /\ status'[r] = "CANCEL_REQUESTED"
           /\ Told(r, "cancel_requested")
  BY <1>1, <1>6, EndedByValues DEF Events, Finished
<1>7. CASE Ends(r)
  <2>1. PICK e \in DOMAIN EndedBy :
              status[r] \notin Finished /\ status'[r] \in EndedBy[e] /\ Told(r, e)
    BY <1>7 DEF Ends, Finished
  <2>2. e \in Events
    BY EndedByValues DEF Events
  <2> QED BY <1>1, <2>1, <2>2
<1>8. CASE /\ status[r] = "INTERRUPTED" /\ status'[r] = "INTERRUPTED"
           /\ Told(r, "recovery_required")
  <2>1. CASE log'[r] = log[r]
    BY <1>8, <2>1 DEF EndTold
  <2>2. CASE log'[r] = Append(log[r], "recovery_required")
    <3>1. /\ Len(log[r]) \in Nat /\ DOMAIN log[r] = 1 .. Len(log[r])
          /\ Len(log'[r]) = Len(log[r]) + 1 /\ DOMAIN log'[r] = 1 .. (Len(log[r]) + 1)
          /\ log'[r][Len(log[r]) + 1] = "recovery_required"
          /\ \A i \in 1 .. Len(log[r]) : log'[r][i] = log[r][i]
      BY <1>0, <2>2, LenProperties, AppendProperties DEF Events
    <3> SUFFICES ASSUME NEW i \in 1 .. (Len(log[r]) + 1), log'[r][i] \in DOMAIN EndedBy
                 PROVE  /\ status'[r] \in EndedBy[log'[r][i]]
                        /\ \A j \in (i + 1) .. (Len(log[r]) + 1) : log'[r][j] = "recovery_required"
      BY <3>1 DEF EndTold
    <3>2. i # Len(log[r]) + 1
      BY <3>1, EndedByValues
    <3>3. i \in DOMAIN log[r] /\ log'[r][i] = log[r][i]
      BY <3>1, <3>2
    <3>4. /\ status[r] \in EndedBy[log[r][i]]
          /\ \A j \in (i + 1) .. Len(log[r]) : log[r][j] = "recovery_required"
      BY <3>3 DEF EndTold
    <3> QED BY <1>8, <3>1, <3>3, <3>4
  <2> QED BY <1>8, <2>1, <2>2 DEF Told
<1>9. CASE /\ status[r] \in {"RUNNING", "CANCEL_REQUESTED"} /\ status'[r] = status[r]
           /\ Told(r, "approval_pending") \/ Told(r, "approval_resolved")
  BY <1>1, <1>9, EndedByValues DEF Events, Finished
<1> QED BY <1>2, <1>3, <1>4, <1>5, <1>6, <1>7, <1>8, <1>9 DEF RunStep

(* What the event stream tells a client of the end of a run is what the row    *)
(* says, and it is told once: the end is appended to the log of an active    *)
(* run only, in whose log no end was told yet.                               *)
THEOREM EndsAreTold == Spec => []EndIsTold
<1> USE WorkbenchAssumption
<1>1. Init => EndIsTold
  BY DEF Init, EndIsTold
<1>2. RowsInv /\ EndIsTold /\ [Next]_vars => EndIsTold'
  <2> SUFFICES ASSUME RowsInv, EndIsTold, [Next]_vars, NEW r \in RunIds
               PROVE  EndTold(r)'
    BY DEF EndIsTold, EndTold
  <2>1. EndTold(r)
    BY DEF EndIsTold, EndTold
  <2> QED BY <2>1, RunsStep, EndToldStep DEF RowsInv
<1> QED BY <1>1, <1>2, RowsInvariant, PTL DEF Spec

-----------------------------------------------------------------------------
(* Approvals are settled.                                                   *)

Asked(r) == Cardinality(Marks(log[r], "approval_pending"))
Settled(r) == Cardinality(Marks(log[r], "approval_resolved"))

\* A published approval belongs to the run that is executing.
Published == {"pending", "decided", "withdrawn"}
Open(r) == IF running.run = r /\ approval \in Published THEN 1 ELSE 0

Balanced == crashes = 0 => \A r \in RunIds : Asked(r) = Settled(r) + Open(r)

LEMMA AskedNat ==
    ASSUME TypeOK, NEW r \in RunIds
    PROVE  Asked(r) \in Nat /\ Settled(r) \in Nat
BY MarksFinite DEF TypeOK, Asked, Settled

LEMMA MarksOfAppended ==
    ASSUME NEW s \in Seq(Events), NEW e \in Events
    PROVE  /\ e # "approval_pending" =>
                 Cardinality(Marks(Append(s, e), "approval_pending"))
                    = Cardinality(Marks(s, "approval_pending"))
           /\ e # "approval_resolved" =>
                 Cardinality(Marks(Append(s, e), "approval_resolved"))
                    = Cardinality(Marks(s, "approval_resolved"))
           /\ Cardinality(Marks(Append(s, "approval_pending"), "approval_pending"))
                    = Cardinality(Marks(s, "approval_pending")) + 1
           /\ Cardinality(Marks(Append(s, "approval_resolved"), "approval_resolved"))
                    = Cardinality(Marks(s, "approval_resolved")) + 1
<1>1. e # "approval_pending" =>
         Cardinality(Marks(Append(s, e), "approval_pending"))
            = Cardinality(Marks(s, "approval_pending"))
  BY MarksOther
<1>2. e # "approval_resolved" =>
         Cardinality(Marks(Append(s, e), "approval_resolved"))
            = Cardinality(Marks(s, "approval_resolved"))
  BY MarksOther
<1>3. Cardinality(Marks(Append(s, "approval_pending"), "approval_pending"))
         = Cardinality(Marks(s, "approval_pending")) + 1
  BY MarksAppend DEF Events
<1>4. Cardinality(Marks(Append(s, "approval_resolved"), "approval_resolved"))
         = Cardinality(Marks(s, "approval_resolved")) + 1
  BY MarksAppend DEF Events
<1> QED BY <1>1, <1>2, <1>3, <1>4

\* What is appended to a log that is neither a question nor an answer.
LEMMA QuietAppend ==
    ASSUME TypeOK, NEW q \in RunIds, NEW e \in Events \ {"approval_pending", "approval_resolved"},
           log' = Appended(q, e), NEW r \in RunIds
    PROVE  Asked(r)' = Asked(r) /\ Settled(r)' = Settled(r)
<1>1. CASE r = q
  <2>1. log[r] \in Seq(Events) /\ log'[r] = Append(log[r], e)
    BY <1>1 DEF TypeOK, Appended
  <2>2. /\ Cardinality(Marks(Append(log[r], e), "approval_pending")) = Asked(r)
        /\ Cardinality(Marks(Append(log[r], e), "approval_resolved")) = Settled(r)
    BY <2>1, MarksOfAppended DEF Asked, Settled
  <2> QED BY <2>1, <2>2 DEF Asked, Settled
<1>2. CASE r # q
  <2>1. log'[r] = log[r]
    BY <1>2 DEF TypeOK, Appended
  <2> QED BY <2>1 DEF Asked, Settled
<1> QED BY <1>1, <1>2

LEMMA QuietCancel ==
    ASSUME TypeOK, NEW q \in RunIds, NEW r \in RunIds,
           log' = [log EXCEPT ![q] = @ \o <<"cancel_requested", "run_cancelled">>]
    PROVE  Asked(r)' = Asked(r) /\ Settled(r)' = Settled(r)
<1>1. CASE r = q
  <2> DEFINE s == Append(log[r], "cancel_requested")
             t == Append(s, "run_cancelled")
  <2>1. log[r] \in Seq(Events) /\ log'[r] = t
    <3>1. log[r] \in Seq(Events) /\ log'[r] = log[r] \o <<"cancel_requested", "run_cancelled">>
      BY <1>1 DEF TypeOK
    <3>2. "cancel_requested" \in Events /\ "run_cancelled" \in Events
      BY EventsAre
    <3>3. log[r] \o <<"cancel_requested", "run_cancelled">>
             = Append(Append(log[r], "cancel_requested"), "run_cancelled")
      BY <3>1, <3>2, AppendTwo
    <3> QED BY <3>1, <3>3
  <2>2. /\ s \in Seq(Events)
        /\ Cardinality(Marks(s, "approval_pending")) = Asked(r)
        /\ Cardinality(Marks(s, "approval_resolved")) = Settled(r)
    BY <2>1, AppendProperties, MarksOfAppended DEF Asked, Settled, Events
  <2>3. /\ Cardinality(Marks(t, "approval_pending")) = Asked(r)
        /\ Cardinality(Marks(t, "approval_resolved")) = Settled(r)
    <3> HIDE DEF s
    <3> QED BY <2>2, MarksOfAppended DEF Events
  <2> HIDE DEF s, t
  <2> QED BY <2>1, <2>3 DEF Asked, Settled
<1>2. CASE r # q
  <2>1. log'[r] = log[r]
    BY <1>2 DEF TypeOK
  <2> QED BY <2>1 DEF Asked, Settled
<1> QED BY <1>1, <1>2

\* A step that appends no question and no answer and leaves what is open.
Unasked ==
    \A r \in RunIds : /\ Asked(r)' = Asked(r) /\ Settled(r)' = Settled(r)
                      /\ Open(r)' = Open(r)

LEMMA UnaskedBalance ==
    ASSUME TypeOK, Balanced, Unasked, crashes' = crashes
    PROVE  Balanced'
BY DEF Balanced, Unasked

LEMMA SameLog ==
    ASSUME TypeOK, log' = log,
           \/ running' = running /\ (approval' \in Published <=> approval \in Published)
           \/ approval = "none" /\ approval' = "none"
    PROVE  Unasked
BY DEF Unasked, Asked, Settled, Open, Published

LEMMA WithdrawLeavesOpen ==
    Withdraw => (approval' \in Published <=> approval \in Published)
BY DEF Withdraw, Published

LEMMA DieCounts ==
    ASSUME TypeOK, Die
    PROVE  Balanced'
BY DEF TypeOK, Die, Balanced

LEMMA BalancedStep ==
    ASSUME WorkbenchAssumption, RowsInv, Balanced, [Next]_vars
    PROVE  Balanced'
<1>0. TypeOK /\ Memory /\ Working
  BY DEF RowsInv
<1>a. ASSUME log' = log, running' = running, approval' = approval, crashes' = crashes
      PROVE  Balanced'
  BY <1>0, <1>a, SameLog, UnaskedBalance
<1>b. ASSUME NEW r \in RunIds, NEW e \in Events \ {"approval_pending", "approval_resolved"},
             log' = Appended(r, e), crashes' = crashes,
             \/ running' = running /\ (approval' \in Published <=> approval \in Published)
             \/ approval = "none" /\ approval' = "none"
      PROVE  Balanced'
  <2>1. Unasked
    BY <1>0, <1>b, QuietAppend DEF Unasked, Open, Published
  <2> QED BY <1>0, <1>b, <2>1, UnaskedBalance
<1>c. Die => Balanced'
  BY <1>0, DieCounts
<1>1. ASSUME NEW k \in Keys, NEW t \in Tasks, StartRun(k, t)
      PROVE  Balanced'
  BY <1>1, <1>a, <1>c DEF StartRun, Enqueue
<1>2. ASSUME NEW k \in Keys, NEW r \in RunIds, ResumeRun(k, r)
      PROVE  Balanced'
  BY <1>2, <1>a, <1>c DEF ResumeRun, Enqueue
<1>3. ASSUME NEW r \in RunIds, ResumeRefused(r)
      PROVE  Balanced'
  BY <1>3, <1>b DEF ResumeRefused, volatile, Events
<1>4. ASSUME NEW r \in RunIds, CancelQueued(r)
      PROVE  Balanced'
  <2>1. CASE /\ log' = [log EXCEPT ![r] = @ \o <<"cancel_requested", "run_cancelled">>]
             /\ UNCHANGED <<proc, volatile, crashes>>
    <3>1. Unasked
      BY <1>0, <2>1, QuietCancel DEF Unasked, Open, volatile
    <3> QED BY <1>0, <2>1, <3>1, UnaskedBalance
  <2> QED BY <1>4, <1>c, <2>1 DEF CancelQueued
<1>5. ASSUME NEW r \in RunIds, CancelRunning(r)
      PROVE  Balanced'
  <2>1. CASE log' = Appended(r, "cancel_requested") /\ Withdraw /\ UNCHANGED <<running, crashes>>
    BY <1>b, <2>1, WithdrawLeavesOpen DEF Events
  <2> QED BY <1>5, <1>c, <2>1 DEF CancelRunning, Commit
<1>6. ASSUME StopBegins
      PROVE  Balanced'
  BY <1>0, <1>6, SameLog, WithdrawLeavesOpen, UnaskedBalance DEF StopBegins
<1>7. ASSUME StopEnds \/ Start \/ StartEnds \/ UNCHANGED vars
      PROVE  Balanced'
  BY <1>7, <1>a DEF StopEnds, Start, StartEnds, volatile, vars
<1>8. ASSUME Crash
      PROVE  Balanced'
  BY <1>8, <1>c DEF Crash
<1>9. ASSUME NEW r \in RunIds, Interrupt(r)
      PROVE  Balanced'
  BY <1>9, <1>b, <1>c DEF Interrupt, Commit, volatile, Events
<1>10. ASSUME Dequeue
       PROVE  Balanced'
  <2>1. approval = "none" /\ approval' = "none"
    BY <1>0, <1>10 DEF Dequeue, Memory, Free
  <2> QED BY <1>0, <1>10, <2>1, SameLog, UnaskedBalance DEF Dequeue
<1>11. ASSUME BeginExecution
       PROVE  Balanced'
  <2>1. approval = "none" /\ running.run \in RunIds
    BY <1>0, <1>11 DEF BeginExecution, Memory, TypeOK
  <2>2. CASE log' = log /\ UNCHANGED <<approval, crashes>>
    BY <1>0, <2>1, <2>2, SameLog, UnaskedBalance
  <2>3. CASE log' = Appended(running.run, "run_started") /\ UNCHANGED <<approval, crashes>>
    BY <1>b, <2>1, <2>3 DEF Events
  <2> QED BY <1>11, <1>c, <2>2, <2>3 DEF BeginExecution, Commit
<1>12. ASSUME EndExecution
       PROVE  Balanced'
  <2>1. approval = "none" /\ worker.at = "ended"
    BY <1>12 DEF EndExecution
  <2>2. running.run \in RunIds
    BY <1>0, <2>1 DEF Memory, Working
  <2>3. PICK s \in Statuses, e \in {"run_completed", "run_cancelled", "run_interrupted", "run_failed"} :
              Finish(running.run, s, e)
    BY <1>12, StatusesAre DEF EndExecution
  <2>4. CASE log' = Appended(running.run, e) /\ UNCHANGED <<approval, crashes>>
    <3>1. e \in Events \ {"approval_pending", "approval_resolved"}
      BY DEF Events
    <3> QED BY <1>b, <2>1, <2>2, <2>4, <3>1
  <2> QED BY <1>c, <2>3, <2>4 DEF Finish, Commit
<1>13. ASSUME WorkerStep
       PROVE  Balanced'
  <2>1. log' = log /\ running' = running /\ crashes' = crashes
    BY <1>0, <1>13, WorkerMoves DEF InMemory
  <2>2. approval' \in Published <=> approval \in Published
    BY <1>13, WithdrawLeavesOpen
       DEF WorkerStep, WorkerRegisters, WorkerChecksFlag, WorkerBuilds, WorkerFinishes, WallTimeout,
           WorkerCancelled, WorkerCloses, CleanupCancelled, WorkerEnds, WorkerAsks, Published
  <2> QED BY <1>0, <2>1, <2>2, SameLog, UnaskedBalance
<1>14. ASSUME ResolveApproval
       PROVE  Balanced'
  <2>1. approval' \in Published <=> approval \in Published
    BY <1>14 DEF ResolveApproval, Published
  <2> QED BY <1>0, <1>14, <2>1, SameLog, UnaskedBalance DEF ResolveApproval
<1>15. ASSUME ApprovalOpens
       PROVE  Balanced'
  <2> DEFINE r == running.run
  <2>1. approval = "requested" /\ r \in RunIds /\ running' = running /\ crashes' = crashes
    BY <1>0, <1>15 DEF ApprovalOpens, Memory, Working
  <2>2. CASE log' = log /\ approval' = "none"
    BY <1>0, <2>1, <2>2, SameLog, UnaskedBalance DEF Published
  <2>3. CASE log' = Appended(r, "approval_pending") /\ approval' \in {"pending", "withdrawn"}
    <3>1. Asked(r)' = Asked(r) + 1 /\ Settled(r)' = Settled(r)
      <4>1. log[r] \in Seq(Events) /\ log'[r] = Append(log[r], "approval_pending")
        BY <1>0, <2>1, <2>3 DEF TypeOK, Appended
      <4>m. "approval_pending" \in Events
        BY EventsAre
      <4>2. /\ Cardinality(Marks(Append(log[r], "approval_pending"), "approval_pending"))
                 = Asked(r) + 1
            /\ Cardinality(Marks(Append(log[r], "approval_pending"), "approval_resolved"))
                 = Settled(r)
        BY <4>1, <4>m, MarksOfAppended DEF Asked, Settled
      <4> QED BY <2>1, <4>1, <4>2 DEF Asked, Settled
    <3>2. \A q \in RunIds \ {r} : Asked(q)' = Asked(q) /\ Settled(q)' = Settled(q)
      BY <1>0, <2>1, <2>3 DEF TypeOK, Appended, Asked, Settled
    <3>3. Open(r) = 0 /\ Open(r)' = 1 /\ \A q \in RunIds \ {r} : Open(q)' = Open(q)
      BY <2>1, <2>3 DEF Open, Published
    <3> QED BY <1>0, <2>1, <3>1, <3>2, <3>3, AskedNat DEF Balanced
  <2> QED BY <1>15, <2>2, <2>3 DEF ApprovalOpens
<1>16. ASSUME ApprovalCloses
       PROVE  Balanced'
  <2> DEFINE r == running.run
  <2>1. /\ approval \in {"decided", "withdrawn"} /\ approval' = "none"
        /\ r \in RunIds /\ running' = running /\ crashes' = crashes
        /\ log' = Appended(r, "approval_resolved")
    BY <1>0, <1>16 DEF ApprovalCloses, Memory, Working
  <2>2. Settled(r)' = Settled(r) + 1 /\ Asked(r)' = Asked(r)
    <3>1. log[r] \in Seq(Events) /\ log'[r] = Append(log[r], "approval_resolved")
      BY <1>0, <2>1 DEF TypeOK, Appended
    <3>m. "approval_resolved" \in Events
      BY EventsAre
    <3>2. /\ Cardinality(Marks(Append(log[r], "approval_resolved"), "approval_pending"))
               = Asked(r)
          /\ Cardinality(Marks(Append(log[r], "approval_resolved"), "approval_resolved"))
               = Settled(r) + 1
      BY <3>1, <3>m, MarksOfAppended DEF Asked, Settled
    <3> QED BY <2>1, <3>1, <3>2 DEF Asked, Settled
  <2>3. \A q \in RunIds \ {r} : Asked(q)' = Asked(q) /\ Settled(q)' = Settled(q)
    BY <1>0, <2>1 DEF TypeOK, Appended, Asked, Settled
  <2>4. Open(r) = 1 /\ Open(r)' = 0 /\ \A q \in RunIds \ {r} : Open(q)' = Open(q)
    BY <2>1 DEF Open, Published
  <2> QED BY <1>0, <2>1, <2>2, <2>3, <2>4, AskedNat DEF Balanced
<1> QED BY <1>1, <1>2, <1>3, <1>4, <1>5, <1>6, <1>7, <1>8, <1>9, <1>10, <1>11, <1>12,
           <1>13, <1>14, <1>15, <1>16 DEF Next, OwnerStep, Request

(* Every approval that was published is settled before the run ends, unless    *)
(* the process died (runner.py:210-215): EndExecution waits for it.          *)
THEOREM ApprovalsAreSettled == Spec => []ApprovalsSettled
<1> USE WorkbenchAssumption
<1>1. Init => Balanced
  <2> SUFFICES ASSUME Init, NEW r \in RunIds
               PROVE  Asked(r) = Settled(r) + Open(r)
    BY DEF Balanced
  <2>1. Marks(log[r], "approval_pending") = {} /\ Marks(log[r], "approval_resolved") = {}
    BY DEF Init, Marks
  <2>2. Open(r) = 0
    BY DEF Init, Open, Published
  <2> QED BY <2>1, <2>2, FS_EmptySet DEF Asked, Settled
<1>2. RowsInv /\ Balanced /\ [Next]_vars => Balanced'
  BY BalancedStep
<1>3. RowsInv /\ Balanced => ApprovalsSettled
  <2> SUFFICES ASSUME RowsInv, Balanced, crashes = 0, NEW r \in RunIds, status[r] \in Finished
               PROVE  Asked(r) = Settled(r)
    BY CountIsMarks DEF ApprovalsSettled, Asked, Settled
  <2>1. Open(r) = 0
    BY DEF Open, Published, RowsInv, Memory, Working, Finished
  <2> QED BY <2>1, AskedNat DEF Balanced, RowsInv
<1> QED BY <1>1, <1>2, <1>3, RowsInvariant, PTL DEF Spec

=============================================================================
