--------------------------- MODULE SubmitOnceProofs ---------------------------
(***************************************************************************)
(* Theorems about SubmitOnce for every set of requests and callers and     *)
(* every bound: type correctness and one directory per job.  A client      *)
(* without a rival never creates two jobs for one request, never loses or  *)
(* exchanges the job a row names, records failures that happened, collects *)
(* from the directory of the job, leaves a parked request alone, and       *)
(* implements the ledger of AtMostOnce.                                    *)
(***************************************************************************)
EXTENDS SubmitOnce, FiniteSetTheorems, TLAPS

-----------------------------------------------------------------------------
(* Type correctness needs to know that a job id written down anywhere is the *)
(* id of a job that exists, and that a coroutine at work has a request.      *)

Growth == \A j \in JobIds : Exists(j) => Exists(j)'

Controls ==
    {"idle", "gate", "claim", "stage", "sbatch", "submitted", "reconcile",
     "status", "query", "statusAnswered", "scan", "scanned", "download", "stopped"}

\* A set of sightings a remote command may have printed.
Genuine(seen) ==
    /\ seen \subseteq Sightings
    /\ \A s \in seen : Exists(s.job) /\ s.state # "absent"

CallerInv ==
    /\ caller \in [Callers -> CallerRecords]
    /\ \A c \in Callers :
          /\ ~At(c, "idle") => Rid(c) \in Rids
          /\ At(c, "query") => caller[c].job # None
          /\ caller[c].job # None => Exists(caller[c].job)
          /\ Genuine(caller[c].seen)

RowInv ==
    /\ registry \in [Rids -> RowRecords]
    /\ \A rid \in Rids : registry[rid].job # None => Exists(registry[rid].job)

WorldInv ==
    /\ jobs \in [JobIds -> JobRecords]
    /\ late \subseteq [rid : Rids, dir : 0 .. MaxDirs]
    /\ claimed \in 0 .. MaxDirs

TypeInv == CallerInv /\ RowInv /\ WorldInv

-----------------------------------------------------------------------------
(* What the building blocks of the actions preserve.                        *)

LEMMA CallerStays ==
    ASSUME CallerInv, Growth, WorldInv, UNCHANGED caller
    PROVE  CallerInv'
BY DEF CallerInv, Growth, At, Rid, Genuine, CallerRecords, Sightings, None, JobIds

LEMMA RowsStay ==
    ASSUME RowInv, Growth, WorldInv, UNCHANGED registry
    PROVE  RowInv'
BY SubmitOnceAssumption DEF RowInv, Growth, RowRecords, None, JobIds

\* A coroutine gets the new record n.
LEMMA CallerMoves ==
    ASSUME CallerInv, Growth, NEW c \in Callers, NEW n \in CallerRecords,
           caller' = [caller EXCEPT ![c] = n],
           n.pc # "idle" => n.rid \in Rids,
           n.pc = "query" => n.job # None,
           n.job # None => Exists(n.job)',
           Genuine(n.seen)'
    PROVE  CallerInv'
<1>1. caller' \in [Callers -> CallerRecords]
  BY DEF CallerInv
<1>2. ASSUME NEW d \in Callers
      PROVE  (/\ ~At(d, "idle") => Rid(d) \in Rids
              /\ At(d, "query") => caller[d].job # None
              /\ caller[d].job # None => Exists(caller[d].job)
              /\ Genuine(caller[d].seen))'
  <2>1. CASE d = c
    <3>1. caller'[d] = n
      BY <2>1 DEF CallerInv
    <3> QED BY <3>1 DEF At, Rid
  <2>2. CASE d # c
    <3>1. caller'[d] = caller[d] /\ caller[d] \in CallerRecords
      BY <2>2 DEF CallerInv
    <3>2. Genuine(caller[d].seen)'
      BY <3>1 DEF CallerInv, Genuine, Growth, Sightings
    <3>3. caller[d].job # None => Exists(caller[d].job)'
      BY <3>1, SubmitOnceAssumption DEF CallerInv, Growth, CallerRecords, JobIds, None
    <3> QED BY <3>1, <3>2, <3>3 DEF CallerInv, At, Rid
  <2> QED BY <2>1, <2>2
<1> QED BY <1>1, <1>2 DEF CallerInv

LEMMA ReturnKeeps ==
    ASSUME CallerInv, Growth, NEW c \in Callers, Return(c)
    PROVE  CallerInv'
<1>1. /\ Idle \in CallerRecords
      /\ Idle.pc = "idle" /\ Idle.job = None /\ Idle.seen = {}
  BY SubmitOnceAssumption DEF Idle, CallerRecords, None
<1>2. Genuine(Idle.seen)'
  BY <1>1 DEF Genuine
<1> QED BY <1>1, <1>2, CallerMoves DEF Return

LEMMA BecomeKeeps ==
    ASSUME CallerInv, Growth, NEW c \in Callers, ~At(c, "idle"),
           NEW pc \in Controls, NEW job \in 0 .. MaxJobs, NEW dir \in 0 .. MaxDirs,
           NEW r \in {"none", "ok", "error", "timeout"}, NEW seen,
           pc = "query" => job # None,
           job # None => Exists(job)',
           Genuine(seen)',
           Become(c, pc, job, dir, r, seen)
    PROVE  CallerInv'
<1> DEFINE n == [pc |-> pc, op |-> caller[c].op, rid |-> caller[c].rid,
                 job |-> job, dir |-> dir, reply |-> r, seen |-> seen]
<1>1. caller[c] \in CallerRecords /\ caller[c].rid \in Rids
  BY DEF CallerInv, At, Rid
<1>2. seen \subseteq Sightings
  BY DEF Genuine
<1>3. /\ n \in CallerRecords
      /\ n.pc = pc /\ n.rid \in Rids /\ n.job = job /\ n.seen = seen
  BY <1>1, <1>2 DEF CallerRecords, Controls
<1>4. caller' = [caller EXCEPT ![c] = n]
  BY DEF Become
<1> HIDE DEF n
<1> QED BY <1>3, <1>4, CallerMoves

LEMMA GotoKeeps ==
    ASSUME CallerInv, Growth, NEW c \in Callers, ~At(c, "idle"),
           NEW pc \in Controls, pc # "query", Goto(c, pc)
    PROVE  CallerInv'
<1>1. PICK dir \in 0 .. MaxDirs : dir = caller[c].dir
  BY DEF CallerInv, CallerRecords
<1>2. None \in 0 .. MaxJobs
  BY SubmitOnceAssumption DEF None
<1>3. Genuine({})'
  BY DEF Genuine
<1>4. Become(c, pc, None, dir, "none", {})
  BY <1>1 DEF Goto
<1> QED BY <1>2, <1>3, <1>4, BecomeKeeps

LEMMA AnswerKeeps ==
    ASSUME CallerInv, Growth, NEW c \in Callers, ~At(c, "idle"),
           NEW pc \in Controls, pc # "query",
           NEW r \in {"ok", "error", "timeout"},
           NEW seen, Genuine(seen)', Answer(c, pc, r, seen)
    PROVE  CallerInv'
<1>1. PICK job \in 0 .. MaxJobs, dir \in 0 .. MaxDirs :
         job = caller[c].job /\ dir = caller[c].dir
  BY DEF CallerInv, CallerRecords
<1>2. job # None => Exists(job)'
  BY <1>1, SubmitOnceAssumption DEF CallerInv, Growth, JobIds, None
<1>3. Become(c, pc, job, dir, r, seen)
  BY <1>1 DEF Answer
<1> QED BY <1>2, <1>3, BecomeKeeps

LEMMA PutKeeps ==
    ASSUME RowInv, Growth, NEW rid \in Rids, NEW st \in States, Put(rid, st)
    PROVE  RowInv'
BY SubmitOnceAssumption DEF RowInv, Growth, RowRecords, Put, Row, None, JobIds

LEMMA UpdateKeeps ==
    ASSUME RowInv, Growth, NEW rid \in Rids, NEW st \in States, Update(rid, st)
    PROVE  RowInv'
BY SubmitOnceAssumption DEF RowInv, Growth, RowRecords, Update, None, JobIds

LEMMA UpdateJobKeeps ==
    ASSUME RowInv, Growth, NEW rid \in Rids, NEW st \in States, NEW job \in JobIds,
           Exists(job), UpdateJob(rid, st, job)
    PROVE  RowInv'
BY SubmitOnceAssumption DEF RowInv, Growth, RowRecords, UpdateJob, JobConflict, Row, None, JobIds

LEMMA BeginKeeps ==
    ASSUME CallerInv, WorldInv, NEW c \in Callers,
           NEW op \in {"submit", "reconcile", "status", "watch", "collect"},
           NEW pc \in Controls, pc # "query", NEW rid \in Rids, Begin(c, op, pc, rid)
    PROVE  CallerInv'
<1> DEFINE n == [pc |-> pc, op |-> op, rid |-> rid, job |-> None,
                 dir |-> None, reply |-> "none", seen |-> {}]
<1>1. /\ n \in CallerRecords
      /\ n.pc = pc /\ n.rid = rid /\ n.job = None /\ n.seen = {}
  BY SubmitOnceAssumption DEF CallerRecords, Controls, None
<1>2. caller' = [caller EXCEPT ![c] = n] /\ jobs' = jobs
  BY DEF Begin
<1>3. Growth
  BY <1>2 DEF Growth, Exists
<1>4. Genuine(n.seen)'
  BY <1>1 DEF Genuine
<1> HIDE DEF n
<1> QED BY <1>1, <1>2, <1>3, <1>4, CallerMoves

LEMMA AfterStatusKeeps ==
    ASSUME CallerInv, Growth, NEW c \in Callers, ~At(c, "idle"),
           NEW st, AfterStatus(c, st)
    PROVE  CallerInv'
<1>1. CASE Goto(c, "stopped")
  BY <1>1, GotoKeeps DEF Controls
<1>2. CASE Goto(c, "status")
  BY <1>2, GotoKeeps DEF Controls
<1>3. CASE Return(c)
  BY <1>3, ReturnKeeps
<1> QED BY <1>1, <1>2, <1>3 DEF AfterStatus

LEMMA QuietWorld ==
    ASSUME WorldInv, UNCHANGED <<jobs, late, claimed>>
    PROVE  WorldInv' /\ Growth
BY DEF WorldInv, Growth, Exists

LEMMA AcceptKeeps ==
    ASSUME WorldInv, NEW rid \in Rids, NEW dir \in 0 .. MaxDirs, NEW j \in JobIds,
           Accept(rid, dir, j)
    PROVE  /\ jobs' \in [JobIds -> JobRecords]
           /\ Growth
           /\ Exists(j)'
BY DEF WorldInv, Accept, JobRecords, JobStates, LiveJob, Growth, Exists

LEMMA SightedState ==
    ASSUME NEW s \in Sightings, s.state # "absent", s.state # "UNKNOWN"
    PROVE  s.job \in JobIds /\ s.state \in States
BY DEF Sightings, JobStates, LiveJob, States, Ambiguous, Active, Terminal, Succeeded, FailedStates

LEMMA KnownSighting ==
    ASSUME WorldInv, NEW j \in JobIds, Exists(j),
           NEW st \in {jobs[j].state, "UNKNOWN", "SUBMITTED"}
    PROVE  Sighting(j, st) \in Sightings /\ Sighting(j, st).job = j
           /\ Sighting(j, st).state # "absent"
BY DEF WorldInv, Sighting, Sightings, JobRecords, Exists

-----------------------------------------------------------------------------
LEMMA TypeInit == Init => TypeInv
<1> SUFFICES ASSUME Init PROVE TypeInv
  OBVIOUS
<1>1. Idle \in CallerRecords /\ Idle.pc = "idle" /\ Idle.job = None /\ Idle.seen = {}
  BY SubmitOnceAssumption DEF Idle, CallerRecords, None
<1>2. CallerInv
  BY <1>1 DEF Init, CallerInv, At, Rid, Genuine
<1>3. RowInv
  BY SubmitOnceAssumption DEF Init, RowInv, NoRow, Row, RowRecords, None
<1>4. WorldInv
  BY SubmitOnceAssumption DEF Init, WorldInv, JobRecords, JobStates, None
<1> QED BY <1>2, <1>3, <1>4 DEF TypeInv

LEMMA TypeBegin ==
    ASSUME TypeInv, NEW c \in Callers, NEW rid \in Rids,
           \/ Submit(c, rid) \/ (\E attempt \in Rids : ForceSubmit(c, rid, attempt))
           \/ Reconcile(c, rid) \/ RefreshStatus(c, rid) \/ Watch(c, rid) \/ Collect(c, rid)
    PROVE  TypeInv'
<1>1. ASSUME NEW r \in Rids,
             NEW op \in {"submit", "reconcile", "status", "watch", "collect"},
             NEW pc \in {"gate", "reconcile", "status", "download"}, Begin(c, op, pc, r)
      PROVE  TypeInv'
  <2>1. CallerInv'
    BY <1>1, BeginKeeps DEF TypeInv, Controls
  <2>2. UNCHANGED registry /\ UNCHANGED <<jobs, late, claimed>>
    BY <1>1 DEF Begin
  <2>3. WorldInv' /\ Growth
    BY <2>2, QuietWorld DEF TypeInv
  <2>4. RowInv'
    BY <2>2, <2>3, RowsStay DEF TypeInv
  <2> QED BY <2>1, <2>3, <2>4 DEF TypeInv
<1>2. CASE Submit(c, rid)
  BY <1>1, <1>2 DEF Submit
<1>3. CASE \E attempt \in Rids : ForceSubmit(c, rid, attempt)
  BY <1>1, <1>3 DEF ForceSubmit
<1>4. CASE Reconcile(c, rid)
  BY <1>1, <1>4 DEF Reconcile
<1>5. CASE RefreshStatus(c, rid)
  BY <1>1, <1>5 DEF RefreshStatus
<1>6. CASE Watch(c, rid)
  BY <1>1, <1>6 DEF Watch
<1>7. CASE Collect(c, rid)
  BY <1>1, <1>7 DEF Collect
<1> QED BY <1>2, <1>3, <1>4, <1>5, <1>6, <1>7

\* The steps that read the registry or the cluster.
LEMMA TypeRead ==
    ASSUME TypeInv, NEW c \in Callers,
           ReconcileRead(c) \/ StatusRead(c) \/ QueryStatus(c) \/ Scan(c)
    PROVE  TypeInv'
<1>1. UNCHANGED registry /\ UNCHANGED <<jobs, late, claimed>> /\ ~At(c, "idle")
  BY DEF ReconcileRead, StatusRead, QueryStatus, Scan, At
<1>2. WorldInv' /\ Growth
  BY <1>1, QuietWorld DEF TypeInv
<1>3. RowInv'
  BY <1>1, <1>2, RowsStay DEF TypeInv
<1>4. PICK dir \in 0 .. MaxDirs, job \in 0 .. MaxJobs, rid \in Rids :
         dir = caller[c].dir /\ job = registry[rid].job /\ rid = Rid(c)
  BY <1>1 DEF TypeInv, CallerInv, CallerRecords, RowInv, RowRecords
<1>5. job # None => Exists(job)'
  BY <1>2, <1>4, SubmitOnceAssumption DEF TypeInv, RowInv, Growth, JobIds, None
<1>6. Genuine({})'
  BY DEF Genuine
<1>7. ASSUME NEW pc \in {"query", "scan"}, Become(c, pc, job, dir, "none", {}),
             pc = "query" => job # None
      PROVE  CallerInv'
  BY <1>1, <1>2, <1>5, <1>6, <1>7, BecomeKeeps DEF TypeInv, Controls
<1>8. CASE ReconcileRead(c)
  <2>1. CASE job # None
    BY <1>4, <1>7, <1>8, <2>1, <1>2, <1>3 DEF ReconcileRead, TypeInv
  <2>2. CASE job = None
    BY <1>4, <1>7, <1>8, <2>2, <1>2, <1>3 DEF ReconcileRead, TypeInv
  <2> QED BY <2>1, <2>2
<1>9. CASE StatusRead(c)
  <2>1. CASE job # None
    BY <1>4, <1>7, <1>9, <2>1, <1>2, <1>3 DEF StatusRead, TypeInv
  <2>2. CASE Return(c)
    BY <1>2, <1>3, <2>2, ReturnKeeps DEF TypeInv
  <2>3. CASE UNCHANGED caller
    BY <1>2, <1>3, <2>3, CallerStays DEF TypeInv
  <2> QED BY <1>4, <1>9, <2>1, <2>2, <2>3 DEF StatusRead
<1>10. ASSUME NEW pc \in {"statusAnswered", "scanned"}, NEW r \in {"ok", "error"},
              NEW seen, Genuine(seen), Answer(c, pc, r, seen)
       PROVE  CallerInv'
  <2>1. Genuine(seen)'
    BY <1>2, <1>10 DEF Genuine, Growth, Sightings
  <2> QED BY <1>1, <1>2, <1>10, <2>1, AnswerKeeps DEF TypeInv, Controls
<1>11. CASE QueryStatus(c)
  <2>1. /\ caller[c].job \in JobIds
        /\ Exists(caller[c].job)
    BY <1>11, SubmitOnceAssumption DEF QueryStatus, TypeInv, CallerInv, CallerRecords, At, JobIds, None
  <2>2. PICK st \in {jobs[caller[c].job].state, "UNKNOWN"} :
           Answer(c, "statusAnswered", "ok", {Sighting(caller[c].job, st)})
    BY <1>11 DEF QueryStatus
  <2>3. Genuine({Sighting(caller[c].job, st)})
    BY <2>1, <2>2, KnownSighting DEF TypeInv, Genuine
  <2>4. PICK seen : seen = {Sighting(caller[c].job, st)}
    OBVIOUS
  <2> QED BY <1>2, <1>3, <1>10, <2>2, <2>3, <2>4 DEF TypeInv
<1>12. CASE Scan(c)
  <2>0. PICK found \in Listings(JobName(Rid(c))) :
            \/ Answer(c, "scanned", "error", {})
            \/ Answer(c, "scanned", "ok", {Sighting(j, jobs[j].state) : j \in found})
            \/ Answer(c, "scanned", "ok", {Sighting(j, "UNKNOWN") : j \in found})
            \/ Answer(c, "scanned", "ok", {})
    BY <1>12 DEF Scan
  <2>1. \A j \in found : j \in JobIds /\ Exists(j)
    BY DEF Listings, ByName, LiveNamed, Known, Exists
  <2>2. Genuine({Sighting(j, jobs[j].state) : j \in found})
    BY <2>1, KnownSighting DEF TypeInv, Genuine
  <2>3. Genuine({Sighting(j, "UNKNOWN") : j \in found})
    BY <2>1, KnownSighting DEF TypeInv, Genuine
  <2>4. Genuine({})
    BY DEF Genuine
  <2>5. PICK r \in {"ok", "error"}, seen \in SUBSET Sightings :
           Genuine(seen) /\ Answer(c, "scanned", r, seen)
    BY <2>0, <2>2, <2>3, <2>4 DEF Genuine
  <2> QED BY <1>2, <1>3, <1>10, <2>5 DEF TypeInv
<1> QED BY <1>8, <1>9, <1>11, <1>12

\* The steps that write a row and go on, return or poll again.
LEMMA TypeWrite ==
    ASSUME TypeInv, NEW c \in Callers, ~At(c, "idle"),
           UNCHANGED <<jobs, late, claimed>>,
           \/ Return(c)
           \/ \E pc \in Controls \ {"query"} : Goto(c, pc)
           \/ \E st : AfterStatus(c, st),
           \/ UNCHANGED registry
           \/ \E st \in States : Put(Rid(c), st) \/ Update(Rid(c), st)
           \/ \E st \in States, job \in JobIds : Exists(job) /\ UpdateJob(Rid(c), st, job)
    PROVE  TypeInv'
<1>1. WorldInv' /\ Growth
  BY QuietWorld DEF TypeInv
<1>2. CallerInv'
  BY <1>1, ReturnKeeps, GotoKeeps, AfterStatusKeeps DEF TypeInv
<1>3. PICK rid \in Rids : rid = Rid(c)
  BY DEF TypeInv, CallerInv
<1>4. RowInv'
  <2>1. CASE UNCHANGED registry
    BY <1>1, <2>1, RowsStay DEF TypeInv
  <2>2. CASE \E st \in States : Put(rid, st) \/ Update(rid, st)
    BY <1>1, <2>2, PutKeeps, UpdateKeeps DEF TypeInv
  <2>3. CASE \E st \in States, job \in JobIds : Exists(job) /\ UpdateJob(rid, st, job)
    BY <1>1, <2>3, UpdateJobKeeps DEF TypeInv
  <2> QED BY <1>3, <2>1, <2>2, <2>3
<1> QED BY <1>1, <1>2, <1>4 DEF TypeInv

LEMMA TypeApply ==
    ASSUME TypeInv, NEW c \in Callers,
           \/ ApplyStatus(c) \/ ApplyScan(c) \/ ApplySbatch(c) \/ MarkResult(c)
           \/ GateFails(c) \/ GatePasses(c) \/ DirectoryClash(c)
           \/ StageFails(c) \/ StageSucceeds(c) \/ Crash(c)
    PROVE  TypeInv'
<1>1. UNCHANGED <<jobs, late, claimed>> /\ ~At(c, "idle")
  BY DEF ApplyStatus, ApplyScan, ApplySbatch, MarkResult, GateFails, GatePasses,
         DirectoryClash, StageFails, StageSucceeds, Crash, At
<1>2. ASSUME NEW s \in caller[c].seen
      PROVE  /\ s \in Sightings /\ Exists(s.job) /\ s.state # "absent" /\ s.job \in JobIds
             /\ s.state # "UNKNOWN" => s.state \in States
  BY <1>2, SightedState DEF TypeInv, CallerInv, Genuine, Sightings
<1>3. /\ Unresolved \in States
      /\ {"SUBMITTED", "SUBMITTING", "FAILED", "PREPARED", "PREFLIGHT_PASSED",
          "COLLECTED", "VALIDATED"} \subseteq States
  BY DEF States, Ambiguous, Active, Terminal, Succeeded, FailedStates, Unresolved
<1>4. CASE ApplyStatus(c)
  <2>1. PICK s \in caller[c].seen :
          IF s.state = "UNKNOWN"
          THEN /\ UNCHANGED registry
               /\ Goto(c, "scan") \/ AfterStatus(c, registry[Rid(c)].state)
          ELSE Update(Rid(c), s.state) /\ AfterStatus(c, s.state)
    BY <1>4 DEF ApplyStatus
  <2> QED BY <1>1, <1>2, <2>1, TypeWrite DEF Controls
<1>5. CASE ApplyScan(c)
  <2>1. CASE Return(c) /\ UNCHANGED registry
    BY <1>1, <2>1, TypeWrite
  <2>2. CASE Return(c) /\ Update(Rid(c), Unresolved)
    BY <1>1, <1>3, <2>2, TypeWrite
  <2>3. CASE Return(c) /\ \E s \in caller[c].seen :
               UpdateJob(Rid(c), IF s.state = "UNKNOWN" THEN Unresolved ELSE s.state, s.job)
    BY <1>1, <1>2, <1>3, <2>3, TypeWrite
  <2>4. CASE Goto(c, "gate") /\ UNCHANGED registry
    BY <1>1, <2>4, TypeWrite DEF Controls
  <2> QED BY <1>5, <2>1, <2>2, <2>3, <2>4 DEF ApplyScan
<1>6. CASE ApplySbatch(c)
  <2>1. CASE Update(Rid(c), "SUBMITTING") \/ Update(Rid(c), "FAILED")
    BY <1>1, <1>3, <1>6, <2>1, TypeWrite DEF ApplySbatch
  <2>2. CASE \E s \in caller[c].seen : UpdateJob(Rid(c), "SUBMITTED", s.job)
    BY <1>1, <1>2, <1>3, <1>6, <2>2, TypeWrite DEF ApplySbatch
  <2> QED BY <1>6, <2>1, <2>2 DEF ApplySbatch
<1>7. CASE MarkResult(c) \/ GateFails(c) \/ GatePasses(c) \/ DirectoryClash(c) \/ StageFails(c)
           \/ StageSucceeds(c) \/ Crash(c)
  BY <1>1, <1>3, <1>7, TypeWrite
     DEF MarkResult, GateFails, GatePasses, DirectoryClash, StageFails, StageSucceeds, Crash, Controls
<1> QED BY <1>4, <1>5, <1>6, <1>7

LEMMA TypeClaim ==
    ASSUME TypeInv, NEW c \in Callers, ClaimDirectory(c)
    PROVE  TypeInv'
<1>1. /\ UNCHANGED jobs /\ UNCHANGED late /\ claimed' = claimed + 1
      /\ claimed + 1 \in 0 .. MaxDirs /\ ~At(c, "idle")
  BY SubmitOnceAssumption DEF ClaimDirectory, TypeInv, WorldInv, At
<1>2. WorldInv' /\ Growth
  BY <1>1 DEF TypeInv, WorldInv, Growth, Exists
<1>3. PICK rid \in Rids, dir \in 0 .. MaxDirs : rid = Rid(c) /\ dir = claimed + 1
  BY <1>1 DEF TypeInv, CallerInv
<1>4. CallerInv'
  <2>1. Become(c, "stage", None, dir, "none", {})
    BY <1>3 DEF ClaimDirectory
  <2>2. None \in 0 .. MaxJobs /\ Genuine({})'
    BY SubmitOnceAssumption DEF None, Genuine
  <2> QED BY <1>1, <1>2, <2>1, <2>2, BecomeKeeps DEF TypeInv, Controls
<1>5. RowInv'
  <2>1. registry' = [registry EXCEPT ![rid] = Row("SUBMITTING", registry[rid].job, dir)]
    BY <1>3 DEF ClaimDirectory
  <2>2. "SUBMITTING" \in States
    BY DEF States, Ambiguous
  <2> QED BY <1>2, <2>1, <2>2, SubmitOnceAssumption DEF TypeInv, RowInv, RowRecords, Row, Growth, None, JobIds
<1> QED BY <1>2, <1>4, <1>5 DEF TypeInv

LEMMA TypeSbatch ==
    ASSUME TypeInv, NEW c \in Callers, Sbatch(c)
    PROVE  TypeInv'
<1>1. UNCHANGED <<registry, claimed>> /\ ~At(c, "idle")
  BY DEF Sbatch, At
<1>2. PICK rid \in Rids, dir \in 0 .. MaxDirs : rid = Rid(c) /\ dir = caller[c].dir
  BY <1>1 DEF TypeInv, CallerInv, CallerRecords
<1>3. ASSUME Growth, WorldInv', NEW r \in {"ok", "timeout", "error"}, NEW seen,
             Genuine(seen)', Answer(c, "submitted", r, seen)
      PROVE  TypeInv'
  BY <1>1, <1>3, AnswerKeeps, RowsStay DEF TypeInv, Controls
<1>4. CASE \E j \in JobIds :
             /\ Accept(rid, dir, j)
             /\ \E r \in {"ok", "timeout", "error"} :
                   Answer(c, "submitted", r, {Sighting(j, "SUBMITTED")})
             /\ UNCHANGED late
  <2>1. PICK j \in JobIds, r \in {"ok", "timeout", "error"} :
             /\ Accept(rid, dir, j)
             /\ Answer(c, "submitted", r, {Sighting(j, "SUBMITTED")})
    BY <1>4
  <2>2. jobs' \in [JobIds -> JobRecords] /\ Growth /\ Exists(j)'
    BY <2>1, AcceptKeeps DEF TypeInv
  <2>3. PICK seen : seen = {Sighting(j, "SUBMITTED")}
    OBVIOUS
  <2>4. Genuine(seen)'
    BY <2>2, <2>3 DEF Genuine, Sighting, Sightings
  <2>5. WorldInv'
    BY <1>1, <1>4, <2>2 DEF TypeInv, WorldInv
  <2> QED BY <1>3, <2>1, <2>2, <2>3, <2>4, <2>5
<1>5. CASE /\ \E r \in {"timeout", "error"} : Answer(c, "submitted", r, {})
           /\ UNCHANGED jobs
           /\ late' \in {late, late \cup {[rid |-> rid, dir |-> dir]}}
  <2>1. Genuine({})' /\ Growth
    BY <1>5 DEF Genuine, Growth, Exists
  <2>2. WorldInv'
    BY <1>1, <1>5 DEF TypeInv, WorldInv
  <2> QED BY <1>3, <1>5, <2>1, <2>2
<1> QED BY <1>2, <1>4, <1>5 DEF Sbatch

LEMMA TypeCluster ==
    ASSUME TypeInv, LateArrives \/ (\E j \in JobIds : JobStarts(j) \/ JobEnds(j))
    PROVE  TypeInv'
<1>1. UNCHANGED registry /\ UNCHANGED claimed /\ UNCHANGED caller
  BY DEF LateArrives, JobStarts, JobEnds
<1>2. WorldInv' /\ Growth
  <2>1. CASE LateArrives
    <3>1. PICK r \in late, j \in JobIds : Accept(r.rid, r.dir, j) /\ late' = late \ {r}
      BY <2>1 DEF LateArrives
    <3>2. jobs' \in [JobIds -> JobRecords] /\ Growth
      BY <3>1, AcceptKeeps DEF TypeInv, WorldInv
    <3> QED BY <1>1, <3>1, <3>2 DEF TypeInv, WorldInv
  <2>2. CASE \E j \in JobIds : JobStarts(j) \/ JobEnds(j)
    <3>1. PICK j \in JobIds : JobStarts(j) \/ JobEnds(j)
      BY <2>2
    <3>2. PICK s \in {"RUNNING"} \cup Outcomes : JobBecomes(j, s)
      BY <3>1 DEF JobStarts, JobEnds
    <3>3. UNCHANGED late
      BY <3>1 DEF JobStarts, JobEnds
    <3>4. s \in JobStates /\ s # "absent"
      BY SubmitOnceAssumption DEF JobStates, LiveJob, FailedStates
    <3>5. jobs \in [JobIds -> JobRecords]
      BY DEF TypeInv, WorldInv
    <3>6. jobs' \in [JobIds -> JobRecords]
      BY <3>2, <3>4, <3>5 DEF JobBecomes, JobRecords
    <3>7. Growth
      BY <3>2, <3>4, <3>5 DEF JobBecomes, JobRecords, Growth, Exists
    <3> QED BY <1>1, <3>3, <3>6, <3>7 DEF TypeInv, WorldInv
  <2> QED BY <2>1, <2>2
<1> QED BY <1>1, <1>2, RowsStay, CallerStays DEF TypeInv

LEMMA TypeNext == TypeInv /\ [Next]_vars => TypeInv'
<1> SUFFICES ASSUME TypeInv, [Next]_vars PROVE TypeInv'
  OBVIOUS
<1>1. CASE UNCHANGED vars
  <2>1. UNCHANGED registry /\ UNCHANGED caller /\ UNCHANGED <<jobs, late, claimed>>
    BY <1>1 DEF vars
  <2> QED BY <2>1, QuietWorld, RowsStay, CallerStays DEF TypeInv
<1>2. CASE \E c \in Submitters : SubmitterCall(c)
  BY <1>2, TypeBegin DEF SubmitterCall, Callers
<1>3. CASE \E w \in Watchers, rid \in Rids : Watch(w, rid)
  BY <1>3, TypeBegin DEF Callers
<1>4. CASE \E c \in Callers : CallerStep(c) \/ Crash(c)
  BY <1>4, TypeRead, TypeApply, TypeClaim, TypeSbatch DEF CallerStep
<1>5. CASE LateArrives \/ (\E j \in JobIds : JobStarts(j) \/ JobEnds(j))
  BY <1>5, TypeCluster
<1> QED BY <1>1, <1>2, <1>3, <1>4, <1>5 DEF Next

LEMMA TypeAlways == Spec => []TypeInv
BY TypeInit, TypeNext, PTL DEF Spec

(* Every row, job and coroutine keeps its shape, and with it every row's job   *)
(* id is the id of a job the cluster accepted.                               *)
THEOREM TypeCorrect == Spec => []TypeOK
<1>1. TypeInv => TypeOK
  BY DEF TypeInv, CallerInv, RowInv, WorldInv, TypeOK
<1> QED BY <1>1, TypeAlways, PTL

-----------------------------------------------------------------------------
(* Where a coroutine goes, and that the others stay.                        *)

Elsewhere(c) == \A d \in Callers \ {c} : caller'[d] = caller[d]

LEMMA WhereBecome ==
    ASSUME CallerInv, NEW c \in Callers, NEW pc, NEW job, NEW dir, NEW r, NEW seen,
           Become(c, pc, job, dir, r, seen)
    PROVE  /\ Elsewhere(c)
           /\ caller'[c].pc = pc /\ caller'[c].op = caller[c].op
           /\ caller'[c].rid = caller[c].rid /\ caller'[c].dir = dir
           /\ caller'[c].reply = r /\ caller'[c].seen = seen
BY DEF CallerInv, Become, Elsewhere

LEMMA WhereReturn ==
    ASSUME CallerInv, NEW c \in Callers, Return(c)
    PROVE  Elsewhere(c) /\ caller'[c].pc = "idle" /\ caller'[c].op = "none"
BY DEF CallerInv, Return, Elsewhere, Idle

LEMMA WhereGoto ==
    ASSUME CallerInv, NEW c \in Callers, NEW pc, Goto(c, pc)
    PROVE  /\ Elsewhere(c)
           /\ caller'[c].pc = pc /\ caller'[c].op = caller[c].op
           /\ caller'[c].rid = caller[c].rid /\ caller'[c].dir = caller[c].dir
BY DEF CallerInv, Goto, Become, Elsewhere

LEMMA WhereAnswer ==
    ASSUME CallerInv, NEW c \in Callers, NEW pc, NEW r, NEW seen, Answer(c, pc, r, seen)
    PROVE  /\ Elsewhere(c)
           /\ caller'[c].pc = pc /\ caller'[c].op = caller[c].op
           /\ caller'[c].rid = caller[c].rid /\ caller'[c].dir = caller[c].dir
           /\ caller'[c].reply = r /\ caller'[c].seen = seen
BY DEF CallerInv, Answer, Become, Elsewhere

LEMMA WhereBegin ==
    ASSUME CallerInv, NEW c \in Callers, NEW op, NEW pc, NEW rid, Begin(c, op, pc, rid)
    PROVE  /\ Elsewhere(c)
           /\ caller'[c].pc = pc /\ caller'[c].op = op /\ caller'[c].rid = rid
BY DEF CallerInv, Begin, Elsewhere

LEMMA WhereAfterStatus ==
    ASSUME CallerInv, NEW c \in Callers, NEW st, AfterStatus(c, st)
    PROVE  /\ Elsewhere(c)
           /\ \/ caller'[c].pc = "idle" /\ caller'[c].op = "none" /\ caller[c].op # "watch"
              \/ /\ caller'[c].pc \in {"status", "stopped"}
                 /\ caller'[c].op = "watch" /\ caller[c].op = "watch"
BY WhereGoto, WhereReturn DEF AfterStatus

-----------------------------------------------------------------------------
(* Directories.  A directory has one owner at a time: a coroutine between     *)
(* claiming it and sbatch, then a late sbatch command, then a job.           *)

Staged(c) == caller[c].pc \in {"stage", "sbatch"}

Handed(dir) == dir \in 1 .. claimed

DirInv ==
    /\ \A j \in JobIds : Exists(j) => Handed(jobs[j].dir)
    /\ \A r \in late : Handed(r.dir)
    /\ \A c \in Callers : Staged(c) => Handed(caller[c].dir)
    /\ OneJobPerDirectory
    /\ \A r, q \in late : r.dir = q.dir => r = q
    /\ \A c, d \in Callers : Staged(c) /\ Staged(d) /\ caller[c].dir = caller[d].dir => c = d
    /\ \A j \in JobIds, r \in late : Exists(j) => jobs[j].dir # r.dir
    /\ \A j \in JobIds, c \in Callers : Exists(j) /\ Staged(c) => jobs[j].dir # caller[c].dir
    /\ \A r \in late, c \in Callers : Staged(c) => r.dir # caller[c].dir

\* A step that hands out no directory and creates no job.
NoNewOwner ==
    /\ UNCHANGED <<late, claimed>>
    /\ \A j \in JobIds : Exists(j)' => Exists(j) /\ jobs'[j].dir = jobs[j].dir
    /\ \A d \in Callers : Staged(d)' => Staged(d) /\ caller'[d].dir = caller[d].dir

LEMMA DirQuiet == ASSUME DirInv, NoNewOwner PROVE DirInv'
<1>1. (/\ \A j \in JobIds : Exists(j) => Handed(jobs[j].dir)
       /\ \A r \in late : Handed(r.dir)
       /\ \A c \in Callers : Staged(c) => Handed(caller[c].dir))'
  BY DEF DirInv, NoNewOwner, Handed
<1>2. OneJobPerDirectory'
  BY DEF DirInv, NoNewOwner, OneJobPerDirectory
<1>3. (/\ \A r, q \in late : r.dir = q.dir => r = q
       /\ \A c, d \in Callers : Staged(c) /\ Staged(d) /\ caller[c].dir = caller[d].dir => c = d)'
  BY DEF DirInv, NoNewOwner
<1>4. (/\ \A j \in JobIds, r \in late : Exists(j) => jobs[j].dir # r.dir
       /\ \A j \in JobIds, c \in Callers : Exists(j) /\ Staged(c) => jobs[j].dir # caller[c].dir
       /\ \A r \in late, c \in Callers : Staged(c) => r.dir # caller[c].dir)'
  BY DEF DirInv, NoNewOwner
<1> QED BY <1>1, <1>2, <1>3, <1>4 DEF DirInv

LEMMA DirBegin ==
    ASSUME TypeInv, NEW c \in Callers,
           \/ SubmitterCall(c)
           \/ \E rid \in Rids : Watch(c, rid)
    PROVE  NoNewOwner
<1>1. PICK op, pc, rid : Begin(c, op, pc, rid) /\ pc \notin {"stage", "sbatch"}
  BY DEF SubmitterCall, Submit, ForceSubmit, Reconcile, RefreshStatus, Watch, Collect
<1>2. Elsewhere(c) /\ caller'[c].pc = pc
  BY <1>1, WhereBegin DEF TypeInv
<1>3. UNCHANGED <<jobs, late, claimed>>
  BY <1>1 DEF Begin
<1> QED BY <1>1, <1>2, <1>3 DEF NoNewOwner, Staged, Elsewhere, Exists

\* Every step of a coroutine but two hands out nothing.
LEMMA DirCaller ==
    ASSUME TypeInv, NEW c \in Callers, CallerStep(c) \/ Crash(c),
           ~ClaimDirectory(c), ~Sbatch(c)
    PROVE  NoNewOwner
<1>1. UNCHANGED <<jobs, late, claimed>>
  BY DEF CallerStep, Crash, ReconcileRead, StatusRead, QueryStatus, ApplyStatus, Scan, ApplyScan,
         GateFails, GatePasses, DirectoryClash, StageFails, StageSucceeds, ApplySbatch, MarkResult
<1>2. ASSUME Elsewhere(c), Staged(c)' => Staged(c) /\ caller'[c].dir = caller[c].dir
      PROVE  NoNewOwner
  BY <1>1, <1>2 DEF NoNewOwner, Staged, Elsewhere, Exists
<1>3. CASE Return(c)
  BY <1>2, <1>3, WhereReturn DEF TypeInv, Staged
<1>4. CASE \E st : AfterStatus(c, st)
  BY <1>2, <1>4, WhereAfterStatus DEF TypeInv, Staged
<1>5. CASE \E pc : Goto(c, pc) /\ pc \notin {"stage", "sbatch"}
  BY <1>2, <1>5, WhereGoto DEF TypeInv, Staged
<1>6. CASE \E pc, r, seen : Answer(c, pc, r, seen) /\ pc \notin {"stage", "sbatch"}
  BY <1>2, <1>6, WhereAnswer DEF TypeInv, Staged
<1>7. CASE \E pc, job, dir, seen : Become(c, pc, job, dir, "none", seen)
                                   /\ pc \in {"query", "scan"}
  BY <1>2, <1>7, WhereBecome DEF TypeInv, Staged
<1>8. CASE UNCHANGED caller
  BY <1>2, <1>8 DEF Elsewhere, Staged
<1>9. CASE StageSucceeds(c)
  BY <1>2, <1>9, WhereGoto DEF StageSucceeds, TypeInv, Staged, At
<1>10. CASE ReconcileRead(c) \/ StatusRead(c)
  BY <1>3, <1>7, <1>8, <1>10 DEF ReconcileRead, StatusRead
<1>11. CASE QueryStatus(c) \/ Scan(c)
  <2>1. \E pc, r, seen : Answer(c, pc, r, seen) /\ pc \in {"statusAnswered", "scanned"}
    <3>1. CASE QueryStatus(c)
      BY <3>1 DEF QueryStatus
    <3>2. CASE Scan(c)
      BY <3>2 DEF Scan
    <3> QED BY <1>11, <3>1, <3>2
  <2> QED BY <1>6, <2>1
<1>12. CASE ApplyStatus(c) \/ ApplyScan(c)
  BY <1>3, <1>4, <1>5, <1>12 DEF ApplyStatus, ApplyScan
<1>13. CASE GateFails(c) \/ GatePasses(c) \/ DirectoryClash(c) \/ StageFails(c)
            \/ ApplySbatch(c) \/ MarkResult(c) \/ Crash(c)
  BY <1>3, <1>5, <1>13
     DEF GateFails, GatePasses, DirectoryClash, StageFails, ApplySbatch, MarkResult, Crash
<1> QED BY <1>9, <1>10, <1>11, <1>12, <1>13 DEF CallerStep

LEMMA DirClaim ==
    ASSUME TypeInv, DirInv, NEW c \in Callers, ClaimDirectory(c)
    PROVE  DirInv'
<1>1. /\ claimed \in Nat /\ claimed' = claimed + 1
      /\ UNCHANGED <<jobs, late>>
  BY SubmitOnceAssumption DEF ClaimDirectory, TypeInv, WorldInv
<1>2. Elsewhere(c) /\ caller'[c].dir = claimed'
  BY <1>1, WhereBecome DEF ClaimDirectory, TypeInv
<1>3. \A d \in Callers : Staged(d)' => d = c \/ (Staged(d) /\ caller'[d].dir = caller[d].dir)
  BY <1>2 DEF Staged, Elsewhere
<1>4. \A dir : Handed(dir) => Handed(dir)' /\ dir # claimed'
  BY <1>1 DEF Handed
<1>5. Handed(claimed)'
  BY <1>1 DEF Handed
<1>6. (/\ \A j \in JobIds : Exists(j) => Handed(jobs[j].dir)
       /\ \A r \in late : Handed(r.dir)
       /\ \A d \in Callers : Staged(d) => Handed(caller[d].dir))'
  BY <1>1, <1>2, <1>3, <1>4, <1>5 DEF DirInv, Handed, Exists
<1>7. OneJobPerDirectory' /\ (\A r, q \in late : r.dir = q.dir => r = q)'
  BY <1>1 DEF DirInv, OneJobPerDirectory, Exists
<1>8. (\A d, e \in Callers : Staged(d) /\ Staged(e) /\ caller[d].dir = caller[e].dir => d = e)'
  BY <1>2, <1>3, <1>4 DEF DirInv
<1>9. (/\ \A j \in JobIds, r \in late : Exists(j) => jobs[j].dir # r.dir
       /\ \A j \in JobIds, d \in Callers : Exists(j) /\ Staged(d) => jobs[j].dir # caller[d].dir
       /\ \A r \in late, d \in Callers : Staged(d) => r.dir # caller[d].dir)'
  BY <1>1, <1>2, <1>3, <1>4 DEF DirInv, Exists
<1> QED BY <1>6, <1>7, <1>8, <1>9 DEF DirInv

\* A job is created in the directory dir, of which nobody else is the owner.
LEMMA DirAccept ==
    ASSUME TypeInv, DirInv, NEW rid \in Rids, NEW dir \in 0 .. MaxDirs, NEW j \in JobIds,
           Accept(rid, dir, j), Handed(dir), UNCHANGED claimed, late' \subseteq late,
           \A k \in JobIds : Exists(k) => jobs[k].dir # dir,
           \A r \in late' : r.dir # dir,
           \A d \in Callers : Staged(d)' => /\ Staged(d)
                                            /\ caller'[d].dir = caller[d].dir
                                            /\ caller[d].dir # dir
    PROVE  DirInv'
<1>1. \A k \in JobIds : \/ k = j /\ Exists(k)' /\ jobs'[k].dir = dir
                        \/ k # j /\ jobs'[k] = jobs[k]
  BY DEF TypeInv, WorldInv, Accept, Exists
<1>2. (/\ \A k \in JobIds : Exists(k) => Handed(jobs[k].dir)
       /\ \A r \in late : Handed(r.dir)
       /\ \A d \in Callers : Staged(d) => Handed(caller[d].dir))'
  BY <1>1 DEF DirInv, Handed, Exists
<1>3. OneJobPerDirectory'
  BY <1>1 DEF DirInv, OneJobPerDirectory, Exists
<1>4. (/\ \A r, q \in late : r.dir = q.dir => r = q
       /\ \A d, e \in Callers : Staged(d) /\ Staged(e) /\ caller[d].dir = caller[e].dir => d = e)'
  BY DEF DirInv
<1>5. (/\ \A k \in JobIds, r \in late : Exists(k) => jobs[k].dir # r.dir
       /\ \A k \in JobIds, d \in Callers : Exists(k) /\ Staged(d) => jobs[k].dir # caller[d].dir
       /\ \A r \in late, d \in Callers : Staged(d) => r.dir # caller[d].dir)'
  BY <1>1 DEF DirInv, Exists
<1> QED BY <1>2, <1>3, <1>4, <1>5 DEF DirInv

LEMMA DirSbatch ==
    ASSUME TypeInv, DirInv, NEW c \in Callers, Sbatch(c)
    PROVE  DirInv'
<1>1. UNCHANGED claimed /\ Staged(c)
  BY DEF Sbatch, At, Staged
<1>2. PICK rid \in Rids, dir \in 0 .. MaxDirs : rid = Rid(c) /\ dir = caller[c].dir
  BY DEF Sbatch, TypeInv, CallerInv, CallerRecords, At
<1>3. Elsewhere(c) /\ caller'[c].pc = "submitted"
  <2>1. PICK r, seen : Answer(c, "submitted", r, seen)
    BY DEF Sbatch
  <2> QED BY <2>1, WhereAnswer DEF TypeInv
<1>4. \A d \in Callers : Staged(d)' => d # c /\ Staged(d) /\ caller'[d].dir = caller[d].dir
  BY <1>3 DEF Staged, Elsewhere
<1>5. /\ Handed(dir)
      /\ \A k \in JobIds : Exists(k) => jobs[k].dir # dir
      /\ \A r \in late : r.dir # dir
      /\ \A d \in Callers : d # c /\ Staged(d) => caller[d].dir # dir
  BY <1>1, <1>2 DEF DirInv
<1>6. CASE \E j \in JobIds : Accept(rid, dir, j) /\ UNCHANGED late
  BY <1>1, <1>4, <1>5, <1>6, DirAccept
<1>7. CASE UNCHANGED <<jobs, late>>
  BY <1>1, <1>4, <1>7, DirQuiet DEF NoNewOwner, Exists
<1>8. CASE late' = late \cup {[rid |-> rid, dir |-> dir]} /\ UNCHANGED jobs
  <2>1. \A r \in late' : r \in late \/ (r = [rid |-> rid, dir |-> dir] /\ r.dir = dir)
    BY <1>8
  <2>2. (/\ \A j \in JobIds : Exists(j) => Handed(jobs[j].dir)
         /\ \A r \in late : Handed(r.dir)
         /\ \A d \in Callers : Staged(d) => Handed(caller[d].dir))'
    BY <1>1, <1>4, <1>5, <1>8, <2>1 DEF DirInv, Handed, Exists
  <2>3. OneJobPerDirectory' /\ (\A r, q \in late : r.dir = q.dir => r = q)'
    BY <1>5, <1>8, <2>1 DEF DirInv, OneJobPerDirectory, Exists
  <2>4. (\A d, e \in Callers : Staged(d) /\ Staged(e) /\ caller[d].dir = caller[e].dir => d = e)'
    BY <1>4 DEF DirInv
  <2>5. (/\ \A j \in JobIds, r \in late : Exists(j) => jobs[j].dir # r.dir
         /\ \A j \in JobIds, d \in Callers : Exists(j) /\ Staged(d) => jobs[j].dir # caller[d].dir
         /\ \A r \in late, d \in Callers : Staged(d) => r.dir # caller[d].dir)'
    BY <1>4, <1>5, <1>8, <2>1 DEF DirInv, Exists
  <2> QED BY <2>2, <2>3, <2>4, <2>5 DEF DirInv
<1> QED BY <1>2, <1>6, <1>7, <1>8 DEF Sbatch

LEMMA DirCluster ==
    ASSUME TypeInv, DirInv, LateArrives \/ (\E j \in JobIds : JobStarts(j) \/ JobEnds(j))
    PROVE  DirInv'
<1>1. UNCHANGED <<claimed, caller>>
  BY DEF LateArrives, JobStarts, JobEnds
<1>2. CASE LateArrives
  <2>1. PICK r \in late, j \in JobIds : Accept(r.rid, r.dir, j) /\ late' = late \ {r}
    BY <1>2 DEF LateArrives
  <2>2. PICK rid \in Rids, dir \in 0 .. MaxDirs : rid = r.rid /\ dir = r.dir
    BY DEF TypeInv, WorldInv
  <2>3. /\ Handed(dir) /\ late' \subseteq late
        /\ \A k \in JobIds : Exists(k) => jobs[k].dir # dir
        /\ \A q \in late' : q.dir # dir
        /\ \A d \in Callers : Staged(d) => caller[d].dir # dir
    BY <2>1, <2>2 DEF DirInv
  <2>4. \A d \in Callers : Staged(d)' => Staged(d) /\ caller'[d].dir = caller[d].dir
    BY <1>1 DEF Staged
  <2> QED BY <1>1, <2>1, <2>2, <2>3, <2>4, DirAccept
<1>3. CASE \E j \in JobIds : JobStarts(j) \/ JobEnds(j)
  <2>1. PICK j \in JobIds, s \in {"RUNNING"} \cup Outcomes : JobBecomes(j, s) /\ Exists(j) /\ UNCHANGED late
    BY <1>3 DEF JobStarts, JobEnds, Exists, LiveJob
  <2>2. \A k \in JobIds : Exists(k)' => Exists(k) /\ jobs'[k].dir = jobs[k].dir
    BY <2>1 DEF TypeInv, WorldInv, JobBecomes, Exists
  <2> QED BY <1>1, <2>1, <2>2, DirQuiet DEF NoNewOwner, Staged
<1> QED BY <1>2, <1>3

LEMMA DirNext == TypeInv /\ DirInv /\ [Next]_vars => DirInv'
<1> SUFFICES ASSUME TypeInv, DirInv, [Next]_vars PROVE DirInv'
  OBVIOUS
<1>1. CASE UNCHANGED vars
  BY <1>1, DirQuiet DEF vars, NoNewOwner, Staged, Exists
<1>2. CASE \/ \E c \in Submitters : SubmitterCall(c)
           \/ \E w \in Watchers, rid \in Rids : Watch(w, rid)
  BY <1>2, DirBegin, DirQuiet DEF Callers
<1>3. CASE \E c \in Callers : CallerStep(c) \/ Crash(c)
  BY <1>3, DirCaller, DirClaim, DirSbatch, DirQuiet
<1>4. CASE LateArrives \/ (\E j \in JobIds : JobStarts(j) \/ JobEnds(j))
  BY <1>4, DirCluster
<1> QED BY <1>1, <1>2, <1>3, <1>4 DEF Next

(* Two jobs never share a directory, whatever the number of callers, and also  *)
(* when sbatch commands outlive their ssh clients.                           *)
THEOREM OneDirectory == Spec => []OneJobPerDirectory
<1>1. Init => DirInv
  BY DEF Init, DirInv, OneJobPerDirectory, Exists, Staged, Idle
<1>2. DirInv => OneJobPerDirectory
  BY DEF DirInv
<1> QED BY <1>1, <1>2, DirNext, TypeAlways, PTL DEF Spec

-----------------------------------------------------------------------------
(* The serial client: one submitter, sbatch commands that die with their ssh *)
(* client, a scheduler that answers when ssh does, and an accounting by name *)
(* that leaves no job out.                                                   *)

Serial ==
    /\ \A c, d \in Submitters : c = d
    /\ ~LateSbatch
    /\ ~SlurmOutage
    /\ ~ShortAccounting

Unsubmitted(rid) == \A j \in JobIds : Exists(j) => jobs[j].rid # rid

\* A submitter on its way to sbatch: its request has no job, and a row soon.
Committed(c) ==
    /\ caller[c].pc \in {"gate", "claim", "stage", "sbatch"} => Unsubmitted(Rid(c))
    /\ caller[c].pc \in {"claim", "stage", "sbatch"} => registry[Rid(c)].state # "none"
    /\ At(c, "scanned") /\ caller[c].op = "submit" /\ caller[c].reply = "ok"
           /\ caller[c].seen = {} => Unsubmitted(Rid(c))

\* A monitor only ever polls.
Polling(w) ==
    /\ caller[w].pc \in {"idle", "status", "query", "statusAnswered", "stopped"}
    /\ caller[w].op \in {"none", "watch"}

SerialInv ==
    /\ late = {}
    /\ \A w \in Watchers : Polling(w)
    /\ \A rid \in Rids : registry[rid].state = "none" => Unsubmitted(rid)
    /\ \A c \in Submitters : Committed(c)
    /\ OneJobPerRequest

\* A step after which every job belongs to a request that had one before.
NoNewJob == /\ UNCHANGED late
            /\ \A j \in JobIds : Exists(j)' => Exists(j) /\ jobs'[j].rid = jobs[j].rid

LEMMA UnsubmittedStays ==
    ASSUME NoNewJob, NEW rid, Unsubmitted(rid)
    PROVE  Unsubmitted(rid)'
BY DEF NoNewJob, Unsubmitted

LEMMA OneJobStays == ASSUME OneJobPerRequest, NoNewJob PROVE OneJobPerRequest'
BY DEF OneJobPerRequest, NoNewJob

\* Rows are created, never deleted.
RowsRemain == \A rid \in Rids : registry[rid].state # "none" => registry'[rid].state # "none"

\* A step of coroutine c that creates no job.
LEMMA SerialMove ==
    ASSUME TypeInv, SerialInv, NEW c \in Callers, NoNewJob, RowsRemain, Elsewhere(c),
           c \in Submitters => Committed(c)',
           c \in Watchers => Polling(c)'
    PROVE  SerialInv'
<1>1. ASSUME NEW d \in Callers, d # c
      PROVE  caller'[d] = caller[d] /\ (~At(d, "idle") => Rid(d) \in Rids)
  BY <1>1 DEF Elsewhere, TypeInv, CallerInv
<1>2. \A d \in Submitters : Committed(d)'
  <2>1. ASSUME NEW d \in Submitters, d # c
        PROVE  Committed(d)'
    <3>1. /\ d \in Callers /\ caller'[d] = caller[d] /\ Committed(d)
          /\ ~At(d, "idle") => Rid(d) \in Rids
      BY <1>1, <2>1 DEF SerialInv, Callers
    <3>2. Unsubmitted(Rid(d)) => Unsubmitted(caller[d].rid)'
      BY <3>1, UnsubmittedStays DEF Rid
    <3> QED BY <3>1, <3>2 DEF Committed, RowsRemain, At, Rid
  <2> QED BY <2>1
<1>3. \A w \in Watchers : Polling(w)'
  <2>1. ASSUME NEW w \in Watchers, w # c
        PROVE  Polling(w)'
    BY <1>1, <2>1 DEF SerialInv, Callers, Polling
  <2> QED BY <2>1
<1>4. (\A rid \in Rids : registry[rid].state = "none" => Unsubmitted(rid))'
  BY UnsubmittedStays DEF SerialInv, RowsRemain
<1>5. late' = {} /\ OneJobPerRequest'
  BY OneJobStays DEF SerialInv, NoNewJob
<1> QED BY <1>2, <1>3, <1>4, <1>5 DEF SerialInv

LEMMA SerialBegin ==
    ASSUME TypeInv, SerialInv, NEW c \in Callers, NEW rid \in Rids,
           \/ c \in Submitters /\ SubmitterCall(c)
           \/ c \in Watchers /\ Watch(c, rid)
    PROVE  SerialInv'
<1>1. PICK op, pc, r : /\ Begin(c, op, pc, r)
                       /\ pc \in {"gate", "reconcile", "status", "download"}
                       /\ pc = "gate" => r \in Rids /\ registry[r].state = "none"
                       /\ c \in Watchers => pc = "status" /\ op = "watch"
  BY SubmitOnceAssumption
     DEF SubmitterCall, Submit, ForceSubmit, Reconcile, RefreshStatus, Watch, Collect
<1>2. /\ Elsewhere(c)
      /\ caller'[c].pc = pc /\ caller'[c].op = op /\ caller'[c].rid = r
  BY <1>1, WhereBegin DEF TypeInv
<1>3. NoNewJob /\ RowsRemain
  BY <1>1 DEF Begin, NoNewJob, RowsRemain, Exists
<1>4. Committed(c)'
  <2>1. pc = "gate" => Unsubmitted(r)'
    BY <1>1, <1>3, UnsubmittedStays DEF SerialInv
  <2> QED BY <1>1, <1>2, <2>1 DEF Committed, At, Rid, Unsubmitted, Exists
<1>5. c \in Watchers => Polling(c)'
  BY <1>1, <1>2 DEF Polling
<1> QED BY <1>2, <1>3, <1>4, <1>5, SerialMove

LEMMA RowsRemainAlways == TypeInv /\ [Next]_vars => RowsRemain
<1> SUFFICES ASSUME TypeInv, [Next]_vars PROVE RowsRemain
  OBVIOUS
<1>1. CASE UNCHANGED registry
  BY <1>1 DEF RowsRemain
<1>2. ASSUME NEW rid, NEW st, st # "none", Put(rid, st) \/ Update(rid, st)
      PROVE  RowsRemain
  BY <1>2 DEF TypeInv, RowInv, RowRecords, Put, Update, Row, RowsRemain
<1>3. ASSUME NEW rid, NEW st, st # "none", NEW job, UpdateJob(rid, st, job)
      PROVE  RowsRemain
  BY <1>3 DEF TypeInv, RowInv, UpdateJob, Row, RowsRemain
<1>4. ASSUME NEW c \in Callers, CallerStep(c) \/ Crash(c), ~UNCHANGED registry
      PROVE  RowsRemain
  <2>1. \A s \in caller[c].seen : s.state # "none"
    BY DEF TypeInv, CallerInv, Genuine, Sightings, JobStates, LiveJob, FailedStates
  <2>2. CASE ClaimDirectory(c)
    BY <2>2 DEF ClaimDirectory, TypeInv, RowInv, Row, RowsRemain
  <2>3. CASE ApplyStatus(c)
    BY <1>2, <1>4, <2>1, <2>3 DEF ApplyStatus
  <2>4. CASE ApplyScan(c)
    BY <1>2, <1>3, <1>4, <2>1, <2>4 DEF ApplyScan, Unresolved
  <2>5. CASE ApplySbatch(c)
    BY <1>2, <1>3, <1>4, <2>5 DEF ApplySbatch
  <2>6. CASE GateFails(c) \/ GatePasses(c) \/ DirectoryClash(c) \/ StageFails(c) \/ MarkResult(c)
    BY <1>2, <1>4, <2>6
       DEF GateFails, GatePasses, DirectoryClash, StageFails, MarkResult, Unresolved
  <2> QED
    BY <1>4, <2>2, <2>3, <2>4, <2>5, <2>6
       DEF CallerStep, Crash, ReconcileRead, StatusRead, QueryStatus, Scan, StageSucceeds, Sbatch
<1> QED
  BY <1>1, <1>4 DEF Next, SubmitterCall, Submit, ForceSubmit, Reconcile, RefreshStatus, Watch,
                    Collect, Begin, LateArrives, JobStarts, JobEnds, vars

\* What the last scan printed when Slurm has no job of the request.
LEMMA EmptyScan ==
    ASSUME NEW rid, ByName(JobName(rid)) = {}
    PROVE  Unsubmitted(rid)
BY DEF ByName, LiveNamed, Known, Unsubmitted, Exists

\* A coroutine's step that is no sbatch.
LEMMA SerialCaller ==
    ASSUME Serial, TypeInv, SerialInv, NEW c \in Callers, CallerStep(c) \/ Crash(c), ~Sbatch(c),
           [Next]_vars
    PROVE  SerialInv'
<1>1. UNCHANGED <<jobs, late>>
  BY DEF CallerStep, Crash, ReconcileRead, StatusRead, QueryStatus, ApplyStatus, Scan, ApplyScan,
         GateFails, GatePasses, DirectoryClash, StageFails, StageSucceeds, ApplySbatch, MarkResult,
         ClaimDirectory
<1>2. NoNewJob /\ RowsRemain
  BY <1>1, RowsRemainAlways DEF NoNewJob, Exists
<1>3. \A rid : Unsubmitted(rid) => Unsubmitted(rid)'
  BY <1>2, UnsubmittedStays
<1>4. /\ c \in Submitters => Committed(c)
      /\ c \in Watchers => Polling(c)
      /\ c \in Submitters \/ c \in Watchers
  BY DEF SerialInv, Callers
<1>5. ASSUME Elsewhere(c), c \in Submitters => Committed(c)', c \in Watchers => Polling(c)'
      PROVE  SerialInv'
  BY <1>2, <1>5, SerialMove
<1>6. ASSUME Elsewhere(c), caller'[c].pc \notin {"gate", "claim", "stage", "sbatch", "scanned"},
             caller'[c].op = caller[c].op \/ caller'[c].op = "none",
             c \in Watchers =>
                 caller'[c].pc \in {"idle", "status", "query", "statusAnswered", "stopped"}
      PROVE  SerialInv'
  BY <1>4, <1>5, <1>6 DEF Committed, Polling, At
<1>7. CASE Return(c)
  BY <1>6, <1>7, WhereReturn DEF TypeInv
<1>8. CASE \E st : AfterStatus(c, st)
  BY <1>6, <1>8, WhereAfterStatus DEF TypeInv
<1>9. CASE UNCHANGED caller
  <2>1. caller'[c] = caller[c] /\ Elsewhere(c)
    BY <1>9 DEF Elsewhere
  <2>2. c \in Submitters => Committed(c)'
    BY <1>2, <1>3, <1>4, <2>1 DEF Committed, At, Rid, RowsRemain, TypeInv, CallerInv
  <2> QED BY <1>4, <1>5, <2>1, <2>2 DEF Polling
<1>10. CASE ReconcileRead(c) \/ StatusRead(c)
  <2>1. \/ \E pc, job : /\ Become(c, pc, job, caller[c].dir, "none", {})
                        /\ pc \in {"query", "scan"} /\ (c \in Watchers => pc = "query")
        \/ Return(c) \/ UNCHANGED caller
    BY <1>4, <1>10 DEF ReconcileRead, StatusRead, Polling, At
  <2>2. ASSUME NEW pc, NEW job, Become(c, pc, job, caller[c].dir, "none", {}),
               pc \in {"query", "scan"}, c \in Watchers => pc = "query"
        PROVE  SerialInv'
    <3>1. PICK dir : dir = caller[c].dir
      OBVIOUS
    <3>2. Elsewhere(c) /\ caller'[c].pc = pc /\ caller'[c].op = caller[c].op
      BY <2>2, <3>1, WhereBecome DEF TypeInv
    <3> QED BY <1>6, <2>2, <3>2
  <2> QED BY <1>7, <1>9, <2>1, <2>2
<1>11. CASE QueryStatus(c)
  <2>1. PICK seen : Answer(c, "statusAnswered", "ok", seen)
    BY <1>11 DEF QueryStatus
  <2> QED BY <1>6, <2>1, WhereAnswer DEF TypeInv
<1>12. CASE ApplyStatus(c)
  <2>1. CASE Goto(c, "scan") /\ caller[c].op \in {"submit", "reconcile"}
    <3>1. c \notin Watchers
      BY <1>4, <2>1 DEF Polling
    <3> QED BY <1>6, <2>1, <3>1, WhereGoto DEF TypeInv
  <2> QED BY <1>8, <1>12, <2>1 DEF ApplyStatus
<1>13. CASE Scan(c)
  <2>1. c \notin Watchers
    BY <1>4, <1>13 DEF Scan, At, Polling
  <2>2. PICK rid : rid = Rid(c)
    OBVIOUS
  <2>3. PICK r, seen : /\ Answer(c, "scanned", r, seen)
                       /\ r = "ok" /\ seen = {} => Unsubmitted(rid)
    <3> DEFINE found == ByName(JobName(rid))
    <3>1. found = {} => Unsubmitted(rid)
      BY EmptyScan
    <3>2. \/ Answer(c, "scanned", "error", {})
          \/ Answer(c, "scanned", "ok", {Sighting(j, jobs[j].state) : j \in found})
          \/ found # {} /\ Answer(c, "scanned", "ok", {Sighting(j, "UNKNOWN") : j \in found})
      BY <1>13, <2>2 DEF Scan, Serial, Listings
    <3>3. {Sighting(j, jobs[j].state) : j \in found} = {} => found = {}
      OBVIOUS
    <3>4. {Sighting(j, "UNKNOWN") : j \in found} = {} => found = {}
      OBVIOUS
    <3> HIDE DEF found
    <3> QED BY <3>1, <3>2, <3>3, <3>4
  <2>4. /\ Elsewhere(c)
        /\ caller'[c].pc = "scanned" /\ caller'[c].rid = rid
        /\ caller'[c].reply = r /\ caller'[c].seen = seen
    BY <2>2, <2>3, WhereAnswer DEF TypeInv, Rid
  <2>5. Committed(c)'
    BY <1>3, <2>3, <2>4 DEF Committed, At, Rid
  <2> QED BY <1>5, <2>1, <2>4, <2>5
<1>14. CASE ApplyScan(c)
  <2>1. CASE Goto(c, "gate") /\ caller[c].op = "submit" /\ caller[c].reply = "ok"
             /\ caller[c].seen = {}
    <3>1. c \notin Watchers /\ c \in Submitters
      BY <1>4, <2>1 DEF Polling
    <3>2. PICK rid : rid = Rid(c)
      OBVIOUS
    <3>3. At(c, "scanned")
      BY <1>14 DEF ApplyScan
    <3>4. Unsubmitted(rid)'
      BY <1>3, <1>4, <2>1, <3>1, <3>2, <3>3 DEF Committed
    <3>5. Elsewhere(c) /\ caller'[c].pc = "gate" /\ caller'[c].rid = rid
      BY <2>1, <3>2, WhereGoto DEF TypeInv, Rid
    <3>6. Committed(c)'
      BY <3>4, <3>5 DEF Committed, At, Rid
    <3> QED BY <1>5, <3>1, <3>5, <3>6
  <2> QED BY <1>7, <1>14, <2>1 DEF ApplyScan
<1>15. CASE GatePasses(c) \/ ClaimDirectory(c) \/ StageSucceeds(c)
  <2>1. caller[c].pc \in {"gate", "claim", "stage"} /\ c \notin Watchers /\ c \in Submitters
    BY <1>4, <1>15 DEF GatePasses, ClaimDirectory, StageSucceeds, At, Polling
  <2>2. PICK rid \in Rids : rid = Rid(c)
    BY <2>1 DEF TypeInv, CallerInv, At
  <2>3. Unsubmitted(rid)'
    BY <1>3, <1>4, <2>1, <2>2 DEF Committed
  <2>4. registry'[rid].state # "none"
    <3>1. CASE GatePasses(c)
      BY <2>2, <3>1 DEF GatePasses, Put, Row, TypeInv, RowInv
    <3>2. CASE ClaimDirectory(c)
      BY <2>2, <3>2 DEF ClaimDirectory, Row, TypeInv, RowInv
    <3>3. CASE StageSucceeds(c)
      BY <1>2, <1>4, <2>1, <2>2, <3>3 DEF StageSucceeds, Committed, At, RowsRemain
    <3> QED BY <1>15, <3>1, <3>2, <3>3
  <2>5. /\ Elsewhere(c) /\ caller'[c].rid = rid
        /\ caller'[c].pc \in {"claim", "stage", "sbatch"}
    <3>1. CASE \E pc \in {"claim", "sbatch"} : Goto(c, pc)
      BY <2>2, <3>1, WhereGoto DEF TypeInv, Rid
    <3>2. CASE ClaimDirectory(c)
      <4>1. PICK dir : Become(c, "stage", None, dir, "none", {})
        BY <3>2 DEF ClaimDirectory
      <4> QED BY <2>2, <4>1, WhereBecome DEF TypeInv, Rid
    <3> QED BY <1>15, <3>1, <3>2 DEF GatePasses, StageSucceeds
  <2>6. Committed(c)'
    BY <2>3, <2>4, <2>5 DEF Committed, At, Rid
  <2> QED BY <1>5, <2>1, <2>5, <2>6
<1>16. CASE GateFails(c) \/ DirectoryClash(c) \/ StageFails(c) \/ ApplySbatch(c) \/ MarkResult(c)
            \/ Crash(c)
  BY <1>7, <1>16 DEF GateFails, DirectoryClash, StageFails, ApplySbatch, MarkResult, Crash
<1> QED BY <1>10, <1>11, <1>12, <1>13, <1>14, <1>15, <1>16 DEF CallerStep

LEMMA SerialSbatch ==
    ASSUME Serial, TypeInv, SerialInv, NEW c \in Callers, Sbatch(c)
    PROVE  SerialInv'
<1>1. UNCHANGED registry /\ At(c, "sbatch")
  BY DEF Sbatch
<1>2. RowsRemain
  BY <1>1 DEF RowsRemain
<1>3. c \in Submitters /\ c \notin Watchers /\ Committed(c)
  BY <1>1 DEF SerialInv, Callers, Polling, At
<1>4. PICK rid \in Rids, dir \in 0 .. MaxDirs : rid = Rid(c) /\ dir = caller[c].dir
  BY <1>1 DEF TypeInv, CallerInv, CallerRecords, At
<1>5. Unsubmitted(rid) /\ registry[rid].state # "none"
  BY <1>1, <1>3, <1>4 DEF Committed, At
<1>6. Elsewhere(c) /\ caller'[c].pc = "submitted"
  <2>1. PICK r, seen : Answer(c, "submitted", r, seen)
    BY DEF Sbatch
  <2> QED BY <2>1, WhereAnswer DEF TypeInv
<1>7. Committed(c)'
  BY <1>6 DEF Committed, At
<1>8. CASE UNCHANGED <<jobs, late>>
  <2>1. NoNewJob
    BY <1>8 DEF NoNewJob, Exists
  <2> QED BY <1>2, <1>3, <1>6, <1>7, <2>1, SerialMove
<1>9. CASE \E j \in JobIds : Accept(rid, dir, j) /\ UNCHANGED late
  <2>1. PICK j \in JobIds : Accept(rid, dir, j) /\ UNCHANGED late
    BY <1>9
  <2>2. \A k \in JobIds : \/ k = j /\ jobs'[k].rid = rid
                          \/ k # j /\ jobs'[k] = jobs[k]
    BY <2>1 DEF Accept, TypeInv, WorldInv
  <2>3. OneJobPerRequest'
    BY <1>5, <2>2 DEF OneJobPerRequest, SerialInv, Unsubmitted, Exists
  <2>4. (\A r \in Rids : registry[r].state = "none" => Unsubmitted(r))'
    BY <1>1, <1>5, <2>2 DEF SerialInv, Unsubmitted, Exists
  <2>5. \A d \in Submitters : Committed(d)'
    BY <1>3, <1>7 DEF Serial
  <2>6. \A w \in Watchers : Polling(w)'
    BY <1>3, <1>6 DEF SerialInv, Elsewhere, Callers, Polling
  <2> QED BY <2>1, <2>3, <2>4, <2>5, <2>6 DEF SerialInv
<1> QED BY <1>4, <1>8, <1>9 DEF Sbatch, Serial

LEMMA SerialNext == Serial /\ TypeInv /\ SerialInv /\ [Next]_vars => SerialInv'
<1> SUFFICES ASSUME Serial, TypeInv, SerialInv, [Next]_vars PROVE SerialInv'
  OBVIOUS
<1>1. CASE UNCHANGED vars
  BY <1>1 DEF vars, SerialInv, Committed, Polling, OneJobPerRequest, Unsubmitted, Exists, At, Rid
<1>2. CASE \/ \E c \in Submitters : SubmitterCall(c)
           \/ \E w \in Watchers, rid \in Rids : Watch(w, rid)
  <2>1. ASSUME NEW c \in Submitters, SubmitterCall(c)
        PROVE  SerialInv'
    <3>1. PICK rid \in Rids : TRUE
      BY <2>1 DEF SubmitterCall
    <3> QED BY <2>1, <3>1, SerialBegin DEF Callers
  <2>2. ASSUME NEW w \in Watchers, NEW rid \in Rids, Watch(w, rid)
        PROVE  SerialInv'
    BY <2>2, SerialBegin DEF Callers
  <2> QED BY <1>2, <2>1, <2>2
<1>3. CASE \E c \in Callers : CallerStep(c) \/ Crash(c)
  BY <1>3, SerialCaller, SerialSbatch
<1>4. CASE LateArrives \/ (\E j \in JobIds : JobStarts(j) \/ JobEnds(j))
  <2>1. PICK j \in JobIds : JobStarts(j) \/ JobEnds(j)
    BY <1>4 DEF LateArrives, SerialInv
  <2>2. /\ UNCHANGED <<registry, late, caller>>
        /\ Exists(j) /\ \E s : JobBecomes(j, s)
    BY <2>1 DEF JobStarts, JobEnds, Exists, LiveJob
  <2>3. NoNewJob
    BY <2>2 DEF NoNewJob, JobBecomes, TypeInv, WorldInv, Exists
  <2>4. OneJobPerRequest'
    BY <2>3, OneJobStays DEF SerialInv
  <2>5. \A rid : Unsubmitted(rid) => Unsubmitted(rid)'
    BY <2>3, UnsubmittedStays
  <2>6. \A c \in Submitters : Committed(c)'
    <3>1. ASSUME NEW c \in Submitters
          PROVE  Committed(c)'
      <4>1. Committed(c) /\ caller' = caller /\ registry' = registry
        BY <2>2 DEF SerialInv
      <4> QED BY <2>5, <4>1 DEF Committed, At, Rid
    <3> QED BY <3>1
  <2>7. \A w \in Watchers : Polling(w)'
    BY <2>2 DEF SerialInv, Polling
  <2>8. (\A rid \in Rids : registry[rid].state = "none" => Unsubmitted(rid))'
    BY <2>2, <2>5 DEF SerialInv
  <2> QED BY <2>2, <2>4, <2>6, <2>7, <2>8 DEF SerialInv
<1> QED BY <1>1, <1>2, <1>3, <1>4 DEF Next

LEMMA SerialInit == Init => SerialInv
<1>1. ASSUME Init PROVE \A c \in Callers : caller[c].pc = "idle" /\ caller[c].op = "none"
  BY <1>1 DEF Init, Idle
<1>2. ASSUME Init PROVE \A j \in JobIds : ~Exists(j)
  BY <1>2 DEF Init, Exists
<1> QED
  BY <1>1, <1>2
     DEF Init, SerialInv, Committed, Polling, Callers, OneJobPerRequest, Unsubmitted, At

(* The promise of lifecycle.py:6-7 for a client without a rival: one submitter  *)
(* (and any number of monitors), however often it times out, is rejected or   *)
(* crashes, never creates a second job for a request id.                     *)
THEOREM SerialOneJob ==
    ASSUME Serial
    PROVE  Spec => []OneJobPerRequest
<1>1. Init => SerialInv
  BY SerialInit
<1>2. TypeInv /\ SerialInv /\ [Next]_vars => SerialInv'
  BY SerialNext
<1>3. SerialInv => OneJobPerRequest
  BY DEF SerialInv
<1> QED BY <1>1, <1>2, <1>3, TypeAlways, PTL DEF Spec
-----------------------------------------------------------------------------
(* What the serial client knows, at each of its control points.              *)

\* A submission writes only to a row that names no job yet.
Submitting(c) ==
    /\ caller[c].op = "submit" =>
          /\ caller[c].pc \in {"reconcile", "scan", "scanned", "gate", "claim", "stage",
                               "sbatch", "submitted"}
          /\ registry[Rid(c)].job = None /\ registry[Rid(c)].state # Unresolved
    /\ caller[c].pc \in {"gate", "claim", "stage", "sbatch", "submitted"} =>
          caller[c].op = "submit"

\* Only the row of a job that ran is downloaded.
Downloading(c) ==
    At(c, "download") => /\ caller[c].op = "collect"
                         /\ registry[Rid(c)].job # None
                         /\ registry[Rid(c)].state # Unresolved

\* A status query is about the job the row names, still when the answer comes.
Following(c) ==
    /\ caller[c].pc \in {"query", "statusAnswered"} =>
          caller[c].job # None /\ registry[Rid(c)].job = caller[c].job
    /\ At(c, "statusAnswered") => \A s \in caller[c].seen : s.job = caller[c].job

\* A failure that was seen is one: a job that failed stays as it is.
Truthful(c) ==
    caller[c].pc \in {"statusAnswered", "scanned"} => \A s \in caller[c].seen :
        /\ s.state \in JobStates \cup {"UNKNOWN"}
        /\ s.state \in FailedStates => jobs[s.job].state \in FailedStates

\* The reply of sbatch names the job that was created for the request.
Answered(c) == At(c, "submitted") => \A s \in caller[c].seen : jobs[s.job].rid = Rid(c)

\* The directory of a coroutine is the one its row names.
Placed(c) ==
    caller[c].pc \in {"stage", "sbatch"} =>
        registry[Rid(c)].dir = caller[c].dir /\ caller[c].dir # None

Local(c) == /\ Submitting(c) /\ Downloading(c) /\ Following(c)
            /\ Truthful(c) /\ Answered(c) /\ Placed(c)

NoJobYet == \A rid \in Rids :
    registry[rid].state \in Ambiguous \cup {"none"} => registry[rid].job = None

\* A request with a job has a row that names the directory of the job.
JobsPlaced ==
    \A j \in JobIds :
        /\ Exists(j) => /\ jobs[j].rid \in Rids /\ jobs[j].dir # None
                        /\ registry[jobs[j].rid].dir = jobs[j].dir
        /\ ~Exists(j) => jobs[j].rid = <<>>

ServedInv ==
    /\ \A c \in Callers : Local(c)
    /\ NoJobYet /\ JobsPlaced /\ FailureIsConfirmed

-----------------------------------------------------------------------------
(* The steps.                                                               *)

\* A step that writes at most the row rid, and what it may write there.
Sound(rid) ==
    /\ UNCHANGED jobs
    /\ \A r \in Rids : r # rid => registry'[r] = registry[r]
    /\ registry[rid].job # None => registry'[rid].job = registry[rid].job
    /\ registry'[rid].dir = registry[rid].dir \/ Unsubmitted(rid)
    /\ registry'[rid].state \in Ambiguous \cup {"none"} => registry'[rid].job = None
    /\ registry'[rid].state \in FailedStates /\ registry'[rid].job # None
           => jobs[registry'[rid].job].state \in FailedStates
    /\ registry[rid].state = Unresolved => registry'[rid].state \in {Unresolved} \cup JobStates

\* A step that leaves the rows without a job alone, and of the others the job and the
\* directory.
Mild ==
    \A r \in Rids :
        \/ registry'[r] = registry[r]
        \/ /\ registry[r].job # None
           /\ registry'[r].job = registry[r].job /\ registry'[r].dir = registry[r].dir
           /\ registry'[r].state # Unresolved

\* Jobs are created and end, they do not change otherwise.
JobsGrow ==
    \A j \in JobIds : Exists(j) =>
        /\ Exists(j)' /\ jobs'[j].rid = jobs[j].rid /\ jobs'[j].dir = jobs[j].dir
        /\ jobs[j].state \in FailedStates => jobs'[j].state = jobs[j].state

\* A monitor's poll and a step of the cluster leave what a coroutine knows.
LEMMA LocalStays ==
    ASSUME TypeInv, JobsGrow, Mild, NEW c \in Callers, caller'[c] = caller[c], Local(c),
           ~At(c, "idle")
    PROVE  Local(c)'
<1>1. PICK rid \in Rids : rid = Rid(c)
  BY DEF TypeInv, CallerInv
<1>2. caller'[c] = caller[c] /\ Rid(c)' = rid
  BY <1>1 DEF Rid
<1>3. \A s \in caller[c].seen : s.job \in JobIds /\ Exists(s.job)
  BY DEF TypeInv, CallerInv, Genuine, Sightings
<1>4. Submitting(c)' /\ Downloading(c)' /\ Placed(c)'
  BY <1>1, <1>2 DEF Local, Submitting, Downloading, Placed, Mild, At
<1>5. Following(c)'
  BY <1>1, <1>2 DEF Local, Following, Mild, At
<1>6. Truthful(c)' /\ Answered(c)'
  BY <1>1, <1>2, <1>3 DEF Local, Truthful, Answered, JobsGrow, At
<1> QED BY <1>4, <1>5, <1>6 DEF Local

\* A monitor does not mind what the submitter writes.
LEMMA WatcherStays ==
    ASSUME TypeInv, JobsGrow, NEW w \in Callers, caller'[w] = caller[w], Local(w), Polling(w),
           \A r \in Rids : registry[r].job # None => registry'[r].job = registry[r].job
    PROVE  Local(w)'
<1>1. At(w, "idle") \/ Rid(w) \in Rids
  BY DEF TypeInv, CallerInv
<1>2. caller'[w] = caller[w] /\ Rid(w)' = Rid(w)
  BY DEF Rid
<1>3. \A s \in caller[w].seen : s.job \in JobIds /\ Exists(s.job)
  BY DEF TypeInv, CallerInv, Genuine, Sightings
<1>4. Submitting(w)' /\ Downloading(w)' /\ Placed(w)' /\ Answered(w)'
  BY <1>2 DEF Polling, Submitting, Downloading, Placed, Answered, At
<1>5. Following(w)'
  BY <1>1, <1>2 DEF Local, Following, At
<1>6. Truthful(w)'
  BY <1>2, <1>3 DEF Local, Truthful, JobsGrow
<1> QED BY <1>4, <1>5, <1>6 DEF Local

\* The writes of the registry, each where a call may use it.
LEMMA SoundUpdate ==
    ASSUME TypeInv, ServedInv, NEW rid \in Rids, NEW st, Update(rid, st), UNCHANGED jobs,
           st # "none", st \in Ambiguous => registry[rid].job = None,
           st \in FailedStates /\ registry[rid].job # None
               => jobs[registry[rid].job].state \in FailedStates,
           registry[rid].state = Unresolved => st \in {Unresolved} \cup JobStates
    PROVE  Sound(rid)
<1>1. \A r \in Rids : r # rid => registry'[r] = registry[r]
  BY DEF Update, TypeInv, RowInv
<1>2. CASE registry[rid].state = "none"
  BY <1>2 DEF Update, Sound, ServedInv, NoJobYet, FailedStates, Unresolved
<1>3. CASE registry[rid].state # "none"
  <2>1. /\ registry'[rid].state = st /\ registry'[rid].job = registry[rid].job
        /\ registry'[rid].dir = registry[rid].dir
    BY <1>3 DEF Update, TypeInv, RowInv, RowRecords
  <2> QED BY <1>1, <2>1 DEF Sound
<1> QED BY <1>2, <1>3

LEMMA SoundUpdateJob ==
    ASSUME TypeInv, ServedInv, NEW rid \in Rids, NEW st, NEW job, UpdateJob(rid, st, job),
           UNCHANGED jobs, st \notin Ambiguous \cup {"none"},
           st \in FailedStates => jobs[job].state \in FailedStates,
           registry[rid].state = Unresolved => st \in {Unresolved} \cup JobStates
    PROVE  Sound(rid)
<1>1. \A r \in Rids : r # rid => registry'[r] = registry[r]
  BY DEF UpdateJob, TypeInv, RowInv
<1>2. CASE JobConflict(rid, job) \/ registry[rid].state = "none"
  BY <1>2 DEF UpdateJob, Sound, ServedInv, NoJobYet, FailureIsConfirmed
<1>3. CASE ~(JobConflict(rid, job) \/ registry[rid].state = "none")
  <2>1. /\ registry'[rid].state = st /\ registry'[rid].job = job
        /\ registry'[rid].dir = registry[rid].dir
    BY <1>3 DEF UpdateJob, TypeInv, RowInv, Row
  <2>2. registry[rid].job # None => job = registry[rid].job
    BY <1>3 DEF JobConflict
  <2> QED BY <1>1, <2>1, <2>2 DEF Sound
<1> QED BY <1>2, <1>3

LEMMA SoundNothing ==
    ASSUME TypeInv, ServedInv, NEW rid \in Rids, UNCHANGED <<registry, jobs>>
    PROVE  Sound(rid)
BY DEF Sound, ServedInv, NoJobYet, FailureIsConfirmed

LEMMA SoundPut ==
    ASSUME TypeInv, NEW rid \in Rids, NEW st, Put(rid, st), UNCHANGED jobs,
           registry[rid].job = None, registry[rid].state # Unresolved, Unsubmitted(rid)
    PROVE  Sound(rid)
BY DEF TypeInv, RowInv, Put, Row, Sound

\* What a call knows at the point where it writes.
LEMMA KnownSubmitter ==
    ASSUME TypeInv, SerialInv, ServedInv, NEW c \in Callers, NEW rid, rid = Rid(c),
           caller[c].pc \in {"gate", "claim", "stage", "sbatch", "submitted"}
    PROVE  /\ c \in Submitters /\ rid \in Rids
           /\ registry[rid].job = None /\ registry[rid].state # Unresolved
           /\ caller[c].op = "submit"
           /\ ~At(c, "submitted") => Unsubmitted(rid)
BY DEF TypeInv, CallerInv, At, SerialInv, Callers, Polling, Committed, ServedInv, Local, Submitting

LEMMA SoundStatus ==
    ASSUME TypeInv, ServedInv, NEW c \in Callers, NEW rid \in Rids, rid = Rid(c), ApplyStatus(c)
    PROVE  Sound(rid)
<1>1. UNCHANGED jobs /\ At(c, "statusAnswered")
  BY DEF ApplyStatus
<1>2. PICK s \in caller[c].seen : \/ UNCHANGED registry
                                  \/ s.state # "UNKNOWN" /\ Update(rid, s.state)
  BY Zenon DEF ApplyStatus
<1>3. /\ s.job = registry[rid].job /\ s.state \in JobStates \cup {"UNKNOWN"}
      /\ s.state \in FailedStates => jobs[s.job].state \in FailedStates
  BY <1>1 DEF ServedInv, Local, Following, Truthful, At
<1>4. \A st \in JobStates : st \notin Ambiguous \cup {"none"}
  BY DEF JobStates, LiveJob, FailedStates, Ambiguous
<1>5. CASE UNCHANGED registry
  BY <1>1, <1>5, SoundNothing
<1>6. CASE s.state # "UNKNOWN" /\ Update(rid, s.state)
  <2>1. PICK st \in JobStates : st = s.state
    BY <1>3, <1>6
  <2> QED BY <1>1, <1>3, <1>4, <1>6, <2>1, SoundUpdate
<1> QED BY <1>2, <1>5, <1>6

LEMMA SoundScan ==
    ASSUME TypeInv, ServedInv, NEW c \in Callers, NEW rid \in Rids, rid = Rid(c), ApplyScan(c)
    PROVE  Sound(rid)
<1>1. UNCHANGED jobs /\ At(c, "scanned")
  BY DEF ApplyScan
<1>2. \A s \in caller[c].seen : /\ s.state \in JobStates \cup {"UNKNOWN"}
                                /\ s.state \in FailedStates => jobs[s.job].state \in FailedStates
  BY <1>1 DEF ServedInv, Local, Truthful, At
<1>3. /\ \A st \in JobStates : st \notin Ambiguous \cup {"none"}
      /\ Unresolved \notin Ambiguous \cup {"none"} \cup FailedStates
  BY DEF JobStates, LiveJob, FailedStates, Ambiguous, Unresolved
<1>4. CASE UNCHANGED registry
  BY <1>1, <1>4, SoundNothing
<1>5. CASE Update(rid, Unresolved)
  BY <1>1, <1>3, <1>5, SoundUpdate
<1>6. ASSUME NEW s \in caller[c].seen,
             UpdateJob(rid, IF s.state = "UNKNOWN" THEN Unresolved ELSE s.state, s.job)
      PROVE  Sound(rid)
  <2>1. PICK st \in JobStates \cup {Unresolved} :
            /\ st = IF s.state = "UNKNOWN" THEN Unresolved ELSE s.state
            /\ st \in FailedStates => jobs[s.job].state \in FailedStates
    BY <1>2, <1>3
  <2> QED BY <1>1, <1>3, <1>6, <2>1, SoundUpdateJob
<1> QED BY <1>4, <1>5, <1>6 DEF ApplyScan

\* Every step of a coroutine but sbatch writes soundly.
LEMMA CallerWrites ==
    ASSUME TypeInv, SerialInv, ServedInv, NEW c \in Callers, CallerStep(c) \/ Crash(c), ~Sbatch(c),
           NEW rid \in Rids, rid = Rid(c)
    PROVE  Sound(rid)
<1>1. UNCHANGED jobs
  BY DEF CallerStep, Crash, ReconcileRead, StatusRead, QueryStatus, ApplyStatus, Scan, ApplyScan,
         GateFails, GatePasses, DirectoryClash, StageFails, StageSucceeds, ApplySbatch, MarkResult,
         ClaimDirectory
<1>2. CASE UNCHANGED registry
  BY <1>1, <1>2, SoundNothing
<1>3. CASE GateFails(c) \/ GatePasses(c)
  <2>1. /\ At(c, "gate") /\ \E st : Put(rid, st)
    BY <1>3 DEF GateFails, GatePasses
  <2> QED BY <1>1, <2>1, KnownSubmitter, SoundPut DEF At
<1>4. CASE ClaimDirectory(c)
  <2>1. registry[rid].job = None /\ registry[rid].state # Unresolved /\ Unsubmitted(rid)
    BY <1>4, KnownSubmitter DEF ClaimDirectory, At
  <2> QED BY <1>1, <1>4, <2>1 DEF ClaimDirectory, TypeInv, RowInv, Row, Sound, FailedStates
<1>5. CASE DirectoryClash(c)
  BY <1>1, <1>5, SoundUpdate DEF DirectoryClash, Ambiguous, FailedStates, Unresolved
<1>6. CASE StageFails(c)
  BY <1>1, <1>6, KnownSubmitter, SoundUpdate DEF StageFails, At
<1>7. CASE ApplySbatch(c)
  <2>1. At(c, "submitted") /\ registry[rid].job = None /\ registry[rid].state # Unresolved
    BY <1>7, KnownSubmitter DEF ApplySbatch, At
  <2>2. CASE \E st \in {"SUBMITTING", "FAILED"} : Update(rid, st)
    BY <1>1, <2>1, <2>2, SoundUpdate
  <2>3. CASE \E job : UpdateJob(rid, "SUBMITTED", job)
    BY <1>1, <2>1, <2>3, SoundUpdateJob DEF Ambiguous, FailedStates
  <2> QED BY <1>7, <2>2, <2>3 DEF ApplySbatch
<1>8. CASE MarkResult(c)
  <2>1. At(c, "download") /\ registry[rid].state # Unresolved
    BY <1>8 DEF MarkResult, ServedInv, Local, Downloading
  <2>2. CASE \E st \in {"VALIDATED", "COLLECTED"} : Update(rid, st)
    BY <1>1, <2>1, <2>2, SoundUpdate DEF Ambiguous, FailedStates
  <2> QED BY <1>2, <1>8, <2>2 DEF MarkResult
<1>9. CASE ApplyStatus(c) \/ ApplyScan(c)
  BY <1>9, SoundStatus, SoundScan
<1> QED
  BY <1>2, <1>3, <1>4, <1>5, <1>6, <1>7, <1>8, <1>9
     DEF CallerStep, Crash, ReconcileRead, StatusRead, QueryStatus, Scan, StageSucceeds

-----------------------------------------------------------------------------
(* The invariant.                                                           *)

LEMMA SoundWorld ==
    ASSUME ServedInv, NEW rid \in Rids, Sound(rid)
    PROVE  NoJobYet' /\ JobsPlaced' /\ FailureIsConfirmed'
<1>1. NoJobYet'
  BY DEF ServedInv, NoJobYet, Sound
<1>2. JobsPlaced'
  BY DEF ServedInv, JobsPlaced, Sound, Unsubmitted, Exists
<1>3. FailureIsConfirmed'
  BY DEF ServedInv, FailureIsConfirmed, Sound
<1> QED BY <1>1, <1>2, <1>3

\* Nothing is known of a coroutine that has returned or polls.
LEMMA LocalNothing ==
    ASSUME NEW c, caller'[c].pc \in {"idle", "status", "stopped"}, caller'[c].op # "submit"
    PROVE  Local(c)'
BY DEF Local, Submitting, Downloading, Following, Truthful, Answered, Placed, At

LEMMA LocalReturn == ASSUME TypeInv, NEW c \in Callers, Return(c) PROVE Local(c)'
BY WhereReturn, LocalNothing DEF TypeInv

LEMMA LocalAfterStatus ==
    ASSUME TypeInv, NEW c \in Callers, NEW st, AfterStatus(c, st)
    PROVE  Local(c)'
BY WhereAfterStatus, LocalNothing DEF TypeInv

\* A monitor at work leaves the rows without a job alone.
LEMMA WatcherMild ==
    ASSUME TypeInv, ServedInv, NEW w \in Callers, Polling(w), CallerStep(w) \/ Crash(w)
    PROVE  Mild
<1>1. CASE UNCHANGED registry
  BY <1>1 DEF Mild
<1>2. CASE ApplyStatus(w)
  <2>1. PICK rid \in Rids : rid = Rid(w)
    BY <1>2 DEF ApplyStatus, TypeInv, CallerInv, At
  <2>2. /\ registry[rid].job # None
        /\ \A s \in caller[w].seen : s.state \in JobStates \cup {"UNKNOWN"}
    BY <1>2, <2>1 DEF ApplyStatus, ServedInv, Local, Following, Truthful, At
  <2>3. PICK s \in caller[w].seen : \/ UNCHANGED registry
                                    \/ s.state # "UNKNOWN" /\ Update(rid, s.state)
    BY <1>2, <2>1, Zenon DEF ApplyStatus
  <2>4. CASE s.state # "UNKNOWN" /\ Update(rid, s.state)
    <3>1. PICK st \in JobStates : st = s.state /\ st # Unresolved
      BY <2>2, <2>4 DEF JobStates, LiveJob, FailedStates, Unresolved
    <3> QED BY <2>2, <2>4, <3>1 DEF Update, TypeInv, RowInv, RowRecords, Mild
  <2> QED BY <1>1, <2>3, <2>4
<1> QED
  BY <1>1, <1>2
     DEF Polling, CallerStep, Crash, At, ReconcileRead, StatusRead, QueryStatus, Scan, ApplyScan,
         GateFails, GatePasses, ClaimDirectory, DirectoryClash, StageFails, StageSucceeds, Sbatch,
         ApplySbatch, MarkResult

\* The other coroutines, when c takes a step that is mild if it is a monitor's.
LEMMA LocalOthers ==
    ASSUME Serial, TypeInv, SerialInv, ServedInv, NEW c \in Callers, Elsewhere(c), JobsGrow,
           \A r \in Rids : registry[r].job # None => registry'[r].job = registry[r].job,
           c \in Watchers => Mild
    PROVE  \A d \in Callers : d # c => Local(d)'
<1> SUFFICES ASSUME NEW d \in Callers, d # c PROVE Local(d)'
  OBVIOUS
<1>1. caller'[d] = caller[d] /\ Local(d)
  BY DEF Elsewhere, ServedInv
<1>2. CASE d \in Watchers
  BY <1>1, <1>2, WatcherStays DEF SerialInv
<1>3. CASE d \in Submitters /\ At(d, "idle")
  BY <1>1, <1>3, LocalNothing DEF Local, Submitting, At
<1>4. CASE d \in Submitters /\ ~At(d, "idle")
  <2>1. c \in Watchers
    BY <1>4 DEF Serial, Callers
  <2> QED BY <1>1, <1>4, <2>1, LocalStays
<1> QED BY <1>2, <1>3, <1>4 DEF Callers

LEMMA ServedBegin ==
    ASSUME Serial, TypeInv, SerialInv, ServedInv, NEW c \in Callers, NEW rid \in Rids,
           \/ c \in Submitters /\ SubmitterCall(c)
           \/ c \in Watchers /\ Watch(c, rid)
    PROVE  ServedInv'
<1>1. PICK op, pc : \E r \in Rids :
        /\ Begin(c, op, pc, r)
        /\ \/ op = "submit" /\ pc \in {"gate", "reconcile"}
              /\ \/ registry[r].state \in {"none"} \cup Ambiguous
                 \/ registry[r].state = "FAILED" /\ registry[r].job = None
           \/ op # "submit" /\ pc \in {"reconcile", "status"}
           \/ op = "collect" /\ pc = "download" /\ registry[r].state \in Succeeded
              /\ registry[r].job # None
  BY DEF SubmitterCall, Submit, ForceSubmit, Reconcile, RefreshStatus, Watch, Collect
<1>2. PICK r \in Rids :
        /\ Begin(c, op, pc, r)
        /\ \/ op = "submit" /\ pc \in {"gate", "reconcile"}
              /\ \/ registry[r].state \in {"none"} \cup Ambiguous
                 \/ registry[r].state = "FAILED" /\ registry[r].job = None
           \/ op # "submit" /\ pc \in {"reconcile", "status"}
           \/ op = "collect" /\ pc = "download" /\ registry[r].state \in Succeeded
              /\ registry[r].job # None
  BY <1>1
<1>3. /\ Elsewhere(c)
      /\ caller'[c].pc = pc /\ caller'[c].op = op /\ caller'[c].rid = r
  BY <1>2, WhereBegin DEF TypeInv
<1>4. UNCHANGED <<registry, jobs>>
  BY <1>2 DEF Begin
<1>5. Local(c)'
  <2>1. op = "submit" => registry[r].job = None /\ registry[r].state # Unresolved
    BY <1>2 DEF ServedInv, NoJobYet, Ambiguous, Unresolved
  <2>2. pc = "download" => registry[r].job # None /\ registry[r].state # Unresolved
                           /\ op = "collect"
    BY <1>2 DEF Succeeded, Unresolved
  <2>3. pc \in {"gate", "reconcile", "status", "download"} /\ (pc = "gate" => op = "submit")
        /\ (op = "submit" => pc \in {"gate", "reconcile"})
    BY <1>2
  <2> QED BY <1>3, <1>4, <2>1, <2>2, <2>3
          DEF Local, Submitting, Downloading, Following, Truthful, Answered, Placed, At, Rid
<1>6. JobsGrow /\ Mild
  BY <1>4 DEF JobsGrow, Mild, Exists
<1>7. \A d \in Callers : d # c => Local(d)'
  BY <1>3, <1>4, <1>6, LocalOthers
<1>8. Sound(r)
  BY <1>4, SoundNothing
<1> QED BY <1>5, <1>7, <1>8, SoundWorld DEF ServedInv

\* Where a coroutine's own step leads it, and what it knows there.
LEMMA LocalRead ==
    ASSUME TypeInv, ServedInv, NEW c \in Callers,
           ReconcileRead(c) \/ StatusRead(c) \/ QueryStatus(c) \/ Scan(c)
    PROVE  Local(c)'
<1>1. UNCHANGED <<registry, jobs>> /\ ~At(c, "idle")
  BY DEF ReconcileRead, StatusRead, QueryStatus, Scan, At
<1>2. PICK rid \in Rids : rid = Rid(c)
  BY <1>1 DEF TypeInv, CallerInv
<1>3. Local(c)
  BY DEF ServedInv
<1>4. ASSUME NEW pc, NEW job, NEW dir, Become(c, pc, job, dir, "none", {}),
             job = registry[rid].job,
             pc = "scan" \/ (pc = "query" /\ job # None /\ caller[c].op # "submit"),
             caller[c].pc \in {"reconcile", "status"}
      PROVE  Local(c)'
  <2>1. /\ caller'[c].pc = pc /\ caller'[c].op = caller[c].op /\ Rid(c)' = rid
        /\ caller'[c].job = job /\ caller'[c].seen = {}
    BY <1>2, <1>4 DEF Become, TypeInv, CallerInv, Rid
  <2> QED BY <1>1, <1>2, <1>3, <1>4, <2>1
          DEF Local, Submitting, Downloading, Following, Truthful, Answered, Placed, At
<1>5. CASE ReconcileRead(c)
  <2>1. registry[rid].job # None => caller[c].op # "submit"
    BY <1>2, <1>3 DEF Local, Submitting
  <2>2. PICK pc, job, dir : /\ Become(c, pc, job, dir, "none", {})
                            /\ job = registry[rid].job
                            /\ pc = IF registry[rid].job # None THEN "query" ELSE "scan"
    BY <1>2, <1>5 DEF ReconcileRead
  <2> QED BY <1>4, <1>5, <2>1, <2>2 DEF ReconcileRead, At
<1>6. CASE StatusRead(c)
  <2>1. caller[c].op # "submit"
    BY <1>3, <1>6 DEF StatusRead, At, Local, Submitting
  <2>2. CASE UNCHANGED caller
    BY <1>6, <2>1, <2>2, LocalNothing DEF StatusRead, At
  <2>3. CASE Return(c)
    BY <2>3, LocalReturn
  <2>4. CASE registry[rid].job # None
    <3>1. PICK dir : Become(c, "query", registry[rid].job, dir, "none", {})
      BY <1>2, <1>6, <2>4 DEF StatusRead
    <3> QED BY <1>4, <1>6, <2>1, <2>4, <3>1 DEF StatusRead, At
  <2> QED BY <1>2, <1>6, <2>2, <2>3, <2>4 DEF StatusRead
<1>7. CASE QueryStatus(c)
  <2>1. PICK st \in {jobs[caller[c].job].state, "UNKNOWN"} :
            Answer(c, "statusAnswered", "ok", {Sighting(caller[c].job, st)})
    BY <1>7 DEF QueryStatus
  <2>2. /\ caller'[c].pc = "statusAnswered" /\ caller'[c].op = caller[c].op /\ Rid(c)' = rid
        /\ caller'[c].job = caller[c].job
        /\ caller'[c].seen = {Sighting(caller[c].job, st)}
    BY <1>2, <2>1 DEF Answer, Become, TypeInv, CallerInv, Rid
  <2>3. /\ caller[c].job # None /\ registry[rid].job = caller[c].job
        /\ caller[c].op # "submit"
    BY <1>2, <1>3, <1>7 DEF QueryStatus, At, Local, Following, Submitting
  <2>4. jobs[caller[c].job].state \in JobStates
    BY <2>3 DEF TypeInv, CallerInv, CallerRecords, WorldInv, JobRecords, JobIds, None
  <2>5. \A s \in caller'[c].seen : s.job = caller[c].job /\ s.state = st
    BY <2>2 DEF Sighting
  <2>6. Truthful(c)'
    BY <1>1, <2>1, <2>4, <2>5 DEF Truthful, FailedStates
  <2> QED BY <1>1, <2>2, <2>3, <2>5, <2>6
          DEF Local, Submitting, Downloading, Following, Answered, Placed, At
<1>8. CASE Scan(c)
  <2>1. PICK r, seen :
          /\ Answer(c, "scanned", r, seen)
          /\ \A s \in seen : \E j \in JobIds : /\ s.job = j
                                               /\ s.state \in {jobs[j].state, "UNKNOWN"}
    BY <1>8 DEF Scan, Listings, ByName, LiveNamed, Known, Sighting
  <2>2. /\ caller'[c].pc = "scanned" /\ caller'[c].op = caller[c].op /\ Rid(c)' = rid
        /\ caller'[c].seen = seen
    BY <1>2, <2>1, WhereAnswer DEF TypeInv, Rid
  <2>3. \A j \in JobIds : jobs[j].state \in JobStates
    BY DEF TypeInv, WorldInv, JobRecords
  <2>4. Truthful(c)'
    BY <1>1, <2>1, <2>2, <2>3 DEF Truthful, FailedStates
  <2>5. Submitting(c)'
    BY <1>1, <1>2, <1>3, <1>8, <2>2 DEF Scan, At, Local, Submitting
  <2> QED BY <2>2, <2>4, <2>5 DEF Local, Downloading, Following, Answered, Placed, At
<1> QED BY <1>5, <1>6, <1>7, <1>8

LEMMA LocalWrite ==
    ASSUME TypeInv, SerialInv, ServedInv, NEW c \in Callers, ~Sbatch(c),
           ~(ReconcileRead(c) \/ StatusRead(c) \/ QueryStatus(c) \/ Scan(c)),
           CallerStep(c) \/ Crash(c)
    PROVE  Local(c)'
<1>1. UNCHANGED jobs /\ ~At(c, "idle")
  BY DEF CallerStep, Crash, ApplyStatus, ApplyScan, GateFails, GatePasses, DirectoryClash,
         StageFails, StageSucceeds, ApplySbatch, MarkResult, ClaimDirectory, At
<1>2. PICK rid \in Rids : rid = Rid(c)
  BY <1>1 DEF TypeInv, CallerInv
<1>3. Local(c)
  BY DEF ServedInv
<1>4. CASE Return(c) \/ (\E st : AfterStatus(c, st))
  BY <1>4, LocalReturn, LocalAfterStatus
<1>5. CASE ApplyStatus(c)
  <2>1. CASE Goto(c, "scan")
    <3>1. caller[c].op # "submit"
      BY <1>3, <1>5 DEF ApplyStatus, At, Local, Submitting
    <3>2. caller'[c].pc = "scan" /\ caller'[c].op # "submit"
      BY <2>1, <3>1, WhereGoto DEF TypeInv
    <3> QED BY <3>2
            DEF Local, Submitting, Downloading, Following, Truthful, Answered, Placed, At
  <2> QED BY <1>4, <1>5, <2>1 DEF ApplyStatus
<1>6. CASE ApplyScan(c)
  <2>1. CASE Goto(c, "gate") /\ caller[c].op = "submit" /\ UNCHANGED registry
    <3>1. caller'[c].pc = "gate" /\ caller'[c].op = "submit" /\ Rid(c)' = rid
      BY <1>2, <2>1, WhereGoto DEF TypeInv, Rid
    <3> QED BY <1>2, <1>3, <2>1, <3>1
            DEF Local, Submitting, Downloading, Following, Truthful, Answered, Placed, At
  <2> QED BY <1>4, <1>6, <2>1 DEF ApplyScan
<1>7. CASE GatePasses(c) \/ ClaimDirectory(c) \/ StageSucceeds(c)
  <2>1. /\ registry[rid].job = None /\ registry[rid].state # Unresolved
        /\ caller[c].op = "submit"
    BY <1>2, <1>7, KnownSubmitter DEF GatePasses, ClaimDirectory, StageSucceeds, At
  <2>2. CASE GatePasses(c)
    <3>1. caller'[c].pc = "claim" /\ caller'[c].op = "submit" /\ Rid(c)' = rid
      BY <1>2, <2>1, <2>2, WhereGoto DEF GatePasses, TypeInv, Rid
    <3>2. registry'[rid].job = None /\ registry'[rid].state # Unresolved
      BY <1>2, <2>2 DEF GatePasses, Put, Row, TypeInv, RowInv, Unresolved
    <3> QED BY <3>1, <3>2
            DEF Local, Submitting, Downloading, Following, Truthful, Answered, Placed, At
  <2>3. CASE ClaimDirectory(c)
    <3>1. PICK dir : /\ dir = claimed + 1 /\ Become(c, "stage", None, dir, "none", {})
                     /\ registry' = [registry EXCEPT ![rid] =
                                        Row("SUBMITTING", registry[rid].job, dir)]
      BY <1>2, <2>3 DEF ClaimDirectory
    <3>2. dir # None
      BY <3>1, SubmitOnceAssumption DEF TypeInv, WorldInv, None
    <3>3. /\ caller'[c].pc = "stage" /\ caller'[c].op = "submit" /\ Rid(c)' = rid
          /\ caller'[c].dir = dir
      BY <1>2, <2>1, <3>1, WhereBecome DEF TypeInv, Rid
    <3>4. /\ registry'[rid].job = None /\ registry'[rid].state # Unresolved
          /\ registry'[rid].dir = dir
      BY <2>1, <3>1 DEF Row, TypeInv, RowInv, Unresolved
    <3> QED BY <3>2, <3>3, <3>4
            DEF Local, Submitting, Downloading, Following, Truthful, Answered, Placed, At
  <2>4. CASE StageSucceeds(c)
    <3>1. /\ caller'[c].pc = "sbatch" /\ caller'[c].op = "submit" /\ Rid(c)' = rid
          /\ caller'[c].dir = caller[c].dir
      BY <1>2, <2>1, <2>4, WhereGoto DEF StageSucceeds, TypeInv, Rid
    <3>2. /\ UNCHANGED registry
          /\ registry[rid].dir = caller[c].dir /\ caller[c].dir # None
      BY <1>2, <1>3, <2>4 DEF StageSucceeds, At, Local, Placed
    <3> QED BY <2>1, <3>1, <3>2
            DEF Local, Submitting, Downloading, Following, Truthful, Answered, Placed, At
  <2> QED BY <1>7, <2>2, <2>3, <2>4
<1>8. CASE GateFails(c) \/ DirectoryClash(c) \/ StageFails(c) \/ ApplySbatch(c) \/ MarkResult(c)
           \/ Crash(c)
  BY <1>4, <1>8 DEF GateFails, DirectoryClash, StageFails, ApplySbatch, MarkResult, Crash
<1> QED BY <1>5, <1>6, <1>7, <1>8 DEF CallerStep

LEMMA WhereCaller ==
    ASSUME TypeInv, NEW c \in Callers, CallerStep(c) \/ Crash(c)
    PROVE  Elsewhere(c)
<1>1. \/ UNCHANGED caller \/ Return(c) \/ (\E st : AfterStatus(c, st))
      \/ (\E pc : Goto(c, pc)) \/ (\E pc, r, seen : Answer(c, pc, r, seen))
      \/ (\E pc, job, dir, r, seen : Become(c, pc, job, dir, r, seen))
  <2>1. CASE ReconcileRead(c) \/ StatusRead(c) \/ QueryStatus(c) \/ ApplyStatus(c) \/ Scan(c)
    BY <2>1 DEF ReconcileRead, StatusRead, QueryStatus, ApplyStatus, Scan
  <2>2. CASE ApplyScan(c) \/ GateFails(c) \/ GatePasses(c) \/ ClaimDirectory(c)
             \/ DirectoryClash(c) \/ StageFails(c) \/ StageSucceeds(c)
    BY <2>2 DEF ApplyScan, GateFails, GatePasses, ClaimDirectory, DirectoryClash, StageFails,
                StageSucceeds
  <2>3. CASE Sbatch(c) \/ ApplySbatch(c) \/ MarkResult(c) \/ Crash(c)
    BY <2>3 DEF Sbatch, ApplySbatch, MarkResult, Crash
  <2> QED BY <2>1, <2>2, <2>3 DEF CallerStep
<1> QED BY <1>1, WhereReturn, WhereAfterStatus, WhereGoto, WhereAnswer, WhereBecome
        DEF TypeInv, Elsewhere

LEMMA ServedCaller ==
    ASSUME Serial, TypeInv, SerialInv, ServedInv, NEW c \in Callers, CallerStep(c) \/ Crash(c),
           ~Sbatch(c)
    PROVE  ServedInv'
<1>1. ~At(c, "idle")
  BY DEF CallerStep, Crash, At, ReconcileRead, StatusRead, QueryStatus, ApplyStatus,
         Scan, ApplyScan, GateFails, GatePasses, ClaimDirectory, DirectoryClash,
         StageFails, StageSucceeds, ApplySbatch, MarkResult
<1>2. PICK rid \in Rids : rid = Rid(c)
  BY <1>1 DEF TypeInv, CallerInv
<1>3. Sound(rid)
  BY <1>2, CallerWrites
<1>4. Local(c)'
  BY LocalRead, LocalWrite
<1>5. JobsGrow /\ \A r \in Rids : registry[r].job # None => registry'[r].job = registry[r].job
  BY <1>3 DEF Sound, JobsGrow, Exists
<1>6. c \in Watchers => Mild
  BY WatcherMild DEF SerialInv
<1>7. \A d \in Callers : d # c => Local(d)'
  BY <1>5, <1>6, WhereCaller, LocalOthers
<1> QED BY <1>3, <1>4, <1>7, SoundWorld DEF ServedInv

\* The registry is not written, jobs are created in the directory of their request or end.
LEMMA ClusterWorld ==
    ASSUME TypeInv, ServedInv, UNCHANGED registry, JobsGrow,
           \A j \in JobIds : ~Exists(j) => \/ jobs'[j] = jobs[j]
                                           \/ /\ Exists(j)' /\ jobs'[j].rid \in Rids
                                              /\ jobs'[j].dir # None
                                              /\ registry[jobs'[j].rid].dir = jobs'[j].dir
    PROVE  NoJobYet' /\ JobsPlaced' /\ FailureIsConfirmed' /\ Mild
<1>1. NoJobYet' /\ Mild
  BY DEF ServedInv, NoJobYet, Mild
<1>2. JobsPlaced'
  BY DEF ServedInv, JobsPlaced, JobsGrow, Exists
<1>3. FailureIsConfirmed'
  BY DEF ServedInv, FailureIsConfirmed, JobsGrow, TypeInv, RowInv, RowRecords, JobIds, None
<1> QED BY <1>1, <1>2, <1>3

LEMMA AcceptGrows ==
    ASSUME TypeInv, NEW rid \in Rids, NEW dir, NEW j \in JobIds, Accept(rid, dir, j)
    PROVE  /\ JobsGrow /\ Exists(j)' /\ ~Exists(j) /\ jobs'[j].rid = rid /\ jobs'[j].dir = dir
           /\ \A k \in JobIds : k # j => jobs'[k] = jobs[k]
BY DEF TypeInv, WorldInv, Accept, JobsGrow, Exists

LEMMA SbatchFacts ==
    ASSUME TypeInv, SerialInv, ServedInv, NEW c \in Callers, Sbatch(c)
    PROVE  \E rid \in Rids, dir \in {caller[c].dir} :
               /\ rid = Rid(c) /\ UNCHANGED registry
               /\ c \in Submitters /\ Unsubmitted(rid) /\ caller[c].op = "submit"
               /\ registry[rid].job = None /\ registry[rid].state # Unresolved
               /\ registry[rid].dir = dir /\ dir # None
<1>1. At(c, "sbatch") /\ UNCHANGED registry
  BY DEF Sbatch
<1>2. Placed(c)
  BY DEF ServedInv, Local
<1> QED BY <1>1, <1>2, KnownSubmitter DEF At, Placed

LEMMA ServedSbatch ==
    ASSUME Serial, TypeInv, SerialInv, ServedInv, NEW c \in Callers, Sbatch(c)
    PROVE  ServedInv'
<1>1. PICK rid \in Rids, dir \in {caller[c].dir} :
               /\ rid = Rid(c) /\ UNCHANGED registry
               /\ c \in Submitters /\ Unsubmitted(rid) /\ caller[c].op = "submit"
               /\ registry[rid].job = None /\ registry[rid].state # Unresolved
               /\ registry[rid].dir = dir /\ dir # None
  BY SbatchFacts
<1>2. PICK r, seen :
          /\ Answer(c, "submitted", r, seen)
          /\ \/ seen = {} /\ UNCHANGED jobs
             \/ \E j \in JobIds : Accept(rid, dir, j) /\ seen = {Sighting(j, "SUBMITTED")}
  BY <1>1 DEF Sbatch
<1>3. /\ Elsewhere(c) /\ caller'[c].pc = "submitted" /\ caller'[c].op = "submit"
      /\ Rid(c)' = rid /\ caller'[c].seen = seen
  BY <1>1, <1>2, WhereAnswer DEF TypeInv, Rid
<1>4. c \notin Watchers
  BY <1>1, SubmitOnceAssumption
<1>5. /\ JobsGrow /\ \A s \in seen : jobs'[s.job].rid = rid
      /\ \A j \in JobIds : ~Exists(j) => \/ jobs'[j] = jobs[j]
                                         \/ /\ Exists(j)' /\ jobs'[j].rid \in Rids
                                            /\ jobs'[j].dir # None
                                            /\ registry[jobs'[j].rid].dir = jobs'[j].dir
  <2>1. CASE seen = {} /\ UNCHANGED jobs
    BY <2>1 DEF JobsGrow, Exists
  <2>2. ASSUME NEW j \in JobIds, Accept(rid, dir, j), seen = {Sighting(j, "SUBMITTED")}
        PROVE  <1>5
    BY <1>1, <2>2, AcceptGrows DEF Sighting
  <2> QED BY <1>2, <2>1, <2>2
<1>6. Local(c)'
  BY <1>1, <1>3, <1>5
     DEF Local, Submitting, Downloading, Following, Truthful, Answered, Placed, At
<1>7. NoJobYet' /\ JobsPlaced' /\ FailureIsConfirmed'
  BY <1>1, <1>5, ClusterWorld
<1>8. \A d \in Callers : d # c => Local(d)'
  BY <1>1, <1>3, <1>4, <1>5, LocalOthers
<1> QED BY <1>6, <1>7, <1>8 DEF ServedInv

LEMMA ServedCluster ==
    ASSUME TypeInv, ServedInv, NEW j \in JobIds, JobStarts(j) \/ JobEnds(j)
    PROVE  ServedInv'
<1>1. /\ UNCHANGED <<registry, caller>> /\ Exists(j) /\ jobs[j].state \in LiveJob
      /\ \E st \in {"RUNNING"} \cup Outcomes : JobBecomes(j, st)
  BY DEF JobStarts, JobEnds, Exists, LiveJob
<1>2. "absent" \notin {"RUNNING"} \cup Outcomes
  BY SubmitOnceAssumption DEF FailedStates
<1>3. JobsGrow /\ \A k \in JobIds : ~Exists(k) => jobs'[k] = jobs[k]
  BY <1>1, <1>2 DEF JobsGrow, JobBecomes, TypeInv, WorldInv, Exists, LiveJob, FailedStates
<1>4. NoJobYet' /\ JobsPlaced' /\ FailureIsConfirmed' /\ Mild
  BY <1>1, <1>3, ClusterWorld
<1>5. \A c \in Callers : Local(c)'
  <2> SUFFICES ASSUME NEW c \in Callers PROVE Local(c)'
    OBVIOUS
  <2>1. caller'[c] = caller[c] /\ Local(c)
    BY <1>1 DEF ServedInv
  <2>2. CASE At(c, "idle")
    BY <2>1, <2>2, LocalNothing DEF Local, Submitting, At
  <2> QED BY <1>3, <1>4, <2>1, <2>2, LocalStays
<1> QED BY <1>4, <1>5 DEF ServedInv

LEMMA ServedInit == Init => ServedInv
<1> SUFFICES ASSUME Init PROVE ServedInv
  OBVIOUS
<1>1. \A c \in Callers : caller[c].pc = "idle" /\ caller[c].op = "none"
  BY DEF Init, Idle
<1>2. \A c \in Callers : Local(c)
  BY <1>1 DEF Local, Submitting, Downloading, Following, Truthful, Answered, Placed, At
<1>3. \A rid \in Rids : registry[rid].state = "none" /\ registry[rid].job = None
  BY DEF Init, NoRow, Row
<1>4. NoJobYet /\ FailureIsConfirmed
  BY <1>3 DEF NoJobYet, FailureIsConfirmed
<1>5. JobsPlaced
  BY DEF Init, JobsPlaced, Exists
<1> QED BY <1>2, <1>4, <1>5 DEF ServedInv

LEMMA ServedNext == Serial /\ TypeInv /\ SerialInv /\ ServedInv /\ [Next]_vars => ServedInv'
<1> SUFFICES ASSUME Serial, TypeInv, SerialInv, ServedInv, [Next]_vars PROVE ServedInv'
  OBVIOUS
<1>1. CASE UNCHANGED vars
  BY <1>1 DEF vars, ServedInv, Local, Submitting, Downloading, Following, Truthful, Answered,
              Placed, At, Rid, NoJobYet, JobsPlaced, FailureIsConfirmed, Exists
<1>2. ASSUME NEW c \in Submitters, SubmitterCall(c)
      PROVE  ServedInv'
  <2>1. PICK rid \in Rids : TRUE
    BY <1>2 DEF SubmitterCall
  <2> QED BY <1>2, <2>1, ServedBegin DEF Callers
<1>3. ASSUME NEW w \in Watchers, NEW rid \in Rids, Watch(w, rid)
      PROVE  ServedInv'
  BY <1>3, ServedBegin DEF Callers
<1>4. CASE \E c \in Callers : CallerStep(c) \/ Crash(c)
  BY <1>4, ServedCaller, ServedSbatch
<1>5. CASE LateArrives
  BY <1>5 DEF LateArrives, SerialInv
<1>6. CASE \E j \in JobIds : JobStarts(j) \/ JobEnds(j)
  BY <1>6, ServedCluster
<1> QED BY <1>1, <1>2, <1>3, <1>4, <1>5, <1>6 DEF Next

LEMMA SerialAlways == ASSUME Serial PROVE Spec => [](SerialInv /\ ServedInv)
<1>1. Init => SerialInv /\ ServedInv
  BY SerialInit, ServedInit
<1>2. TypeInv /\ SerialInv /\ ServedInv /\ [Next]_vars => (SerialInv /\ ServedInv)'
  BY SerialNext, ServedNext
<1> QED BY <1>1, <1>2, TypeAlways, PTL DEF Spec

(* A row with a job id says of it that it failed only when it did              *)
(* (lifecycle.py:14-15), for a client without a rival: a failure is written    *)
(* after it was seen or before there is a job, and a failed job stays failed.  *)
THEOREM FailuresAreConfirmed ==
    ASSUME Serial
    PROVE  Spec => []FailureIsConfirmed
<1>1. SerialInv /\ ServedInv => FailureIsConfirmed
  BY DEF ServedInv
<1> QED BY <1>1, SerialAlways, PTL

(* What a client without a rival collects for a row that names its own job is  *)
(* the output of that job (registry.py:226-227).                              *)
THEOREM OwnResults ==
    ASSUME Serial
    PROVE  Spec => []ResultsFromOwnDirectory
<1>1. TypeInv /\ SerialInv /\ ServedInv => ResultsFromOwnDirectory
  BY DEF TypeInv, RowInv, RowRecords, ServedInv, JobsPlaced, ResultsFromOwnDirectory, None, JobIds
<1> QED BY <1>1, SerialAlways, TypeAlways, PTL

\* What a step of the serial system does to rows and jobs.
LEMMA SerialStep ==
    ASSUME Serial, TypeInv, SerialInv, ServedInv, [Next]_vars
    PROVE  \/ \E rid \in Rids : Sound(rid)
           \/ /\ UNCHANGED registry
              /\ \E rid \in Rids, j \in JobIds :
                    /\ Accept(rid, registry[rid].dir, j) /\ Unsubmitted(rid)
                    /\ registry[rid].job = None /\ registry[rid].dir # None
           \/ UNCHANGED registry /\ \A j \in JobIds : jobs'[j].rid = jobs[j].rid
<1>1. CASE UNCHANGED <<registry, jobs>>
  BY <1>1
<1>2. ASSUME NEW c \in Callers, CallerStep(c) \/ Crash(c), ~Sbatch(c)
      PROVE  \E rid \in Rids : Sound(rid)
  <2>1. ~At(c, "idle")
    BY <1>2 DEF CallerStep, Crash, At, ReconcileRead, StatusRead, QueryStatus, ApplyStatus,
           Scan, ApplyScan, GateFails, GatePasses, ClaimDirectory, DirectoryClash,
           StageFails, StageSucceeds, ApplySbatch, MarkResult
  <2>2. PICK rid \in Rids : rid = Rid(c)
    BY <2>1 DEF TypeInv, CallerInv
  <2> QED BY <1>2, <2>2, CallerWrites
<1>3. ASSUME NEW c \in Callers, Sbatch(c)
      PROVE  \/ UNCHANGED <<registry, jobs>>
             \/ /\ UNCHANGED registry
                /\ \E rid \in Rids, j \in JobIds :
                      /\ Accept(rid, registry[rid].dir, j) /\ Unsubmitted(rid)
                      /\ registry[rid].job = None /\ registry[rid].dir # None
  <2>1. PICK rid \in Rids, dir \in {caller[c].dir} :
               /\ rid = Rid(c) /\ UNCHANGED registry
               /\ c \in Submitters /\ Unsubmitted(rid) /\ caller[c].op = "submit"
               /\ registry[rid].job = None /\ registry[rid].state # Unresolved
               /\ registry[rid].dir = dir /\ dir # None
    BY <1>3, SbatchFacts
  <2>2. UNCHANGED jobs \/ \E j \in JobIds : Accept(rid, dir, j)
    BY <1>3, <2>1 DEF Sbatch
  <2> QED BY <2>1, <2>2
<1>4. ASSUME NEW j \in JobIds, JobStarts(j) \/ JobEnds(j)
      PROVE  UNCHANGED registry /\ \A k \in JobIds : jobs'[k].rid = jobs[k].rid
  BY <1>4 DEF JobStarts, JobEnds, JobBecomes, TypeInv, WorldInv
<1> QED
  BY <1>1, <1>2, <1>3, <1>4
     DEF Next, vars, SubmitterCall, Submit, ForceSubmit, Reconcile, RefreshStatus, Watch, Collect,
         Begin, LateArrives, SerialInv

(* A parked request is released by what Slurm says of its jobs only            *)
(* (lifecycle.py:560-570): a client without a rival submits to no parked row.  *)
THEOREM ParkedStaysParked ==
    ASSUME Serial
    PROVE  Spec => ParkedUntilObserved
<1>1. ASSUME TypeInv, SerialInv, ServedInv, [Next]_vars
      PROVE  \A rid \in Rids : registry[rid].state = Unresolved
                 => registry'[rid].state \in {Unresolved} \cup JobStates
  BY <1>1, SerialStep DEF Sound
<1>2. TypeInv /\ (SerialInv /\ ServedInv) /\ [Next]_vars
        => [\A rid \in Rids : registry[rid].state = Unresolved
                 => registry'[rid].state \in {Unresolved} \cup JobStates]_vars
  BY <1>1
<1> QED BY <1>2, SerialAlways, TypeAlways, PTL DEF Spec, ParkedUntilObserved

(* From the moment a row names a job it names that job (registry.py:184-185):   *)
(* a client without a rival neither exchanges the job id - its forced attempts *)
(* and its reconciliations see the jobs of all siblings by one name - nor      *)
(* erases it by the put of a new submission.                                 *)
THEOREM JobsStayIdentified ==
    ASSUME Serial
    PROVE  Spec => JobStaysIdentified
<1>1. ASSUME TypeInv, SerialInv, ServedInv, [Next]_vars
      PROVE  \A rid \in Rids : registry[rid].job # None
                 => registry'[rid].job = registry[rid].job
  BY <1>1, SerialStep DEF Sound
<1>2. TypeInv /\ (SerialInv /\ ServedInv) /\ [Next]_vars
        => [\A rid \in Rids : registry[rid].job # None
                 => registry'[rid].job = registry[rid].job]_vars
  BY <1>1
<1> QED BY <1>2, SerialAlways, TypeAlways, PTL DEF Spec, JobStaysIdentified

-----------------------------------------------------------------------------
(* The refinement of AtMostOnce.                                            *)

Of(rid) == {j \in JobIds : jobs[j].rid = rid}

Accepted == [rid \in Rids |-> Cardinality({j \in JobIds : jobs[j].rid = rid})]

View == [rid \in Rids |->
            IF Bound(rid) THEN "bound"
            ELSE IF registry[rid].dir # None \/ registry[rid].job # None
                 THEN "doubt" ELSE "free"]

LEMMA LedgerSteps ==
    ASSUME NEW i \in Rids
    PROVE  /\ View' = View /\ Accepted' = Accepted => [Ledger!Next]_(Ledger!vars)
           /\ View[i] = "free" /\ View' = [View EXCEPT ![i] = "doubt"] /\ Accepted' = Accepted
                  => Ledger!Next
           /\ View[i] = "doubt" /\ Accepted[i] = 0
                  /\ Accepted' = [Accepted EXCEPT ![i] = 1] /\ View' = View
                  => Ledger!Next
           /\ View[i] = "doubt" /\ Accepted[i] = 1
                  /\ View' = [View EXCEPT ![i] = "bound"] /\ Accepted' = Accepted
                  => Ledger!Next
           /\ View[i] = "doubt" /\ Accepted[i] = 0
                  /\ View' = [View EXCEPT ![i] = "free"] /\ Accepted' = Accepted
                  => Ledger!Next
<1>1. View' = View /\ Accepted' = Accepted => [Ledger!Next]_(Ledger!vars)
  BY DEF Ledger!vars, View, Accepted
<1>2. View[i] = "free" /\ View' = [View EXCEPT ![i] = "doubt"] /\ Accepted' = Accepted
        => Ledger!Venture(i)
  BY DEF Ledger!Venture, View, Accepted
<1>3. View[i] = "doubt" /\ Accepted[i] = 0
          /\ Accepted' = [Accepted EXCEPT ![i] = 1] /\ View' = View => Ledger!Accept(i)
  BY DEF Ledger!Accept, View, Accepted
<1>4. View[i] = "doubt" /\ Accepted[i] = 1
          /\ View' = [View EXCEPT ![i] = "bound"] /\ Accepted' = Accepted => Ledger!Bind(i)
  BY DEF Ledger!Bind, View, Accepted
<1>5. View[i] = "doubt" /\ Accepted[i] = 0
          /\ View' = [View EXCEPT ![i] = "free"] /\ Accepted' = Accepted => Ledger!Absolve(i)
  BY DEF Ledger!Absolve, View, Accepted
<1> QED BY <1>1, <1>2, <1>3, <1>4, <1>5 DEF Ledger!Next

LEMMA HowManyJobs ==
    ASSUME ServedInv, OneJobPerRequest, NEW rid \in Rids
    PROVE  /\ Unsubmitted(rid) => Accepted[rid] = 0
           /\ ~Unsubmitted(rid) => Accepted[rid] = 1
<1>1. <<>> \notin Rids
  BY DEF Rids
<1>2. Accepted[rid] = Cardinality(Of(rid))
  BY DEF Accepted, Of
<1>3. ASSUME Unsubmitted(rid) PROVE Accepted[rid] = 0
  <2>1. Of(rid) = {}
    BY <1>1, <1>3 DEF Of, Unsubmitted, ServedInv, JobsPlaced
  <2> QED BY <1>2, <2>1, FS_EmptySet
<1>4. ASSUME ~Unsubmitted(rid) PROVE Accepted[rid] = 1
  <2>1. PICK j \in JobIds : Exists(j) /\ jobs[j].rid = rid
    BY <1>4 DEF Unsubmitted
  <2>2. Of(rid) = {j}
    BY <1>1, <2>1 DEF Of, ServedInv, JobsPlaced, OneJobPerRequest
  <2> QED BY <1>2, <2>2, FS_Singleton
<1> QED BY <1>3, <1>4

\* A write of the row rid: it is ventured, bound or absolved, or nothing changes.
LEMMA LedgerWrite ==
    ASSUME TypeInv, TypeInv', ServedInv, ServedInv', OneJobPerRequest, NEW rid \in Rids, Sound(rid)
    PROVE  [Ledger!Next]_(Ledger!vars)
<1>1. Accepted' = Accepted
  BY DEF Sound, Accepted
<1>2. \A r \in Rids : r # rid => View'[r] = View[r]
  BY DEF Sound, View, Bound
<1>3. View' = [View EXCEPT ![rid] = View'[rid]]
  BY <1>2 DEF View
<1>4. View[rid] \in {"free", "doubt", "bound"} /\ View'[rid] \in {"free", "doubt", "bound"}
  BY DEF View
<1>5. View[rid] = "bound" => View'[rid] = "bound"
  BY DEF View, Bound, Sound
<1>6. View[rid] = "free" => View'[rid] # "bound"
  <2>1. ASSUME View[rid] = "free", View'[rid] = "bound" PROVE FALSE
    <3>1. registry[rid].dir = None /\ registry[rid].job = None
      BY <2>1 DEF View, Bound
    <3>2. PICK j : j = registry'[rid].job /\ j # None /\ jobs[j].rid = rid
      BY <2>1 DEF View, Bound, Sound
    <3>3. j \in JobIds /\ Exists(j)
      BY <3>2 DEF TypeInv, RowInv, RowRecords, JobIds, None, Exists, Sound
    <3> QED BY <3>1, <3>2, <3>3 DEF ServedInv, JobsPlaced
  <2> QED BY <2>1
<1>7. View[rid] = "doubt" /\ View'[rid] = "free" => Unsubmitted(rid)
  BY DEF View, Bound, Sound
<1>8. View'[rid] = "bound" => ~Unsubmitted(rid)
  <2>1. ASSUME View'[rid] = "bound" PROVE ~Unsubmitted(rid)
    <3>1. PICK j : j = registry'[rid].job /\ j # None /\ jobs[j].rid = rid
      BY <2>1 DEF View, Bound, Sound
    <3>2. j \in JobIds /\ Exists(j)
      BY <3>1 DEF TypeInv, RowInv, RowRecords, JobIds, None, Exists, Sound
    <3> QED BY <3>1, <3>2 DEF Unsubmitted
  <2> QED BY <2>1
<1>9. CASE View'[rid] = View[rid]
  <2>1. View' = View
    BY <1>3, <1>9 DEF View
  <2> QED BY <1>1, <2>1, LedgerSteps
<1>10. CASE View[rid] = "free" /\ View'[rid] = "doubt"
  BY <1>1, <1>3, <1>10, LedgerSteps
<1>11. CASE View[rid] = "doubt" /\ View'[rid] = "bound"
  BY <1>1, <1>3, <1>8, <1>11, HowManyJobs, LedgerSteps
<1>12. CASE View[rid] = "doubt" /\ View'[rid] = "free"
  BY <1>1, <1>3, <1>7, <1>12, HowManyJobs, LedgerSteps
<1> QED BY <1>4, <1>5, <1>6, <1>9, <1>10, <1>11, <1>12

\* The cluster accepts the job of a request in doubt that has none.
LEMMA LedgerAccept ==
    ASSUME TypeInv, ServedInv, ServedInv', OneJobPerRequest, OneJobPerRequest',
           UNCHANGED registry, NEW rid \in Rids, NEW j \in JobIds,
           Accept(rid, registry[rid].dir, j), Unsubmitted(rid),
           registry[rid].job = None, registry[rid].dir # None
    PROVE  Ledger!Next
<1>1. /\ ~Exists(j) /\ Exists(j)' /\ jobs'[j].rid = rid
      /\ \A k \in JobIds : k # j => jobs'[k] = jobs[k]
  <2>1. PICK dir : dir = registry[rid].dir
    OBVIOUS
  <2> QED BY <2>1, AcceptGrows
<1>2. View[rid] = "doubt"
  BY DEF View, Bound
<1>3. Accepted[rid] = 0
  BY HowManyJobs
<1>4. ServedInv' /\ OneJobPerRequest' /\ ~Unsubmitted(rid)' => Accepted'[rid] = 1
  <2>1. (ServedInv /\ OneJobPerRequest /\ ~Unsubmitted(rid) => Accepted[rid] = 1)'
    BY HowManyJobs, PTL
  <2> QED BY <2>1
<1>5. Accepted'[rid] = 1
  BY <1>1, <1>4 DEF Unsubmitted
<1>6. \A r \in Rids : r # rid => Accepted'[r] = Accepted[r]
  <2>1. ASSUME NEW r \in Rids, r # rid
        PROVE  Of(r)' = Of(r)
    <3>1. jobs[j].rid = <<>> /\ <<>> \notin Rids
      BY <1>1 DEF ServedInv, JobsPlaced, Rids
    <3> QED BY <1>1, <2>1, <3>1 DEF Of
  <2> QED BY <2>1 DEF Accepted, Of
<1>7. Accepted' = [Accepted EXCEPT ![rid] = 1]
  BY <1>5, <1>6 DEF Accepted
<1>8. View' = View
  <2>1. ASSUME NEW r \in Rids PROVE Bound(r)' = Bound(r)
    <3>1. registry[r].job # None => registry[r].job \in JobIds /\ Exists(registry[r].job)
      BY DEF TypeInv, RowInv, RowRecords, JobIds, None
    <3>2. registry[r].job # None => jobs'[registry[r].job] = jobs[registry[r].job]
      BY <1>1, <3>1
    <3> QED BY <3>2 DEF Bound
  <2> QED BY <2>1 DEF View
<1> QED BY <1>2, <1>3, <1>7, <1>8, LedgerSteps

LEMMA LedgerQuiet ==
    ASSUME TypeInv, UNCHANGED registry, \A j \in JobIds : jobs'[j].rid = jobs[j].rid
    PROVE  View' = View /\ Accepted' = Accepted
<1>1. Accepted' = Accepted
  BY DEF Accepted
<1>2. ASSUME NEW r \in Rids PROVE Bound(r)' = Bound(r)
  <2>1. registry[r].job # None => registry[r].job \in JobIds
    BY DEF TypeInv, RowInv, RowRecords, JobIds, None
  <2> QED BY <2>1 DEF Bound
<1> QED BY <1>1, <1>2 DEF View

(* What lifecycle.py promises is what a client without a rival delivers: every *)
(* behaviour of the lifecycle is one of the ledger, in which a request is      *)
(* accepted at most once, and only after a row said that it may have been.    *)
THEOREM SerialRefinesLedger ==
    ASSUME Serial
    PROVE  Spec => ImplementsLedger
<1>1. Init => Ledger!Init
  <2> SUFFICES ASSUME Init PROVE Ledger!Init
    OBVIOUS
  <2>1. ASSUME NEW rid \in Rids
        PROVE  /\ registry[rid].dir = None /\ registry[rid].job = None
               /\ {j \in JobIds : jobs[j].rid = rid} = {}
    <3>1. <<>> \notin Rids
      BY DEF Rids
    <3> QED BY <3>1 DEF Init, NoRow, Row
  <2>2. ASSUME NEW rid \in Rids
        PROVE  Cardinality({j \in JobIds : jobs[j].rid = rid}) = 0 /\ ~Bound(rid)
    BY <2>1, FS_EmptySet DEF Bound
  <2> QED BY <2>1, <2>2 DEF Ledger!Init
<1>2. ASSUME TypeInv, TypeInv', SerialInv, SerialInv', ServedInv, ServedInv', [Next]_vars
      PROVE  [Ledger!Next]_(Ledger!vars)
  <2>1. OneJobPerRequest /\ OneJobPerRequest'
    BY <1>2 DEF SerialInv
  <2>2. CASE \E rid \in Rids : Sound(rid)
    BY <1>2, <2>1, <2>2, LedgerWrite
  <2>3. CASE /\ UNCHANGED registry
             /\ \E rid \in Rids, j \in JobIds :
                   /\ Accept(rid, registry[rid].dir, j) /\ Unsubmitted(rid)
                   /\ registry[rid].job = None /\ registry[rid].dir # None
    BY <1>2, <2>1, <2>3, LedgerAccept
  <2>4. CASE UNCHANGED registry /\ \A j \in JobIds : jobs'[j].rid = jobs[j].rid
    <3>1. View' = View /\ Accepted' = Accepted
      BY <1>2, <2>4, LedgerQuiet
    <3> QED BY <3>1 DEF Ledger!vars, View, Accepted
  <2> QED BY <1>2, <2>2, <2>3, <2>4, SerialStep
<1>3. TypeInv /\ TypeInv' /\ (SerialInv /\ ServedInv) /\ (SerialInv /\ ServedInv)' /\ [Next]_vars
        => [Ledger!Next]_(Ledger!vars)
  BY <1>2
<1> QED BY <1>1, <1>3, SerialAlways, TypeAlways, PTL DEF Spec, ImplementsLedger, Ledger!Spec
=============================================================================
