---------------------------- MODULE EvolutionEvents ----------------------------
(***************************************************************************)
(* Quality-diversity evolution events: EvolutionCoordinator.run_event      *)
(* (scientific/evolution/qd/coordinator.py) over the budget ledger         *)
(* (budget.py), the trial and batch store (store.py) and the archive of    *)
(* the best result per cell (archive.py).                                  *)
(*                                                                         *)
(* A coordinator is a process that runs one event; it may die anywhere and *)
(* the event be run again, also beside a coordinator that is still alive.  *)
(* Each step is one operation under the file lock of the ledger or of the  *)
(* store, one commit, or one answer that was awaited.                      *)
(***************************************************************************)
EXTENDS Integers, Sequences, FiniteSets, FiniteSetsExt, Functions

CONSTANTS
    Events,         \* evolution tasks that share one contract, so one archive
    Coordinators,
    Baseline,       \* the genome the host starts with
    Children,       \* genomes the model can propose
    Cells,          \* descriptor cells of the archive
    Qualities,      \* qualities of qualified validations, the higher the better
    Tolerance,      \* contract.quality_tolerance
    Costs,          \* tokens a proposal, or a trial that ran, can turn out to use
    TokenCap,       \* budget.max_model_tokens
    TrialCap,       \* budget.max_trials
    Patience,       \* budget.patience
    Limit,          \* budget.offspring_per_batch
    MaxBatches,     \* bound on the proposal batches of an event
    MaxRuns         \* bound on the calls of run_event

ASSUME EvolutionAssumption ==
    /\ Baseline \notin Children /\ IsFiniteSet(Children)
    /\ "nobody" \notin Coordinators /\ "none" \notin Cells
    /\ Qualities \subseteq Nat \ {0} /\ Costs \subseteq Nat \ {0}
    /\ Tolerance \in Nat /\ TokenCap \in Nat /\ TrialCap \in Nat /\ Patience \in Nat
    /\ Limit \in Nat /\ MaxBatches \in Nat /\ MaxRuns \in Nat

Genomes == {Baseline} \cup Children
Batches == 0 .. MaxBatches - 1
Operations == Genomes \cup Batches   \* a trial's operation, a batch's operation
None == -1
Nobody == "nobody"
Attempts == 3                        \* of an archive commit

VARIABLES
    \* files
    ops,        \* ledger: event -> operation -> reservation and usage
    trials,     \* event -> genome -> current revision of its trial
    batches,    \* event -> batch index -> stored proposal batch
    archive,    \* revision, cells, and a revision file without a manifest
    \* processes
    lease,      \* event -> genome -> holder of the trial's execution lock
    pc,         \* where each coordinator is
    event,      \* the event it runs
    batch,      \* its batch_index
    genome,     \* the genome it is busy with
    mem,        \* its other locals
    \* history
    beside,     \* coordinators whose run overlaps another one of their event (history)
    runs,       \* calls of run_event
    executed,   \* event -> genome -> calls of executor.execute
    proposed    \* event -> batch -> calls of proposal_engine.propose

files == <<ops, trials, batches, archive>>
place == <<lease, event, batch, genome, beside>>
history == <<runs, executed, proposed>>
vars == <<ops, trials, batches, archive, lease, pc, event, batch, genome, mem,
          beside, runs, executed, proposed>>

-----------------------------------------------------------------------------
(* The ledger (budget.py).                                                  *)

NoOperation == [reserved |-> None, actual |-> None, started |-> FALSE]

\* A settled operation counts with its usage, another with its reservation.
Charge(op) == IF op.reserved = None THEN 0
              ELSE IF op.actual = None THEN op.reserved ELSE op.actual

Tokens(e) == MapThenSumSet(LAMBDA o : Charge(ops[e][o]), Operations)
Trials(e) == Cardinality({g \in Genomes : ops[e][g].reserved # None})

\* Mutant of Fits: the reservation is not compared with the cap again.
FitsAnyway(e, o, tokens) == TRUE

Fits(e, o, tokens) ==
    /\ Tokens(e) + tokens <= TokenCap
    /\ Trials(e) + (IF o \in Genomes THEN 1 ELSE 0) <= TrialCap

CanSettle(e, o, used) ==
    /\ ops[e][o].reserved # None
    /\ used <= ops[e][o].reserved
    /\ ops[e][o].actual \in {None, used}

Settle(e, o, used) ==
    ops' = [ops EXCEPT ![e][o] = [reserved |-> ops[e][o].reserved, actual |-> used,
                                  started |-> TRUE]]

-----------------------------------------------------------------------------
(* Trials and the archive (store.py).                                       *)

NoTrial == [status |-> "none", cost |-> 0, quality |-> 0, cell |-> "none"]
NoBatch == [stored |-> FALSE, genomes |-> <<>>, cost |-> 0]
NoEntry == [event |-> "none", genome |-> "none", quality |-> 0, used |-> 0, lineage |-> {}]
NoOrphan == [cells |-> <<>>, parentUse |-> FALSE]

\* A trial revision without a manifest is adopted by the next load of the
\* trial, so a trial commit is atomic.
TrialBecomes(e, g, trial) == trials' = [trials EXCEPT ![e][g] = trial]

Status(trial, status) ==
    [status |-> status, cost |-> trial.cost, quality |-> trial.quality, cell |-> trial.cell]

Filled == {k \in Cells : archive.cells[k] # NoEntry}
Lineage == UNION {archive.cells[k].lineage : k \in Filled}

\* Mutant of Fresh: only the revision of the index is compared.
FreshIndex(k, old, revision) == archive.rev = revision

(* commit_archive_entry: the index still has the revision that was read, and   *)
(* the cell the entry that the new one refers to.                            *)
Fresh(k, old, revision) == archive.rev = revision /\ archive.cells[k] = old

Index(k, new) == [archive.cells EXCEPT ![k] = new]

(* _write_immutable: the file of the next revision may already exist, left by  *)
(* a process that died before its manifest.  Another content is a conflict;  *)
(* a parent-use update carries the time and never has the same content.      *)
Conflicts(cells, parentUse) ==
    /\ archive.orphan # NoOrphan
    /\ parentUse \/ archive.orphan # [cells |-> cells, parentUse |-> FALSE]

-----------------------------------------------------------------------------
(* Coordinators.                                                            *)

Fresh0 == [phase |-> "recover", known |-> {}, left |-> {}, seen |-> {}, todo |-> <<>>,
           stalled |-> 0, improved |-> FALSE, accepted |-> FALSE, status |-> "none",
           tokens |-> None, cost |-> 0, cell |-> "none", entry |-> NoEntry, rev |-> 0,
           tries |-> 0, outcome |-> "none"]

Init ==
    /\ ops = [e \in Events |-> [o \in Operations |-> NoOperation]]
    /\ trials = [e \in Events |-> [g \in Genomes |-> NoTrial]]
    /\ batches = [e \in Events |-> [b \in Batches |-> NoBatch]]
    /\ archive = [rev |-> 0, cells |-> [k \in Cells |-> NoEntry], orphan |-> NoOrphan]
    /\ lease = [e \in Events |-> [g \in Genomes |-> Nobody]]
    /\ pc = [c \in Coordinators |-> "idle"]
    /\ event = [c \in Coordinators |-> Nobody]
    /\ batch = [c \in Coordinators |-> 0]
    /\ genome = [c \in Coordinators |-> Baseline]
    /\ mem = [c \in Coordinators |-> Fresh0]
    /\ beside = {}
    /\ runs = 0
    /\ executed = [e \in Events |-> [g \in Genomes |-> 0]]
    /\ proposed = [e \in Events |-> [b \in Batches |-> 0]]

At(c, where) == pc[c] = where
Goto(c, where) == pc' = [pc EXCEPT ![c] = where]
Recall(c, value) == mem' = [mem EXCEPT ![c] = value]
Stay == UNCHANGED place
Trial(c) == trials[event[c]][genome[c]]

\* The locks a process holds are released when its call returns or it dies.
Release(c) ==
    lease' = [e \in Events |-> [g \in Genomes |->
                IF lease[e][g] = c THEN Nobody ELSE lease[e][g]]]

\* The call of run_event is over: its locals are gone.
Gone(c) ==
    /\ Release(c)
    /\ event' = [event EXCEPT ![c] = Nobody]
    /\ batch' = [batch EXCEPT ![c] = 0]
    /\ genome' = [genome EXCEPT ![c] = Baseline]
    /\ beside' = beside \ {c}

End(c, outcome) ==
    /\ Goto(c, "ended")
    /\ Recall(c, [Fresh0 EXCEPT !.outcome = outcome])
    /\ Gone(c)

Leave == UNCHANGED history
Reads == UNCHANGED files /\ Stay /\ Leave

Busy(e) == {c \in Coordinators : pc[c] \notin {"idle", "ended"} /\ event[c] = e}

(* run_event.  _cancelled() is asked here, in every round and before every     *)
(* proposal; the flag may be set at any time.                                *)
RunEvent(c, e) ==
    /\ pc[c] \in {"idle", "ended"}
    /\ runs < MaxRuns
    /\ runs' = runs + 1
    /\ \/ /\ Goto(c, "recoverArchive")
          /\ Recall(c, Fresh0)
          /\ event' = [event EXCEPT ![c] = e]
          /\ beside' = IF Busy(e) = {} THEN beside ELSE beside \cup Busy(e) \cup {c}
          /\ UNCHANGED <<lease, batch, genome>>
       \/ End(c, "CANCELLED")
    /\ UNCHANGED <<files, executed, proposed>>

-----------------------------------------------------------------------------
(* _recover_validated_trials.                                               *)

RecoverArchive(c) ==
    /\ At(c, "recoverArchive")
    /\ Recall(c, [mem[c] EXCEPT !.known = Lineage])
    /\ Goto(c, "recoverTrials")
    /\ Reads

\* Mutant of RecoverTrials: the validated trials are not looked up.
RecoverNothing(c) ==
    /\ At(c, "recoverTrials")
    /\ Goto(c, "recover")
    /\ Reads /\ UNCHANGED mem

RecoverTrials(c) ==
    /\ At(c, "recoverTrials")
    /\ Recall(c, [mem[c] EXCEPT
            !.left = {g \in Genomes : trials[event[c]][g].status = "VALIDATED"}])
    /\ Goto(c, "recover")
    /\ Reads

(* One trial: settle it, and offer it to the archive unless it is there.       *)
Recover(c) ==
    /\ At(c, "recover")
    /\ UNCHANGED <<trials, batches, archive>> /\ Leave
    /\ \/ /\ mem[c].left = {}
          /\ Goto(c, "entries")
          /\ UNCHANGED <<ops, mem>> /\ Stay
       \/ \E g \in Genomes :
            LET e == event[c]
                trial == trials[e][g] IN
            /\ g \in mem[c].left
            /\ IF ~CanSettle(e, g, trial.cost)
               THEN End(c, "BLOCKED") /\ UNCHANGED ops
               ELSE /\ Settle(e, g, trial.cost)
                    /\ genome' = [genome EXCEPT ![c] = g]
                    /\ Recall(c, [mem[c] EXCEPT !.left = @ \ {g}, !.tries = 0])
                    /\ Goto(c, IF trial.quality # 0 /\ <<e, g>> \notin mem[c].known
                               THEN "consider" ELSE "recovered")
                    /\ UNCHANGED <<lease, event, batch, beside>>

\* Whether the open issues are resolved by a qualified validation is a choice.
Recovered(c) ==
    /\ At(c, "recovered")
    /\ \/ Goto(c, "recover") /\ UNCHANGED mem /\ Stay
       \/ Trial(c).quality # 0 /\ End(c, "SOLVED")
    /\ UNCHANGED files /\ Leave

-----------------------------------------------------------------------------
(* The baseline trial, when the archive is empty, and what is known already.  *)

Entries(c) ==
    /\ At(c, "entries")
    /\ IF Filled = {}
       THEN /\ Goto(c, "trial")
            /\ genome' = [genome EXCEPT ![c] = Baseline]
            /\ Recall(c, [mem[c] EXCEPT !.phase = "baseline"])
       ELSE Goto(c, "seen") /\ UNCHANGED <<genome, mem>>
    /\ UNCHANGED <<files, lease, event, batch, beside, history>>

Seen(c) ==
    /\ At(c, "seen")
    /\ Recall(c, [mem[c] EXCEPT !.phase = "batch",
                    !.seen = {Baseline} \cup {archive.cells[k].genome : k \in Filled}])
    /\ Goto(c, "round")
    /\ Reads

(* The head of the loop.  No actionable issue is left: STALLED.                *)
Round(c) ==
    /\ At(c, "round")
    /\ \/ End(c, "CANCELLED")
       \/ End(c, "STALLED")
       \/ /\ mem[c].stalled < Patience
          /\ batch[c] < MaxBatches
          /\ Goto(c, "batch")
          /\ UNCHANGED mem /\ Stay
    /\ UNCHANGED files /\ Leave

-----------------------------------------------------------------------------
(* Reservations.  The operation is looked up, the rest of the budget taken in  *)
(* another call, and reserved in a third.                                    *)

Remaining(c, here, next) ==
    /\ At(c, here)
    /\ IF Trials(event[c]) >= TrialCap \/ Tokens(event[c]) >= TokenCap
       THEN End(c, "BUDGET_EXHAUSTED")
       ELSE /\ Recall(c, [mem[c] EXCEPT !.tokens = TokenCap - Tokens(event[c])])
            /\ Goto(c, next)
            /\ Stay
    /\ UNCHANGED files /\ Leave

(* reserve_with_cap: an earlier reservation must be the same one.              *)
ReserveWithCap(c, here, o, next) ==
    LET e == event[c]
        prior == ops[e][o].reserved
        granted == IF prior = None THEN Fits(e, o, mem[c].tokens) ELSE prior = mem[c].tokens IN
    /\ At(c, here)
    /\ IF granted THEN Goto(c, next) /\ UNCHANGED mem /\ Stay
                  ELSE End(c, "BUDGET_EXHAUSTED")
    /\ IF granted /\ prior = None
       THEN ops' = [ops EXCEPT ![e][o] = [reserved |-> mem[c].tokens, actual |-> None,
                                          started |-> FALSE]]
       ELSE UNCHANGED ops
    /\ UNCHANGED <<trials, batches, archive>> /\ Leave

-----------------------------------------------------------------------------
(* _proposal_batch.                                                         *)

BatchOperation(c) ==
    /\ At(c, "batch")
    /\ Recall(c, [mem[c] EXCEPT !.tokens = ops[event[c]][batch[c]].reserved])
    /\ Goto(c, "batchStored")
    /\ Reads

(* A stored batch is used again; its operation is settled if that was missed. *)
BatchStored(c) ==
    LET e == event[c]
        stored == batches[e][batch[c]] IN
    /\ At(c, "batchStored")
    /\ \/ /\ ~stored.stored
          /\ Goto(c, IF mem[c].tokens = None THEN "batchRemaining" ELSE "parents")
          /\ UNCHANGED <<ops, mem>> /\ Stay
       \/ /\ stored.stored
          /\ IF mem[c].tokens = None \/ ~CanSettle(e, batch[c], stored.cost)
             THEN End(c, "BLOCKED") /\ UNCHANGED ops
             ELSE /\ Settle(e, batch[c], stored.cost)
                  /\ Recall(c, [mem[c] EXCEPT !.todo = stored.genomes, !.tokens = None])
                  /\ Goto(c, "proposals")
                  /\ Stay
    /\ UNCHANGED <<trials, batches, archive>> /\ Leave

BatchRemaining(c) == Remaining(c, "batchRemaining", "batchReserve")
BatchReserve(c) == ReserveWithCap(c, "batchReserve", batch[c], "parents")

(* select_parent_entries: up to two entries of different genomes; which ones    *)
(* depends on their use and on a seed.  No entry: the baseline is the parent. *)
Parents(c) ==
    LET genomes(cells) == {archive.cells[k].genome : k \in cells} IN
    /\ At(c, "parents")
    /\ \E parents \in SUBSET Filled :
          /\ Cardinality(parents) = Min({2, Cardinality(genomes(Filled))})
          /\ Cardinality(genomes(parents)) = Cardinality(parents)
          /\ Recall(c, [mem[c] EXCEPT !.left = parents, !.tries = 0])
    /\ Goto(c, "begin")
    /\ Reads

\* Mutant of Begin: an operation that was started may be started again.
BeginAgain(c) ==
    /\ At(c, "begin")
    /\ ops' = [ops EXCEPT ![event[c]][batch[c]].started = TRUE]
    /\ Goto(c, "mark")
    /\ UNCHANGED <<trials, batches, archive, mem>> /\ Stay /\ Leave

(* begin: a reserved operation is started at most once, ever.                  *)
Begin(c) ==
    LET op == ops[event[c]][batch[c]] IN
    /\ At(c, "begin")
    /\ IF op.reserved = None \/ op.started \/ op.actual # None
       THEN End(c, "BLOCKED") /\ UNCHANGED ops
       ELSE /\ ops' = [ops EXCEPT ![event[c]][batch[c]] =
                          [reserved |-> op.reserved, actual |-> op.actual, started |-> TRUE]]
            /\ Goto(c, "mark")
            /\ UNCHANGED mem /\ Stay
    /\ UNCHANGED <<trials, batches, archive>> /\ Leave

(* mark_used, a parent at a time; then the model is asked.                     *)
MarkUsed(c) ==
    /\ At(c, "mark")
    /\ \/ \E k \in mem[c].left :
            /\ mem[c].tries > 0 => k = mem[c].cell
            /\ Recall(c, [mem[c] EXCEPT !.cell = k, !.entry = archive.cells[k]])
            /\ Goto(c, "markRevision")
            /\ UNCHANGED proposed
       \/ /\ mem[c].left = {}
          /\ proposed' = [proposed EXCEPT ![event[c]][batch[c]] = @ + 1]
          /\ Goto(c, "proposing")
          /\ UNCHANGED mem
    /\ UNCHANGED <<files, place, runs, executed>>

MarkRevision(c) ==
    /\ At(c, "markRevision")
    /\ Recall(c, [mem[c] EXCEPT !.rev = archive.rev])
    /\ Goto(c, "markCommit")
    /\ Reads

\* The process dies: everything but the files is lost.
Die(c) ==
    /\ Goto(c, "idle")
    /\ Recall(c, Fresh0)
    /\ Gone(c)

\* The manifest follows the revision file, unless the process dies first.
Publish(cells) ==
    archive' = [rev |-> archive.rev + 1, cells |-> cells, orphan |-> NoOrphan]
Orphan(cells, parentUse) ==
    archive' = [rev |-> archive.rev, cells |-> archive.cells,
                orphan |-> [cells |-> cells, parentUse |-> parentUse]]

(* Three attempts; a parent that cannot be marked is passed over.              *)
MarkCommit(c) ==
    LET m == mem[c]
        cells == Index(m.cell, [m.entry EXCEPT !.used = @ + 1])
        done == [m EXCEPT !.left = @ \ {m.cell}, !.cell = "none", !.entry = NoEntry,
                          !.rev = 0, !.tries = 0] IN
    /\ At(c, "markCommit")
    /\ IF Fresh(m.cell, m.entry, m.rev) /\ ~Conflicts(cells, TRUE)
       THEN \/ Publish(cells) /\ Recall(c, done) /\ Goto(c, "mark") /\ Stay
            \/ Orphan(cells, TRUE) /\ Die(c)
       ELSE /\ Recall(c, IF m.tries + 1 = Attempts THEN done ELSE [m EXCEPT !.tries = @ + 1])
            /\ Goto(c, "mark")
            /\ UNCHANGED archive /\ Stay
    /\ UNCHANGED <<ops, trials, batches>> /\ Leave

(* The answer of propose: in time or not, an exception, a batch that is not    *)
(* what was asked for, or proposals, which are staged.                       *)
Proposed(c) ==
    /\ At(c, "proposing")
    /\ \/ End(c, "BUDGET_EXHAUSTED")
       \/ End(c, "BLOCKED")
       \/ \E cost \in Costs, n \in 0 .. Limit : \E genomes \in [1 .. n -> Genomes] :
            /\ cost <= mem[c].tokens
            /\ IsInjective(genomes)
            /\ Recall(c, [mem[c] EXCEPT !.todo = genomes, !.cost = cost])
            /\ Goto(c, "save")
            /\ Stay
    /\ UNCHANGED files /\ Leave

SaveBatch(c) ==
    /\ At(c, "save")
    /\ batches' = [batches EXCEPT ![event[c]][batch[c]] =
                      [stored |-> TRUE, genomes |-> mem[c].todo, cost |-> mem[c].cost]]
    /\ Goto(c, "saved")
    /\ UNCHANGED <<ops, trials, archive, mem>> /\ Stay /\ Leave

SettleBatch(c) ==
    /\ At(c, "saved")
    /\ IF CanSettle(event[c], batch[c], mem[c].cost)
       THEN /\ Settle(event[c], batch[c], mem[c].cost)
            /\ Recall(c, [mem[c] EXCEPT !.tokens = None, !.cost = 0])
            /\ Goto(c, "proposals")
            /\ Stay
       ELSE End(c, "BLOCKED") /\ UNCHANGED ops
    /\ UNCHANGED <<trials, batches, archive>> /\ Leave

Proposals(c) ==
    /\ At(c, "proposals")
    /\ \/ End(c, "CANCELLED")
       \/ mem[c].todo = <<>> /\ End(c, "STALLED")
       \/ /\ mem[c].todo # <<>>
          /\ Recall(c, [mem[c] EXCEPT !.improved = FALSE])
          /\ Goto(c, "proposal")
          /\ Stay
    /\ UNCHANGED files /\ Leave

(* The next proposal of the batch, if its genome is known and intact; a content *)
(* that was seen is passed over.                                             *)
Proposal(c) ==
    LET m == mem[c] IN
    /\ At(c, "proposal")
    /\ \/ /\ m.todo = <<>>
          /\ Recall(c, [m EXCEPT !.stalled = IF m.improved THEN 0 ELSE @ + 1])
          /\ batch' = [batch EXCEPT ![c] = @ + 1]
          /\ Goto(c, "round")
          /\ UNCHANGED <<lease, event, genome, beside>>
       \/ /\ m.todo # <<>>
          /\ End(c, "CANCELLED")
       \/ /\ m.todo # <<>> /\ Head(m.todo) \in Genomes
          /\ Recall(c, [m EXCEPT !.todo = Tail(@), !.seen = @ \cup {Head(m.todo)}])
          /\ IF Head(m.todo) \in m.seen
             THEN UNCHANGED <<pc, genome>>
             ELSE /\ genome' = [genome EXCEPT ![c] = Head(m.todo)]
                  /\ Goto(c, "trial")
          /\ UNCHANGED <<lease, event, batch, beside>>
    /\ UNCHANGED files /\ Leave

-----------------------------------------------------------------------------
(* _trial and _run_trial_leased.                                            *)

TrialOperation(c) ==
    LET reserved == ops[event[c]][genome[c]].reserved IN
    /\ At(c, "trial")
    /\ Recall(c, [mem[c] EXCEPT !.tokens = reserved, !.accepted = FALSE])
    /\ Goto(c, IF reserved = None THEN "trialRemaining" ELSE "trialRecord")
    /\ Reads

TrialRemaining(c) == Remaining(c, "trialRemaining", "trialReserve")
TrialReserve(c) == ReserveWithCap(c, "trialReserve", genome[c], "trialRecord")

(* reserve_trial: an earlier record must equal the new one in all but its      *)
(* status, so it may have neither cost nor outputs.  A trial that used the   *)
(* model or produced something is refused; the branches of _run_trial_leased *)
(* for COLLECTED and VALIDATED records are therefore never taken.            *)
Untouched(trial) == trial.cost = 0 /\ trial.status \notin {"COLLECTED", "VALIDATED"}

ReserveTrial(c) ==
    /\ At(c, "trialRecord")
    /\ IF ~Untouched(Trial(c))
       THEN End(c, "BLOCKED") /\ UNCHANGED trials
       ELSE LET prior == Trial(c).status
                status == IF prior = "none" THEN "RESERVED" ELSE prior IN
            /\ TrialBecomes(event[c], genome[c], Status(Trial(c), status))
            /\ Recall(c, [mem[c] EXCEPT !.status = status])
            /\ Goto(c, "trialLease")
            /\ Stay
    /\ UNCHANGED <<ops, batches, archive>> /\ Leave

\* Mutant of TrialLease: the lock is not asked for.
TrialUnleased(c) ==
    /\ At(c, "trialLease")
    /\ Goto(c, "leased")
    /\ Reads /\ UNCHANGED mem

(* trial_execution_lease: a lock that ends with its process.                   *)
TrialLease(c) ==
    /\ At(c, "trialLease")
    /\ IF lease[event[c]][genome[c]] = Nobody
       THEN /\ lease' = [lease EXCEPT ![event[c]][genome[c]] = c]
            /\ Goto(c, "leased")
            /\ UNCHANGED <<mem, event, batch, genome, beside>>
       ELSE End(c, "BLOCKED")
    /\ UNCHANGED files /\ Leave

\* The locals of _trial and consider are gone when they return.
Forget(m) == [m EXCEPT !.tokens = None, !.status = "none", !.cell = "none",
                       !.entry = NoEntry, !.rev = 0, !.tries = 0]

\* The call of _trial returns to the loop.
Finish(c, accepted) ==
    /\ Goto(c, "tried")
    /\ Recall(c, [Forget(mem[c]) EXCEPT !.accepted = accepted])
    /\ Release(c)
    /\ UNCHANGED <<event, batch, genome, beside>>

\* Mutant of LeasedStart: a trial found RUNNING is executed again.
LeasedStartAgain(c) ==
    /\ At(c, "leased")
    /\ mem[c].status \in {"RESERVED", "RUNNING"}
    /\ TrialBecomes(event[c], genome[c], Status(Trial(c), "RUNNING"))
    /\ executed' = [executed EXCEPT ![event[c]][genome[c]] = @ + 1]
    /\ Goto(c, "executing")
    /\ UNCHANGED <<mem, place, ops, batches, archive, runs, proposed>>

(* The record as reserve_trial returned it, before the lease, decides.         *)
LeasedStart(c) ==
    /\ At(c, "leased")
    /\ mem[c].status = "RESERVED"
    /\ IF Trial(c).status = "RESERVED"
       THEN /\ TrialBecomes(event[c], genome[c], Status(Trial(c), "RUNNING"))
            /\ executed' = [executed EXCEPT ![event[c]][genome[c]] = @ + 1]
            /\ Goto(c, "executing")
            /\ UNCHANGED mem /\ Stay
       ELSE End(c, "BLOCKED") /\ UNCHANGED <<trials, executed>>
    /\ UNCHANGED <<ops, batches, archive, runs, proposed>>

LeasedInterrupted(c) ==
    /\ At(c, "leased")
    /\ mem[c].status \in {"RUNNING", "INTERRUPTED"}
    /\ IF Trial(c).status = "RUNNING"
       THEN TrialBecomes(event[c], genome[c], Status(Trial(c), "INTERRUPTED"))
       ELSE UNCHANGED trials
    /\ End(c, "BLOCKED")
    /\ UNCHANGED <<ops, batches, archive>> /\ Leave

LeasedFailed(c) ==
    /\ At(c, "leased")
    /\ mem[c].status = "FAILED"
    /\ IF CanSettle(event[c], genome[c], 0)
       THEN Settle(event[c], genome[c], 0) /\ Finish(c, FALSE)
       ELSE End(c, "BLOCKED") /\ UNCHANGED ops
    /\ UNCHANGED <<trials, batches, archive>> /\ Leave

(* execute returns, and commit_trial_outcome writes what it returned; an        *)
(* exception and the wall-clock limit make the trial INTERRUPTED.            *)
Outcome(c, trial) ==
    IF Trial(c).status # "RUNNING" THEN End(c, "BLOCKED") /\ UNCHANGED trials
    ELSE /\ TrialBecomes(event[c], genome[c], trial)
         /\ IF trial.status = "INTERRUPTED" THEN End(c, "BLOCKED")
            ELSE /\ Goto(c, IF trial.status = "COLLECTED" THEN "validate" ELSE "settle")
                 /\ UNCHANGED mem /\ Stay

Execute(c) ==
    /\ At(c, "executing")
    /\ \/ \E q \in Qualities \cup {0}, k \in Cells, cost \in Costs :
            Outcome(c, [status |-> "COLLECTED", cost |-> cost, quality |-> q, cell |-> k])
       \/ \E status \in {"FAILED", "INTERRUPTED"}, cost \in Costs \cup {0} :
            Outcome(c, [status |-> status, cost |-> cost, quality |-> 0, cell |-> "none"])
    /\ UNCHANGED <<ops, batches, archive>> /\ Leave

Validate(c) ==
    /\ At(c, "validate")
    /\ IF Trial(c).status = "COLLECTED"
       THEN /\ TrialBecomes(event[c], genome[c], Status(Trial(c), "VALIDATED"))
            /\ Goto(c, "settle")
            /\ UNCHANGED mem /\ Stay
       ELSE End(c, "BLOCKED") /\ UNCHANGED trials
    /\ UNCHANGED <<ops, batches, archive>> /\ Leave

\* Mutant of SettleTrial: what cannot be settled is offered to the archive.
SettleTrialIfPossible(c) ==
    LET used == Trial(c).cost IN
    /\ At(c, "settle")
    /\ IF CanSettle(event[c], genome[c], used) THEN Settle(event[c], genome[c], used)
                                              ELSE UNCHANGED ops
    /\ IF Trial(c).quality = 0 THEN Finish(c, FALSE)
       ELSE Goto(c, "consider") /\ UNCHANGED mem /\ Stay
    /\ UNCHANGED <<trials, batches, archive>> /\ Leave

(* _settle_trial, then the archive for a qualified validation.                 *)
SettleTrial(c) ==
    LET used == Trial(c).cost IN
    /\ At(c, "settle")
    /\ IF ~CanSettle(event[c], genome[c], used)
       THEN End(c, "BLOCKED") /\ UNCHANGED ops
       ELSE /\ Settle(event[c], genome[c], used)
            /\ IF Trial(c).quality = 0
               THEN Finish(c, FALSE)
               ELSE /\ Recall(c, [mem[c] EXCEPT !.tries = 0])
                    /\ Goto(c, "consider")
                    /\ Stay
    /\ UNCHANGED <<trials, batches, archive>> /\ Leave

-----------------------------------------------------------------------------
(* QDArchive.consider.                                                      *)

Considered(c, accepted) ==
    IF mem[c].phase = "recover"
    THEN Goto(c, "recovered") /\ Recall(c, Forget(mem[c])) /\ Stay
    ELSE Finish(c, accepted)

Better(q, old) == q > old + Tolerance
Tied(q, old) == q \in old - Tolerance .. old + Tolerance

(* compare_validations.  Ties are decided by runtime, dependencies and genome  *)
(* id: a choice, but never in favour of the entry itself.                    *)
Consider(c) ==
    LET k == Trial(c).cell
        old == archive.cells[k]
        q == Trial(c).quality
        itself == old.event = event[c] /\ old.genome = genome[c] IN
    /\ At(c, "consider")
    /\ \/ /\ old = NoEntry \/ Better(q, old.quality) \/ (Tied(q, old.quality) /\ ~itself)
          /\ Recall(c, [mem[c] EXCEPT !.cell = k, !.entry = old])
          /\ Goto(c, "considerRevision")
          /\ Stay
       \/ /\ old # NoEntry /\ ~Better(q, old.quality)
          /\ Considered(c, FALSE)
    /\ UNCHANGED files /\ Leave

ConsiderRevision(c) ==
    /\ At(c, "considerRevision")
    /\ Recall(c, [mem[c] EXCEPT !.rev = archive.rev])
    /\ Goto(c, "considerCommit")
    /\ Reads

(* Three attempts, then ARCHIVE_CONFLICT: BLOCKED only during recovery.        *)
ConsiderCommit(c) ==
    LET m == mem[c]
        cells == Index(m.cell, [event |-> event[c], genome |-> genome[c],
                                quality |-> Trial(c).quality, used |-> m.entry.used,
                                lineage |-> m.entry.lineage \cup {<<event[c], genome[c]>>}])
        backed == Trial(c).status = "VALIDATED" IN
    /\ At(c, "considerCommit")
    /\ IF Fresh(m.cell, m.entry, m.rev) /\ backed /\ ~Conflicts(cells, FALSE)
       THEN \/ Publish(cells) /\ Considered(c, TRUE)
            \/ Orphan(cells, FALSE) /\ Die(c)
       ELSE /\ UNCHANGED archive
            /\ IF m.tries + 1 < Attempts
               THEN /\ Recall(c, [m EXCEPT !.tries = @ + 1])
                    /\ Goto(c, "consider")
                    /\ Stay
               ELSE IF m.phase = "recover" THEN End(c, "BLOCKED") ELSE Finish(c, FALSE)
    /\ UNCHANGED <<ops, trials, batches>> /\ Leave

(* Back in run_event.                                                         *)
Tried(c) ==
    LET m == mem[c] IN
    /\ At(c, "tried")
    /\ \/ m.accepted /\ End(c, "SOLVED")
       \/ IF m.phase = "baseline"
          THEN IF Trials(event[c]) >= TrialCap
               THEN End(c, "BUDGET_EXHAUSTED")
               ELSE Goto(c, "seen") /\ UNCHANGED mem /\ Stay
          ELSE /\ Goto(c, "proposal")
               /\ Recall(c, [m EXCEPT !.improved = @ \/ m.accepted])
               /\ Stay
    /\ UNCHANGED files /\ Leave

(* The process dies; no handler cleans up.                                    *)
Crash(c) ==
    /\ pc[c] \notin {"idle", "ended"}
    /\ Die(c)
    /\ UNCHANGED files /\ Leave

-----------------------------------------------------------------------------
Step(c) ==
    \/ RecoverArchive(c) \/ RecoverTrials(c) \/ Recover(c) \/ Recovered(c)
    \/ Entries(c) \/ Seen(c) \/ Round(c)
    \/ BatchOperation(c) \/ BatchStored(c) \/ BatchRemaining(c) \/ BatchReserve(c)
    \/ Parents(c) \/ Begin(c) \/ MarkUsed(c) \/ MarkRevision(c) \/ MarkCommit(c)
    \/ Proposed(c) \/ SaveBatch(c) \/ SettleBatch(c) \/ Proposals(c) \/ Proposal(c)
    \/ TrialOperation(c) \/ TrialRemaining(c) \/ TrialReserve(c) \/ ReserveTrial(c)
    \/ TrialLease(c) \/ LeasedStart(c) \/ LeasedInterrupted(c) \/ LeasedFailed(c)
    \/ Execute(c) \/ Validate(c) \/ SettleTrial(c)
    \/ Consider(c) \/ ConsiderRevision(c) \/ ConsiderCommit(c) \/ Tried(c)

Next ==
    \E c \in Coordinators :
        \/ \E e \in Events : RunEvent(c, e)
        \/ Step(c)
        \/ Crash(c)

Spec == Init /\ [][Next]_vars

-----------------------------------------------------------------------------
(* Properties.                                                              *)

Statuses == {"none", "RESERVED", "RUNNING", "COLLECTED", "VALIDATED", "FAILED", "INTERRUPTED"}
Amounts == 0 .. TokenCap
Entry == [event : Events \cup {"none"}, genome : Genomes \cup {"none"},
          quality : Qualities \cup {0}, used : Nat, lineage : SUBSET (Events \X Genomes)]

(* The files and the locals of the coordinators have the types the code gives   *)
(* them; the usage a settled operation records is within its reservation, and *)
(* only a trial that was collected has a quality (budget.py 102-119).        *)
TypeOK ==
    /\ \A e \in Events : \A o \in Operations :
          /\ ops[e][o].reserved \in Amounts \cup {None}
          /\ ops[e][o].actual \in -1 .. ops[e][o].reserved
          /\ ops[e][o].started \in BOOLEAN
          /\ ops[e][o].reserved = None => ops[e][o] = NoOperation
    /\ \A e \in Events : \A g \in Genomes :
          /\ trials[e][g].status \in Statuses
          /\ trials[e][g].cost \in Costs \cup {0}
          /\ trials[e][g].quality \in Qualities \cup {0}
          /\ (trials[e][g].cell = "none") <=> (trials[e][g].status \notin {"COLLECTED", "VALIDATED"})
          /\ lease[e][g] \in Coordinators \cup {Nobody}
    /\ \A e \in Events : \A b \in Batches :
          batches[e][b].stored => ops[e][b].started
    /\ archive.rev \in Nat
    /\ archive.cells \in [Cells -> Entry]
    /\ \A c \in Coordinators :
          /\ event[c] \in Events \cup {Nobody} /\ genome[c] \in Genomes /\ batch[c] \in 0 .. MaxBatches
          /\ mem[c].tokens \in Amounts \cup {None}
          /\ mem[c].tries < Attempts
    /\ runs \in 0 .. MaxRuns

(* The executor is started at most once for a trial, whatever coordinators die,  *)
(* race or run the event again: "a persistent RUNNING trial always blocks      *)
(* replay" (coordinator.py 66).                                              *)
ExecutedOnce == \A e \in Events : \A g \in Genomes : executed[e][g] <= 1

(* The model is asked at most once for the proposals of a batch: an ambiguous   *)
(* start is never replayed (budget.py 122).                                  *)
ProposedOnce == \A e \in Events : \A b \in Batches : proposed[e][b] <= 1

(* What an event has used, and has reserved for what is under way, never        *)
(* exceeds its budget, although the rest of it is read in one call of the    *)
(* ledger and reserved in a later one (coordinator.py 332-341).              *)
CapKept == TypeOK /\ \A e \in Events : Tokens(e) <= TokenCap /\ Trials(e) <= TrialCap

(* A trial that a live coordinator executes is RUNNING in the store and leased   *)
(* by it: no other coordinator interrupts it or ends it (store.py 117).      *)
LiveTrialRuns ==
    \A c \in Coordinators :
        At(c, "executing") => Trial(c).status = "RUNNING" /\ lease[event[c]][genome[c]] = c

(* Whatever the archive was ever given came from a trial that is validated, of   *)
(* that quality for the present entry, and the ledger has charged what the   *)
(* trial used: nothing is archived on credit (coordinator.py 434-443).       *)
ArchiveAccounted ==
    \A k \in Filled :
        LET entry == archive.cells[k] IN
        /\ <<entry.event, entry.genome>> \in entry.lineage
        /\ trials[entry.event][entry.genome].quality = entry.quality
        /\ \A past \in entry.lineage :
              LET trial == trials[past[1]][past[2]] IN
              /\ trial.status = "VALIDATED" /\ trial.quality # 0 /\ trial.cell = k
              /\ ops[past[1]][past[2]].actual = trial.cost

(* A cell of the archive is never emptied, and an update replaces its entry by   *)
(* one that is no worse than the tolerance allows, forgets no trial and no    *)
(* use of it, also when two commits race (store.py 315-334, archive.py 20-44). *)
ArchiveKeepsUp ==
    [][\A k \in Filled :
          LET old == archive.cells[k]
              new == archive.cells'[k] IN
          /\ new # NoEntry
          /\ new.quality >= old.quality - Tolerance
          /\ old.lineage \subseteq new.lineage
          /\ new.used >= old.used]_vars

Alone(c) == c \notin beside
\* The archive of its cell has the trial, or an entry that the trial does not beat.
Kept(trial, cells) ==
    trial.status = "VALIDATED" /\ trial.quality # 0 =>
        cells[trial.cell] # NoEntry /\ ~Better(trial.quality, cells[trial.cell].quality)

(* A run that gets past the recovery has every qualified result of the earlier   *)
(* runs in the archive, whichever of them died and wherever, and whatever the  *)
(* other events commit meanwhile: "Rebuild event progress from               *)
(* identity-checked durable trial evidence" (coordinator.py 505).            *)
RecoveryRebuilds ==
    [][\A c \in Coordinators :
          pc[c] = "recover" /\ pc'[c] = "entries" /\ Alone(c) =>
            \A g \in Genomes : Kept(trials[event[c]][g], archive.cells)]_vars

(* When an event has done what it could, every qualified result it paid for is   *)
(* in the archive, also when a process died over the archive files ("Crash    *)
(* durable storage", store.py 1).                                            *)
ResultsKept ==
    [][\A c \in Coordinators :
          pc[c] # "ended" /\ pc'[c] = "ended" /\ Alone(c)
          /\ mem'[c].outcome \in {"STALLED", "BUDGET_EXHAUSTED"} =>
            \A g \in Genomes : Kept(trials'[event[c]][g], archive'.cells)]_vars

(* An event that is run again with nobody else about is refused only while      *)
(* something is ambiguous: a trial that was started and whose outcome is not  *)
(* known, or a proposal that was asked for and not stored ("ambiguous trials *)
(* require reconciliation before retry", cli/qd.py 264).                     *)
BlockedIsAmbiguous ==
    [][\A c \in Coordinators :
          pc[c] = "trialRecord" /\ pc'[c] = "ended" /\ mem'[c].outcome = "BLOCKED" /\ Alone(c) =>
            \/ \E g \in Genomes : trials[event[c]][g].status \in {"RUNNING", "INTERRUPTED"}
            \/ \E b \in Batches : ops[event[c]][b].started /\ ~batches[event[c]][b].stored]_vars
=============================================================================
