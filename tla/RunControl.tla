------------------------------ MODULE RunControl ------------------------------
(***************************************************************************)
(* When an agent run of the workbench ends, and what is reported of it:    *)
(* the iterations of AgentRuntime.run with its stop policy, its stall      *)
(* counter and the diagnostic budget of a blocked workflow, inside the     *)
(* repair rounds of ResearchClosedLoop, inside the wall-time limit of      *)
(* RunManager.                                                             *)
(*                                                                         *)
(* What the conversation holds is AgentTranscript's subject.  An           *)
(* observation is its key, the defects a check finds are their signature.  *)
(* What the model answers, what a tool reports and what a check finds are  *)
(* free choices.                                                           *)
(***************************************************************************)
EXTENDS Integers, Sequences, FiniteSets

CONSTANTS
    Keys,             \* bound: different observations the tools can make
    MaxBatch,         \* bound: tool calls in one response
    Signatures,       \* bound: different sets of repairable defects
    MaxRounds,        \* EvolutionOptions.max_rounds
    Patience,         \* EvolutionOptions.patience
    MaxIterations,    \* BudgetState.max_iterations, the run's max_model_calls
    MaxNoProgress,    \* max_no_progress_iterations
    DiagnosticBudget, \* diagnostic_observation_budget
    Recoveries,       \* ContextEngineConfig.output_recovery_attempts
    None

ASSUME RunControlAssumption ==
    /\ MaxBatch \in Nat \ {0} /\ MaxRounds \in 1..8 /\ Patience \in 1..4
    /\ MaxIterations \in Nat \ {0} /\ MaxNoProgress \in Nat \ {0}
    /\ DiagnosticBudget \in Nat \ {0} /\ Recoveries \in 0..1
    /\ None \notin Signatures

VARIABLES
    closedLoop, \* the run's evolution options are enabled
    phase,      \* "round", "model", "tools", "check", "closing", "closed", "done", "failed"
    round,      \* rounds of the closed loop that were started
    iteration,  \* model requests of this round
    calls,      \* BudgetState.model_calls, over all rounds; counted up to MaxIterations + 1
    recoveries, \* truncated responses this round has recovered from
    streak,     \* no_progress_streak
    used,       \* diagnostic_observations
    charged,    \* _run_meta["blocked"]: the budget was drawn on
    seen,       \* _run_observed_keys
    step,       \* what the tools of this iteration have brought
    blocker,    \* the scientific state names a workflow with a next stage or a gap
    reason,     \* reason of the last loop_completed event
    last,       \* last delivery check
    previous,   \* signature of the check before it
    repeats,    \* checks in a row with that signature
    status,     \* how the closed loop ended
    journal,    \* closed_loop_completed events of the run
    quiet,      \* history: blocked iterations in a row without progress, evidence or wait
    expired     \* history: the wall-time limit was reached

agent == <<iteration, recoveries, streak, used, charged, seen, step, quiet>>
loop == <<round, last, previous, repeats, status>>
vars == <<closedLoop, phase, calls, blocker, reason, journal, expired, agent, loop>>

NoCheck == [delivery |-> "UNKNOWN", repairable |-> None, open |-> FALSE, round |-> 0]

\* left: calls without a result; grew: a ledger is longer; evidence, wait, new: as named;
\* probes: new observations that are no scheduler wait; before: the blocker at the start.
NewStep(n) ==
    [left |-> n, grew |-> FALSE, evidence |-> FALSE, wait |-> FALSE, new |-> FALSE,
     probes |-> 0, before |-> blocker]
NoStep ==
    [left |-> 0, grew |-> FALSE, evidence |-> FALSE, wait |-> FALSE, new |-> FALSE,
     probes |-> 0, before |-> FALSE]

Init ==
    /\ closedLoop \in BOOLEAN /\ blocker \in BOOLEAN
    /\ phase = "round" /\ round = 0 /\ calls = 0
    /\ iteration = 0 /\ recoveries = 0 /\ streak = 0 /\ used = 0 /\ charged = FALSE
    /\ seen = {} /\ step = NoStep /\ quiet = 0
    /\ reason = None /\ last = NoCheck /\ previous = None /\ repeats = 0
    /\ status = "ROUND_LIMIT" /\ journal = <<>> /\ expired = FALSE

-----------------------------------------------------------------------------
(* How a round ends.                                                       *)

\* drive returns the reason of the loop_completed event.
StopRound(why) ==
    /\ reason' = why
    /\ IF ~closedLoop THEN phase' = "closed" /\ UNCHANGED status
       ELSE IF why = "final_response" THEN phase' = "check" /\ UNCHANGED status
       ELSE /\ phase' = "closing"
            /\ status' = IF why \in {"max_iterations", "token_budget_exhausted"}
                         THEN "BUDGET_EXHAUSTED" ELSE "EXECUTION_STOPPED"
    /\ UNCHANGED <<round, last, previous, repeats>>

\* An exception leaves run and drive: the run fails, without a closing event.
RunFails ==
    /\ phase' = "failed"
    /\ UNCHANGED <<reason, loop>>

-----------------------------------------------------------------------------
(* AgentRuntime.run.                                                       *)

CallsNext == IF calls > MaxIterations THEN calls ELSE calls + 1

\* A round starts a run of the agent, whose counters start again; a goal that switches the
\* task drops the workflow.
StartRound ==
    /\ phase = "round"
    /\ phase' = "model" /\ round' = round + 1
    /\ iteration' = 1 /\ recoveries' = 0 /\ streak' = 0 /\ used' = 0 /\ charged' = FALSE
    /\ seen' = {} /\ step' = NoStep /\ quiet' = 0
    /\ blocker' \in {blocker, FALSE}
    /\ UNCHANGED <<closedLoop, calls, reason, last, previous, repeats, status,
                   journal, expired>>

\* The context, the token budget or the provider fails, or the final delivery has tool calls.
RequestFails ==
    /\ phase = "model"
    /\ calls' \in {calls, CallsNext}
    /\ RunFails
    /\ UNCHANGED <<closedLoop, blocker, journal, expired, agent>>

\* StopPolicy.should_stop: the iteration limit comes before the finish reason.
StopReasons ==
    IF iteration >= MaxIterations THEN {"max_iterations"}
    ELSE {"final_response", "max_total_tokens", "output_truncated", "unknown"}

RespondStop ==
    /\ phase = "model"
    /\ calls' = CallsNext
    /\ \E why \in StopReasons : StopRound(why)
    /\ UNCHANGED <<closedLoop, blocker, journal, expired, agent>>

\* A truncated response is asked for again, with a larger cap; no counter but the
\* iteration moves.
RespondTruncated ==
    /\ phase = "model" /\ iteration < MaxIterations
    /\ recoveries < Recoveries /\ calls + 1 < MaxIterations
    /\ calls' = CallsNext /\ recoveries' = recoveries + 1 /\ iteration' = iteration + 1
    /\ UNCHANGED <<closedLoop, phase, blocker, reason, journal, expired, loop, streak, used,
                   charged, seen, step, quiet>>

RespondCalls ==
    /\ phase = "model" /\ iteration < MaxIterations
    /\ calls' = CallsNext
    /\ \E n \in 1..MaxBatch : step' = NewStep(n)
    /\ phase' = "tools"
    /\ UNCHANGED <<closedLoop, blocker, reason, journal, expired, loop, iteration, recoveries,
                   streak, used, charged, seen, quiet>>

-----------------------------------------------------------------------------
(* AgentRuntime._handle_tool_call.                                         *)

\* Refused, failed, or a result marked as an error.
ToolFails ==
    /\ phase = "tools" /\ step.left > 0
    /\ step' = [step EXCEPT !.left = @ - 1]
    /\ UNCHANGED <<closedLoop, phase, calls, blocker, reason, journal, expired, loop, iteration,
                   recoveries, streak, used, charged, seen, quiet>>

\* A result with observation key, an active scheduler wait or none, and the state updates it
\* carries: none (or refused ones), evidence, another ledger entry, a reference update.
ToolSucceeds(key, active, update) ==
    /\ phase = "tools" /\ step.left > 0
    /\ LET new == key \notin seen
       IN step' = [step EXCEPT !.left = @ - 1,
                               !.wait = @ \/ active,
                               !.new = @ \/ new,
                               !.probes = IF new /\ ~active THEN @ + 1 ELSE @,
                               !.evidence = @ \/ update = "evidence",
                               !.grew = @ \/ update \in {"evidence", "entry"}]
    /\ seen' = seen \cup {key}
    /\ blocker' = CASE update = "blocks" -> TRUE [] update = "clears" -> FALSE [] OTHER -> blocker
    /\ UNCHANGED <<closedLoop, phase, calls, reason, journal, expired, loop, iteration,
                   recoveries, streak, used, charged, quiet>>

-----------------------------------------------------------------------------
(* The end of an iteration.                                                *)

Progress == step.grew \/ blocker # step.before

\* New evidence ends a blocked period and restores its budget, if it was drawn on.
Restored == step.evidence /\ charged
BlockedNow == blocker /\ ~step.evidence

\* Mutant of UsedNext: the observations of earlier iterations are forgotten.
UsedThisIteration == IF BlockedNow THEN step.probes ELSE IF Restored THEN 0 ELSE used

UsedNext ==
    IF BlockedNow THEN used + step.probes
    ELSE IF Restored THEN 0 ELSE used

ChargedNext ==
    IF BlockedNow THEN charged \/ step.probes > 0
    ELSE charged /\ ~step.evidence

\* In a blocked period a new observation only takes one step off the stall.
StreakNext ==
    IF Progress \/ step.wait THEN 0
    ELSE IF ~step.new THEN streak + 1
    ELSE IF BlockedNow /\ streak > 0 THEN streak - 1
    ELSE 0

QuietNext == IF BlockedNow /\ ~Progress /\ ~step.wait THEN quiet + 1 ELSE 0

\* Mutant of IterationNext: an iteration that only waits is not counted.
IterationUnlessWait == IF step.wait THEN iteration ELSE iteration + 1

IterationNext == iteration + 1

EndIteration ==
    /\ phase = "tools" /\ step.left = 0
    /\ used' = UsedNext /\ charged' = ChargedNext /\ streak' = StreakNext /\ quiet' = QuietNext
    /\ step' = NoStep
    /\ \/ /\ BlockedNow /\ UsedNext >= DiagnosticBudget
          /\ StopRound("diagnostic_budget_exhausted")
          /\ UNCHANGED iteration
       \/ /\ ~(BlockedNow /\ UsedNext >= DiagnosticBudget)
          /\ StreakNext >= MaxNoProgress
          /\ StopRound("no_progress")
          /\ UNCHANGED iteration
       \/ /\ ~(BlockedNow /\ UsedNext >= DiagnosticBudget)
          /\ StreakNext < MaxNoProgress
          /\ phase' = "model" /\ iteration' = IterationNext
          /\ UNCHANGED <<reason, loop>>
    /\ UNCHANGED <<closedLoop, calls, blocker, journal, expired, recoveries, seen>>

-----------------------------------------------------------------------------
(* ResearchClosedLoop.run.                                                 *)

\* check_delivery: repairable defects by their signature, others only as open or not; the
\* defects of scientific checks leave the delivery status alone.
Checks ==
    {c \in [delivery : {"PASS", "FAIL", "UNKNOWN"}, repairable : Signatures \cup {None},
            open : BOOLEAN, round : {round}] :
        /\ c.delivery = "FAIL" => c.repairable # None
        /\ c.delivery = "UNKNOWN" => c.open}

RepeatsNext(c) == IF c.repairable = previous THEN repeats + 1 ELSE 0

CheckDelivery ==
    /\ phase = "check"
    /\ \E c \in Checks :
        /\ last' = c
        /\ \/ /\ c.repairable = None
              /\ status' = IF c.open THEN "NEEDS_EVIDENCE" ELSE "DELIVERY_COMPLETE"
              /\ phase' = "closing"
              /\ UNCHANGED <<previous, repeats>>
           \/ /\ c.repairable # None
              /\ previous' = c.repairable /\ repeats' = RepeatsNext(c)
              /\ \/ /\ RepeatsNext(c) >= Patience
                    /\ status' = "STALLED" /\ phase' = "closing"
                 \/ /\ RepeatsNext(c) < Patience
                    /\ phase' = IF round = MaxRounds THEN "closing" ELSE "round"
                    /\ UNCHANGED status
    /\ UNCHANGED <<closedLoop, calls, blocker, reason, journal, expired, round, agent>>

\* The closing event is committed, and the block of the wall-time limit not yet left.
CloseLoop ==
    /\ phase = "closing"
    /\ journal' = Append(journal, [status |-> status, delivery |-> last.delivery])
    /\ phase' = "closed"
    /\ UNCHANGED <<closedLoop, calls, blocker, reason, expired, agent, loop>>

-----------------------------------------------------------------------------
(* RunManager: the wall-time limit, and the status of the run.             *)

Leave ==
    /\ phase = "closed"
    /\ phase' = "done"
    /\ UNCHANGED <<closedLoop, calls, blocker, reason, journal, expired, agent, loop>>

\* The limit cancels the run at its next await, whatever it was doing.
WallTime ==
    /\ phase \in {"round", "model", "tools", "check", "closing", "closed"}
    /\ journal' = Append(journal, [status |-> "WALL_TIME_EXHAUSTED", delivery |-> "UNKNOWN"])
    /\ phase' = "done" /\ expired' = TRUE
    /\ UNCHANGED <<closedLoop, calls, blocker, reason, agent, loop>>

\* Mutant of Outcome: the delivery status decides, however the loop ended.
OutcomeOfDelivery ==
    IF journal # <<>>
    THEN IF journal[Len(journal)].delivery = "PASS" THEN "SUCCEEDED" ELSE "PARTIAL"
    ELSE IF reason = "final_response" THEN "SUCCEEDED" ELSE "PARTIAL"

\* _completion_status
Outcome ==
    IF journal # <<>>
    THEN LET end == journal[Len(journal)]
         IN IF end.status \in {"DELIVERY_COMPLETE", "NEEDS_EVIDENCE"} /\ end.delivery = "PASS"
            THEN "SUCCEEDED" ELSE "PARTIAL"
    ELSE IF reason = "final_response" THEN "SUCCEEDED" ELSE "PARTIAL"

-----------------------------------------------------------------------------
Tool ==
    \/ ToolFails
    \/ \E key \in Keys, active \in BOOLEAN,
          update \in {"none", "evidence", "entry", "blocks", "clears"} :
          ToolSucceeds(key, active, update)

Agent ==
    \/ StartRound \/ RequestFails \/ RespondStop \/ RespondTruncated \/ RespondCalls
    \/ Tool \/ EndIteration

Run == Agent \/ CheckDelivery \/ CloseLoop \/ Leave

Next == Run \/ WallTime

Spec == Init /\ [][Next]_vars

\* The event loop runs, and providers and tools answer or fail.
FairSpec == Spec /\ WF_vars(Run)

-----------------------------------------------------------------------------
(* Properties.                                                             *)

\* Types, and the bounds that the code puts on its counters.
TypeOK ==
    /\ closedLoop \in BOOLEAN /\ blocker \in BOOLEAN /\ charged \in BOOLEAN
    /\ phase \in {"round", "model", "tools", "check", "closing", "closed", "done", "failed"}
    /\ round \in 0..MaxRounds /\ iteration \in 0..MaxIterations
    /\ calls \in 0..(MaxIterations + 1) /\ recoveries \in 0..Recoveries
    /\ streak \in 0..MaxNoProgress /\ used \in 0..(DiagnosticBudget + MaxBatch - 1)
    /\ seen \subseteq Keys /\ repeats \in 0..Patience
    /\ last.repairable \in Signatures \cup {None} /\ last.round \in 0..MaxRounds
    /\ Len(journal) <= 2

\* However new and repeated observations alternate, a blocked workflow is explored for a
\* bounded number of iterations unless something advances it: every decay of the stall is
\* paid for from the diagnostic budget (loop.run, the blocked branch); and each counter
\* keeps within the bound the code puts on it.
BlockedRunBounded == TypeOK /\ quiet <= MaxNoProgress + 2 * DiagnosticBudget - 2

\* A run is a success only if its last round ended in a final answer within the time limit
\* and the check of that very answer found nothing to repair: no verdict of an earlier
\* round survives a round that broke off (_completion_status, ResearchClosedLoop.run).
SucceededMeansDelivered ==
    phase = "done" /\ Outcome = "SUCCEEDED" =>
        /\ ~expired /\ reason = "final_response"
        /\ closedLoop => /\ last.round = round /\ last.delivery = "PASS"
                         /\ last.repairable = None

\* A run ends: waits reset the stall and evidence restores the budget, but every round has
\* an iteration limit and the closed loop has a round limit.
RunEnds == <>(phase \in {"done", "failed"})

\* A run whose delivery was found complete is reported as a success.
DeliveryReported ==
    phase = "done" /\ status = "DELIVERY_COMPLETE" /\ journal # <<>>
        /\ journal[1].status = "DELIVERY_COMPLETE" => Outcome = "SUCCEEDED"

\* The closed loop reuses the budget of the run: its model calls stay within it.
CallsWithinBudget == calls <= MaxIterations

\* What _record_diagnostic_observation says: the budget is restored when the workflow stops
\* being blocked.
BudgetRestored == phase = "model" /\ ~blocker => used = 0
=============================================================================
