---------------------------- MODULE RunControlProofs ----------------------------
(***************************************************************************)
(* Theorems about RunControl for every set of observations and defects and   *)
(* every bound: the counters keep within their bounds, a blocked run is      *)
(* explored for a bounded number of iterations, and a run that is reported   *)
(* a success was delivered in its last round.                                *)
(***************************************************************************)
EXTENDS RunControl, SequenceTheorems, TLAPS

Statuses == {"ROUND_LIMIT", "BUDGET_EXHAUSTED", "EXECUTION_STOPPED", "NEEDS_EVIDENCE",
             "DELIVERY_COMPLETE", "STALLED"}
Verdicts == {"PASS", "FAIL", "UNKNOWN"}
Phases == {"round", "model", "tools", "check", "closing", "closed", "done", "failed"}

-----------------------------------------------------------------------------
(* The counters.                                                            *)

StepTyped ==
    /\ step \in [left : Nat, grew : BOOLEAN, evidence : BOOLEAN, wait : BOOLEAN,
                 new : BOOLEAN, probes : Nat, before : BOOLEAN]
    /\ step.left + step.probes <= MaxBatch
    /\ step.new /\ ~step.wait => step.probes > 0

RoundTyped ==
    /\ closedLoop \in BOOLEAN /\ phase \in Phases
    /\ round \in 0..MaxRounds /\ repeats \in 0..Patience
    /\ last.repairable \in Signatures \cup {None} /\ last.round \in 0..MaxRounds
    /\ phase = "round" => round < MaxRounds
    /\ phase \in {"round", "model", "tools", "check"} => repeats < Patience

\* In a round no limit has been reached yet, and every blocked iteration without
\* progress is accounted for: it lengthened the stall, or it took one step off
\* the stall and paid for it from the diagnostic budget.
AgentTyped ==
    /\ blocker \in BOOLEAN /\ charged \in BOOLEAN
    /\ iteration \in 0..MaxIterations /\ calls \in 0..(MaxIterations + 1)
    /\ recoveries \in 0..Recoveries /\ seen \subseteq Keys
    /\ streak \in 0..MaxNoProgress /\ used \in 0..(DiagnosticBudget + MaxBatch - 1)
    /\ quiet \in Nat
    /\ phase = "tools" => iteration < MaxIterations
    /\ phase \in {"model", "tools"} =>
          streak < MaxNoProgress /\ used < DiagnosticBudget /\ quiet <= streak + 2 * used
    /\ quiet <= MaxNoProgress + 2 * DiagnosticBudget - 2

Counters == StepTyped /\ RoundTyped /\ AgentTyped

LEMMA BoundsPositive ==
    ASSUME RunControlAssumption
    PROVE  /\ 0 \in 0..MaxIterations /\ 1 \in 0..MaxIterations /\ 0 \in 0..(MaxIterations + 1)
           /\ 0 \in 0..Recoveries /\ 0 \in 0..MaxNoProgress
           /\ 0 \in 0..(DiagnosticBudget + MaxBatch - 1)
           /\ 0 < MaxNoProgress /\ 0 < DiagnosticBudget
           /\ 0 <= MaxNoProgress + 2 * DiagnosticBudget - 2
           /\ 0 <= 0 + 2 * 0
BY DEF RunControlAssumption

LEMMA CountersInit == RunControlAssumption /\ Init => Counters
<1> SUFFICES ASSUME RunControlAssumption, Init
             PROVE  Counters
  OBVIOUS
<1>1. StepTyped
  BY DEF Init, NoStep, StepTyped, RunControlAssumption
<1>2. RoundTyped
  BY DEF Init, NoCheck, RoundTyped, Phases, RunControlAssumption
<1>3. AgentTyped
  BY BoundsPositive DEF Init, AgentTyped
<1> QED BY <1>1, <1>2, <1>3 DEF Counters

LEMMA StopRoundKeeps ==
    ASSUME Counters, NEW why, StopRound(why), UNCHANGED closedLoop, phase \in {"model", "tools"}
    PROVE  RoundTyped' /\ phase' \in {"closed", "check", "closing"}
BY DEF Counters, RoundTyped, StopRound, Phases

LEMMA RunFailsKeeps ==
    ASSUME Counters, RunFails, UNCHANGED closedLoop
    PROVE  RoundTyped' /\ phase' = "failed"
BY DEF Counters, RoundTyped, RunFails, loop, Phases

\* The counters of the agent survive a step that leaves them alone.
LEMMA AgentKeeps ==
    ASSUME Counters, UNCHANGED <<blocker, agent>>, calls' \in 0..(MaxIterations + 1),
           phase' \notin {"model", "tools"}
    PROVE  StepTyped' /\ AgentTyped'
BY DEF Counters, StepTyped, AgentTyped, agent

LEMMA CallsNextTyped ==
    RunControlAssumption /\ Counters => CallsNext \in 0..(MaxIterations + 1)
BY DEF RunControlAssumption, Counters, AgentTyped, CallsNext

LEMMA StepUpdated ==
    ASSUME StepTyped, NEW l \in Nat, NEW w \in BOOLEAN, NEW n \in BOOLEAN, NEW q \in Nat,
           NEW e \in BOOLEAN, NEW g \in BOOLEAN,
           step' = [step EXCEPT !.left = l, !.wait = w, !.new = n, !.probes = q,
                                !.evidence = e, !.grew = g],
           l + q <= MaxBatch, n /\ ~w => q > 0
    PROVE  StepTyped'
BY DEF StepTyped

\* The end of an iteration moves the three counters together.
LEMMA AccountKept ==
    ASSUME RunControlAssumption, Counters, phase = "tools"
    PROVE  /\ StreakNext \in 0..MaxNoProgress
           /\ UsedNext \in 0..(DiagnosticBudget + MaxBatch - 1)
           /\ ~BlockedNow => UsedNext < DiagnosticBudget
           /\ QuietNext \in Nat /\ ChargedNext \in BOOLEAN
           /\ QuietNext <= MaxNoProgress + 2 * DiagnosticBudget - 2
           /\ QuietNext <= StreakNext + 2 * UsedNext
<1> USE DEF RunControlAssumption
<1>0. /\ streak \in Nat /\ streak < MaxNoProgress
      /\ used \in Nat /\ used < DiagnosticBudget
      /\ quiet \in Nat /\ quiet <= streak + 2 * used
      /\ step.probes \in Nat /\ step.probes <= MaxBatch
      /\ step.new \in BOOLEAN /\ step.wait \in BOOLEAN /\ step.evidence \in BOOLEAN
      /\ blocker \in BOOLEAN /\ charged \in BOOLEAN
      /\ step.new /\ ~step.wait => step.probes > 0
  BY DEF Counters, AgentTyped, StepTyped
<1>1. StreakNext \in 0..MaxNoProgress
  BY <1>0 DEF StreakNext
<1>2. /\ UsedNext \in 0..(DiagnosticBudget + MaxBatch - 1)
      /\ ~BlockedNow => UsedNext < DiagnosticBudget
  BY <1>0 DEF UsedNext
<1>3. QuietNext \in Nat /\ QuietNext <= MaxNoProgress + 2 * DiagnosticBudget - 2
  BY <1>0 DEF QuietNext
<1>4. ChargedNext \in BOOLEAN
  BY <1>0 DEF ChargedNext
<1>5. QuietNext <= StreakNext + 2 * UsedNext
  <2>1. CASE BlockedNow /\ ~Progress /\ ~step.wait
    <3>1. QuietNext = quiet + 1 /\ UsedNext = used + step.probes
      BY <2>1 DEF QuietNext, UsedNext
    <3>2. CASE ~step.new
      BY <1>0, <2>1, <3>1, <3>2 DEF StreakNext
    <3>3. CASE step.new
      BY <1>0, <2>1, <3>1, <3>3 DEF StreakNext
    <3> QED BY <1>0, <3>2, <3>3
  <2>2. CASE ~(BlockedNow /\ ~Progress /\ ~step.wait)
    BY <1>1, <1>2, <2>2 DEF QuietNext
  <2> QED BY <2>1, <2>2
<1> QED BY <1>1, <1>2, <1>3, <1>4, <1>5

LEMMA CountersStep == RunControlAssumption /\ Counters /\ [Next]_vars => Counters'
<1> SUFFICES ASSUME RunControlAssumption, Counters, [Next]_vars
             PROVE  StepTyped' /\ RoundTyped' /\ AgentTyped'
  BY DEF Counters
<1>0. StepTyped /\ RoundTyped /\ AgentTyped
  BY DEF Counters
<1>1. CASE StartRound
  <2>1. StepTyped'
    BY <1>1 DEF StartRound, StepTyped, NoStep, RunControlAssumption
  <2>2. RoundTyped'
    BY <1>0, <1>1 DEF StartRound, RoundTyped, Phases, RunControlAssumption
  <2>3. AgentTyped'
    <3>1. blocker' \in BOOLEAN
      BY <1>0, <1>1 DEF StartRound, AgentTyped
    <3>2. calls' = calls /\ phase' = "model"
      BY <1>1 DEF StartRound
    <3>3. /\ iteration' = 1 /\ recoveries' = 0 /\ streak' = 0 /\ used' = 0
          /\ charged' = FALSE /\ seen' = {} /\ quiet' = 0
      BY <1>1 DEF StartRound
    <3> QED BY <1>0, <3>1, <3>2, <3>3, BoundsPositive DEF AgentTyped
  <2> QED BY <2>1, <2>2, <2>3
<1>2. CASE RequestFails
  <2>1. calls' \in 0..(MaxIterations + 1)
    BY <1>0, <1>2, CallsNextTyped DEF RequestFails, AgentTyped
  <2> QED BY <1>2, <2>1, RunFailsKeeps, AgentKeeps DEF RequestFails
<1>3. CASE RespondStop
  <2>1. RoundTyped' /\ phase' \in {"closed", "check", "closing"}
    BY <1>3, StopRoundKeeps DEF RespondStop
  <2> QED BY <1>3, <2>1, CallsNextTyped, AgentKeeps DEF RespondStop
<1>4. CASE RespondTruncated
  <2>1. StepTyped' /\ RoundTyped'
    BY <1>0, <1>4 DEF RespondTruncated, StepTyped, RoundTyped, loop
  <2>2. AgentTyped'
    BY <1>0, <1>4, CallsNextTyped DEF RespondTruncated, AgentTyped, RunControlAssumption
  <2> QED BY <2>1, <2>2
<1>5. CASE RespondCalls
  <2>1. PICK n \in 1..MaxBatch : step' = NewStep(n)
    BY <1>5 DEF RespondCalls
  <2>2. StepTyped'
    BY <1>0, <2>1 DEF StepTyped, NewStep, AgentTyped, RunControlAssumption
  <2>3. RoundTyped'
    BY <1>0, <1>5 DEF RespondCalls, RoundTyped, loop, Phases
  <2>4. AgentTyped'
    BY <1>0, <1>5, CallsNextTyped DEF RespondCalls, AgentTyped
  <2> QED BY <2>2, <2>3, <2>4
<1>6. CASE ToolFails
  <2>1. StepTyped'
    BY <1>0, <1>6 DEF ToolFails, StepTyped
  <2>2. RoundTyped' /\ AgentTyped'
    BY <1>0, <1>6 DEF ToolFails, RoundTyped, AgentTyped, loop
  <2> QED BY <2>1, <2>2
<1>7. ASSUME NEW key \in Keys, NEW active \in BOOLEAN,
             NEW update \in {"none", "evidence", "entry", "blocks", "clears"},
             ToolSucceeds(key, active, update)
      PROVE  StepTyped' /\ RoundTyped' /\ AgentTyped'
  <2>1. StepTyped'
    <3>1. step' = [step EXCEPT !.left = @ - 1,
                               !.wait = @ \/ active,
                               !.new = @ \/ key \notin seen,
                               !.probes = IF key \notin seen /\ ~active THEN @ + 1 ELSE @,
                               !.evidence = @ \/ update = "evidence",
                               !.grew = @ \/ update \in {"evidence", "entry"}]
          /\ step.left > 0
      BY <1>7 DEF ToolSucceeds
    <3> DEFINE new == key \notin seen
               evidence == update = "evidence"
               grew == update \in {"evidence", "entry"}
               probes == IF new /\ ~active THEN step.probes + 1 ELSE step.probes
    <3>2. /\ step.left \in Nat /\ step.probes \in Nat /\ step.left + step.probes <= MaxBatch
          /\ step.wait \in BOOLEAN /\ step.new \in BOOLEAN /\ step.evidence \in BOOLEAN
          /\ step.grew \in BOOLEAN
          /\ step.new /\ ~step.wait => step.probes > 0
      BY <1>0 DEF StepTyped
    <3>3. step' = [step EXCEPT !.left = step.left - 1, !.wait = step.wait \/ active,
                               !.new = step.new \/ new, !.probes = probes,
                               !.evidence = step.evidence \/ evidence,
                               !.grew = step.grew \/ grew]
      BY <3>1
    <3>4. /\ step.left - 1 \in Nat /\ probes \in Nat /\ step.left - 1 + probes <= MaxBatch
      BY <3>1, <3>2 DEF RunControlAssumption
    <3>5. (step.new \/ new) /\ ~(step.wait \/ active) => probes > 0
      BY <3>2
    <3>6. /\ (step.wait \/ active) \in BOOLEAN /\ (step.new \/ new) \in BOOLEAN
          /\ (step.evidence \/ evidence) \in BOOLEAN /\ (step.grew \/ grew) \in BOOLEAN
      OBVIOUS
    <3> HIDE DEF new, evidence, grew, probes
    <3> QED BY <1>0, <3>3, <3>4, <3>5, <3>6, StepUpdated
  <2>2. RoundTyped'
    BY <1>0, <1>7 DEF ToolSucceeds, RoundTyped, loop
  <2>3. blocker' \in BOOLEAN
    BY <1>0, <1>7 DEF ToolSucceeds, AgentTyped
  <2>4. AgentTyped'
    BY <1>0, <1>7, <2>3 DEF ToolSucceeds, AgentTyped
  <2> QED BY <2>1, <2>2, <2>4
<1>8. CASE EndIteration
  <2>0. phase = "tools"
    BY <1>8 DEF EndIteration
  <2>1. /\ StreakNext \in 0..MaxNoProgress
        /\ UsedNext \in 0..(DiagnosticBudget + MaxBatch - 1)
        /\ ~BlockedNow => UsedNext < DiagnosticBudget
        /\ QuietNext \in Nat /\ ChargedNext \in BOOLEAN
        /\ QuietNext <= MaxNoProgress + 2 * DiagnosticBudget - 2
        /\ QuietNext <= StreakNext + 2 * UsedNext
    BY <2>0, AccountKept
  <2>2. StepTyped'
    BY <1>8 DEF EndIteration, StepTyped, NoStep, RunControlAssumption
  <2>3. /\ used' = UsedNext /\ charged' = ChargedNext /\ streak' = StreakNext /\ quiet' = QuietNext
        /\ UNCHANGED <<calls, blocker, recoveries, seen, closedLoop>>
    BY <1>8 DEF EndIteration
  <2>4. CASE \E why : StopRound(why) /\ UNCHANGED iteration
    <3>1. RoundTyped' /\ phase' \in {"closed", "check", "closing"}
      BY <2>0, <2>3, <2>4, StopRoundKeeps
    <3>2. AgentTyped'
      BY <1>0, <2>1, <2>3, <2>4, <3>1 DEF AgentTyped
    <3> QED BY <2>2, <3>1, <3>2
  <2>5. CASE /\ ~(BlockedNow /\ UsedNext >= DiagnosticBudget)
             /\ StreakNext < MaxNoProgress
             /\ phase' = "model" /\ iteration' = IterationNext
             /\ UNCHANGED <<reason, loop>>
    <3>1. RoundTyped'
      BY <1>0, <2>0, <2>3, <2>5 DEF RoundTyped, loop, Phases
    <3>2. used' < DiagnosticBudget
      BY <2>1, <2>3, <2>5 DEF RunControlAssumption
    <3>3. iteration' \in 0..MaxIterations
      BY <1>0, <2>0, <2>5 DEF AgentTyped, IterationNext, RunControlAssumption
    <3>4. AgentTyped'
      BY <1>0, <2>1, <2>3, <2>5, <3>2, <3>3 DEF AgentTyped
    <3> QED BY <2>2, <3>1, <3>4
  <2> QED BY <1>8, <2>4, <2>5 DEF EndIteration
<1>9. CASE CheckDelivery
  <2>1. PICK c \in Checks :
           /\ last' = c
           /\ \/ phase' = "closing" /\ UNCHANGED repeats
              \/ /\ repeats' = RepeatsNext(c)
                 /\ \/ phase' = "closing"
                    \/ /\ RepeatsNext(c) < Patience
                       /\ phase' = IF round = MaxRounds THEN "closing" ELSE "round"
    BY <1>9 DEF CheckDelivery
  <2>2. c.repairable \in Signatures \cup {None} /\ c.round = round
    BY DEF Checks
  <2>3. RepeatsNext(c) \in 0..Patience
    BY <1>0, <1>9 DEF CheckDelivery, RoundTyped, RepeatsNext, RunControlAssumption
  <2>4. /\ phase' \in {"closing", "round"} /\ repeats' \in 0..Patience
        /\ phase' = "round" => round < MaxRounds /\ repeats' < Patience
    BY <1>0, <2>1, <2>3 DEF RoundTyped, RunControlAssumption
  <2>5. UNCHANGED <<closedLoop, calls, blocker, round, agent>>
    BY <1>9 DEF CheckDelivery
  <2>6. RoundTyped'
    BY <1>0, <2>1, <2>2, <2>4, <2>5 DEF RoundTyped, Phases
  <2>7. calls' \in 0..(MaxIterations + 1) /\ phase' \notin {"model", "tools"}
    BY <1>0, <2>4, <2>5 DEF AgentTyped
  <2> QED BY <2>5, <2>6, <2>7, AgentKeeps
<1>10. CASE CloseLoop \/ Leave \/ WallTime
  <2>1. /\ phase' \in {"closed", "done"}
        /\ UNCHANGED <<closedLoop, calls, blocker, agent, loop>>
    BY <1>10 DEF CloseLoop, Leave, WallTime
  <2>2. RoundTyped'
    BY <1>0, <2>1 DEF RoundTyped, loop, Phases
  <2>3. calls' \in 0..(MaxIterations + 1)
    BY <1>0, <2>1 DEF AgentTyped
  <2> QED BY <2>1, <2>2, <2>3, AgentKeeps
<1>11. CASE UNCHANGED vars
  BY <1>0, <1>11 DEF vars, agent, loop, StepTyped, RoundTyped, AgentTyped
<1> QED BY <1>1, <1>2, <1>3, <1>4, <1>5, <1>6, <1>7, <1>8, <1>9, <1>10, <1>11
        DEF Next, Run, Agent, Tool

-----------------------------------------------------------------------------
(* The verdict.                                                             *)

Exhausted == [status |-> "WALL_TIME_EXHAUSTED", delivery |-> "UNKNOWN"]
Entry == [status |-> status, delivery |-> last.delivery]

\* What the journal of a run that was not cut off says.
Closing == journal = IF closedLoop THEN <<Entry>> ELSE <<>>

\* A loop that ended with its delivery checked was checked in its last round,
\* after a final answer, and with nothing left to repair.
Checked ==
    status \in {"DELIVERY_COMPLETE", "NEEDS_EVIDENCE"} =>
        reason = "final_response" /\ last.round = round /\ last.repairable = None

Verdict ==
    /\ status \in Statuses
    /\ phase \in {"round", "model", "tools", "check"} => status = "ROUND_LIMIT"
    /\ phase \in {"check", "closing"} => closedLoop
    /\ phase = "check" => reason = "final_response"
    /\ Checked
    /\ phase \notin {"closed", "done"} => journal = <<>>
    /\ phase = "closed" \/ (phase = "done" /\ ~expired) => Closing
    /\ phase \notin {"closed", "done"} => ~expired
    /\ phase = "closed" => ~expired
    /\ expired => journal = <<Exhausted>> \/ journal = <<Entry, Exhausted>>

LEMMA TupleLengths ==
    /\ \A a : Len(<<a>>) = 1
    /\ \A a, b : Len(<<a, b>>) = 2 /\ <<a, b>>[2] = b
    /\ \A a, b : Append(<<a>>, b) = <<a, b>>
    /\ \A b : Append(<<>>, b) = <<b>>
<1>1. \A a : Len(<<a>>) = 1
  OBVIOUS
<1>2. \A a, b : Len(<<a, b>>) = 2 /\ <<a, b>>[2] = b
  OBVIOUS
<1>3. ASSUME NEW a, NEW b
      PROVE  Append(<<a>>, b) = <<a, b>>
  <2> DEFINE S == {a, b}
             t == Append(<<a>>, b)
             u == <<a, b>>
  <2>1. <<a>> \in Seq(S) /\ a \in S /\ b \in S /\ Len(<<a>>) = 1 /\ <<a>>[1] = a
    OBVIOUS
  <2>2. u \in Seq(S) /\ Len(u) = 2 /\ u[1] = a /\ u[2] = b
    OBVIOUS
  <2>3. t \in Seq(S) /\ Len(t) = 2 /\ t[1] = a /\ t[2] = b
    BY <2>1, AppendProperties
  <2> HIDE DEF S, t, u
  <2>4. t = u
    BY <2>2, <2>3, SeqEqual
  <2> QED BY <2>4 DEF t, u
<1>4. \A b : Append(<<>>, b) = <<b>>
  OBVIOUS
<1> QED BY <1>1, <1>2, <1>3, <1>4

LEMMA VerdictInit == Init => Verdict
BY DEF Init, Verdict, Checked, Statuses, NoCheck

\* Before the loop closes nothing was recorded.
LEMMA OpenRounds ==
    ASSUME Verdict, phase \in {"round", "model", "tools", "check"},
           phase' \in {"round", "model", "tools", "check"},
           UNCHANGED <<closedLoop, journal, expired, status>>,
           phase' = "check" => closedLoop /\ reason' = "final_response"
    PROVE  Verdict'
BY DEF Verdict, Checked, Statuses

LEMMA StopRoundVerdict ==
    ASSUME Verdict, NEW why, StopRound(why), phase \in {"model", "tools"},
           UNCHANGED <<closedLoop, journal, expired>>
    PROVE  Verdict'
<1>1. journal = <<>> /\ ~expired /\ status = "ROUND_LIMIT"
  BY DEF Verdict
<1>2. CASE ~closedLoop
  BY <1>1, <1>2 DEF StopRound, Verdict, Checked, Closing, Statuses
<1>3. CASE closedLoop /\ why = "final_response"
  BY <1>1, <1>3 DEF StopRound, Verdict, Checked, Statuses
<1>4. CASE closedLoop /\ why # "final_response"
  BY <1>1, <1>4 DEF StopRound, Verdict, Checked, Statuses
<1> QED BY <1>2, <1>3, <1>4

LEMMA VerdictStep == Verdict /\ [Next]_vars => Verdict'
<1> SUFFICES ASSUME Verdict, [Next]_vars
             PROVE  Verdict'
  OBVIOUS
<1>1. CASE StartRound
  BY <1>1, OpenRounds DEF StartRound
<1>2. CASE RequestFails
  BY <1>2 DEF RequestFails, RunFails, loop, Verdict, Checked
<1>3. CASE RespondStop
  BY <1>3, StopRoundVerdict DEF RespondStop
<1>4. CASE RespondTruncated
  BY <1>4, OpenRounds DEF RespondTruncated, loop
<1>5. CASE RespondCalls
  BY <1>5, OpenRounds DEF RespondCalls, loop
<1>6. CASE Tool
  <2>1. /\ phase = "tools" /\ phase' = phase
        /\ UNCHANGED <<closedLoop, journal, expired, status, reason>>
    BY <1>6 DEF Tool, ToolFails, ToolSucceeds, loop
  <2> QED BY <2>1, OpenRounds
<1>7. CASE EndIteration
  <2>1. phase = "tools" /\ UNCHANGED <<closedLoop, journal, expired>>
    BY <1>7 DEF EndIteration
  <2>2. CASE phase' = "model" /\ UNCHANGED loop
    BY <2>1, <2>2, OpenRounds DEF loop
  <2>3. CASE \E why : StopRound(why)
    BY <2>1, <2>3, StopRoundVerdict
  <2> QED BY <1>7, <2>2, <2>3 DEF EndIteration
<1>8. CASE CheckDelivery
  <2>1. /\ phase = "check" /\ journal = <<>> /\ ~expired /\ closedLoop
        /\ reason = "final_response" /\ status = "ROUND_LIMIT"
        /\ UNCHANGED <<closedLoop, reason, journal, expired, round>>
    BY <1>8 DEF CheckDelivery, Verdict
  <2>2. PICK c \in Checks :
           /\ last' = c
           /\ \/ /\ c.repairable = None /\ phase' = "closing"
                 /\ status' \in {"NEEDS_EVIDENCE", "DELIVERY_COMPLETE"}
              \/ status' = "STALLED" /\ phase' = "closing"
              \/ status' = status /\ phase' \in {"closing", "round"}
    BY <1>8 DEF CheckDelivery
  <2>3. c.round = round
    BY DEF Checks
  <2> QED BY <2>1, <2>2, <2>3 DEF Verdict, Checked, Statuses
<1>9. CASE CloseLoop
  <2>1. journal = <<>> /\ ~expired /\ closedLoop
    BY <1>9 DEF CloseLoop, Verdict
  <2>2. journal' = <<Entry>> /\ Entry' = Entry
    BY <1>9, <2>1 DEF CloseLoop, Entry, loop
  <2> QED BY <1>9, <2>1, <2>2 DEF CloseLoop, Verdict, Checked, Closing, loop
<1>10. CASE Leave
  <2>1. Entry' = Entry
    BY <1>10 DEF Leave, Entry, loop
  <2> QED BY <1>10, <2>1 DEF Leave, Verdict, Checked, Closing, loop
<1>11. CASE WallTime
  <2>1. journal = <<>> \/ journal = <<Entry>>
    BY <1>11 DEF WallTime, Verdict, Closing
  <2>2. Entry' = Entry /\ Exhausted' = Exhausted
    BY <1>11 DEF WallTime, Entry, Exhausted, loop
  <2>3. journal' = <<Exhausted>> \/ journal' = <<Entry, Exhausted>>
    <3>1. journal' = Append(journal, Exhausted)
      BY <1>11 DEF WallTime, Exhausted
    <3>2. CASE journal = <<>>
      BY <3>1, <3>2, TupleLengths
    <3>3. CASE journal = <<Entry>>
      BY <3>1, <3>3, TupleLengths
    <3> QED BY <2>1, <3>2, <3>3
  <2> QED BY <1>11, <2>2, <2>3 DEF WallTime, Verdict, Checked, loop
<1>12. CASE UNCHANGED vars
  BY <1>12 DEF vars, loop, Verdict, Checked, Closing, Entry, Exhausted
<1> QED BY <1>1, <1>2, <1>3, <1>4, <1>5, <1>6, <1>7, <1>8, <1>9, <1>10, <1>11, <1>12
        DEF Next, Run, Agent

-----------------------------------------------------------------------------

ControlInv == Counters /\ Verdict

LEMMA ControlInvariant == Spec => []ControlInv
<1> USE RunControlAssumption
<1>1. Init => ControlInv
  BY CountersInit, VerdictInit DEF ControlInv
<1>2. ControlInv /\ [Next]_vars => ControlInv'
  BY CountersStep, VerdictStep DEF ControlInv
<1> QED BY <1>1, <1>2, PTL DEF Spec

LEMMA JournalLength ==
    ASSUME Counters, Verdict
    PROVE  Len(journal) <= 2
<1>1. \/ journal = <<>> \/ journal = <<Entry>> \/ journal = <<Exhausted>>
      \/ journal = <<Entry, Exhausted>>
  BY DEF Verdict, Closing
<1>2. CASE journal = <<>>
  BY <1>2
<1>3. CASE journal = <<Entry>> \/ journal = <<Exhausted>>
  <2>1. \E a : journal = <<a>>
    BY <1>3
  <2> QED BY <2>1, TupleLengths
<1>4. CASE journal = <<Entry, Exhausted>>
  <2>1. \E a, b : journal = <<a, b>>
    BY <1>4
  <2> QED BY <2>1, TupleLengths
<1> QED BY <1>1, <1>2, <1>3, <1>4

LEMMA CountersTyped == ControlInv => TypeOK
BY JournalLength DEF ControlInv, Counters, StepTyped, RoundTyped, AgentTyped, TypeOK, Phases

(* Every counter keeps within the bound the code puts on it.                  *)
THEOREM TypeCorrect == Spec => []TypeOK
BY ControlInvariant, CountersTyped, PTL

(* A blocked workflow is explored for at most MaxNoProgress + 2 *              *)
(* DiagnosticBudget - 2 iterations in a row, however new and repeated        *)
(* observations alternate.                                                   *)
THEOREM BlockedRunIsBounded == Spec => []BlockedRunBounded
<1>1. ControlInv => BlockedRunBounded
  BY CountersTyped DEF ControlInv, Counters, AgentTyped, BlockedRunBounded
<1> QED BY <1>1, ControlInvariant, PTL

(* A run is a success only if its last round ended in a final answer within    *)
(* the time limit and the check of that very answer found nothing to repair. *)
THEOREM SuccessIsDelivered == Spec => []SucceededMeansDelivered
<1>1. ControlInv => SucceededMeansDelivered
  <2> SUFFICES ASSUME Verdict, phase = "done", Outcome = "SUCCEEDED"
               PROVE  /\ ~expired /\ reason = "final_response"
                      /\ closedLoop => /\ last.round = round /\ last.delivery = "PASS"
                                       /\ last.repairable = None
    BY DEF ControlInv, SucceededMeansDelivered
  <2>1. ~expired
    <3> SUFFICES ASSUME expired
                 PROVE  FALSE
      OBVIOUS
    <3>1. journal # <<>> /\ journal[Len(journal)] = Exhausted
      BY DEF Verdict
    <3>2. Outcome = "PARTIAL"
      BY <3>1 DEF Outcome, Exhausted
    <3> QED BY <3>2
  <2>2. Closing
    BY <2>1 DEF Verdict
  <2>3. CASE closedLoop
    <3>1. journal # <<>> /\ journal[Len(journal)] = Entry
      BY <2>2, <2>3 DEF Closing
    <3>2. status \in {"DELIVERY_COMPLETE", "NEEDS_EVIDENCE"} /\ last.delivery = "PASS"
      BY <3>1 DEF Outcome, Entry
    <3> QED BY <2>1, <3>2 DEF Verdict, Checked
  <2>4. CASE ~closedLoop
    BY <2>1, <2>2, <2>4 DEF Closing, Outcome
  <2> QED BY <2>3, <2>4
<1> QED BY <1>1, ControlInvariant, PTL
=============================================================================
