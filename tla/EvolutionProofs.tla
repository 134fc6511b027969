---------------------------- MODULE EvolutionProofs ----------------------------
(***************************************************************************)
(* Theorems about EvolutionEvents for every set of events, coordinators,   *)
(* genomes and costs and every budget: a trial is executed at most once, a *)
(* live trial is left alone, a batch is asked for at most once, the archive *)
(* is given nothing on credit, its cells only improve, and a recovery      *)
(* brings back what earlier runs had found.                                *)
(***************************************************************************)
EXTENDS EvolutionEvents, TLAPS

-----------------------------------------------------------------------------
(* Who executes what.                                                       *)

LedgerShape == DOMAIN ops = Events /\ \A e \in Events : DOMAIN ops[e] = Operations
TrialShape == DOMAIN trials = Events /\ \A e \in Events : DOMAIN trials[e] = Genomes

Tables ==
    /\ LedgerShape
    /\ TrialShape
    /\ lease \in [Events -> [Genomes -> Coordinators \cup {Nobody}]]
    /\ executed \in [Events -> [Genomes -> Nat]]
    /\ proposed \in [Events -> [Batches -> Nat]]

Locals ==
    /\ DOMAIN pc = Coordinators
    /\ event \in [Coordinators -> Events \cup {Nobody}]
    /\ genome \in [Coordinators -> Genomes]
    /\ DOMAIN batch = Coordinators

Resting == {"idle", "ended"}
Leased == {"leased", "executing"}

\* A coordinator at work has an event, and in Leased the lease of its trial.
Holds(c) ==
    /\ pc[c] \notin Resting => event[c] \in Events
    /\ pc[c] \in Leased => lease[event[c]][genome[c]] = c
    /\ pc[c] = "executing" => Trial(c).status = "RUNNING"

\* A trial that was executed is past RESERVED.
Spent(e, g) ==
    /\ executed[e][g] <= 1
    /\ executed[e][g] = 1 => trials[e][g].status \notin {"none", "RESERVED"}

LeaseInv ==
    /\ Tables
    /\ Locals
    /\ \A c \in Coordinators : Holds(c)
    /\ \A e \in Events : \A g \in Genomes : Spent(e, g)

-----------------------------------------------------------------------------
(* What a step of a coordinator may do to leases and trials.                *)

\* The others keep their place and their leases.
LocalStep(c) ==
    /\ \A d \in Coordinators \ {c} :
          pc'[d] = pc[d] /\ event'[d] = event[d] /\ genome'[d] = genome[d]
    /\ \A e \in Events : \A g \in Genomes : \A d \in Coordinators \ {c} :
          lease[e][g] = d => lease'[e][g] = d

\* A running trial is touched by the holder of its lease only, and executed is
\* counted by the step that ends RESERVED.
TrialStep(c, e, g) ==
    LET old == trials[e][g].status
        new == trials'[e][g].status IN
    \/ new = old /\ executed'[e][g] = executed[e][g]
    \/ old = "none" /\ new = "RESERVED" /\ executed'[e][g] = executed[e][g]
    \/ old = "COLLECTED" /\ new = "VALIDATED" /\ executed'[e][g] = executed[e][g]
    \/ /\ old = "RESERVED" /\ new = "RUNNING" /\ executed'[e][g] = executed[e][g] + 1
       /\ lease[e][g] = c
    \/ /\ old = "RUNNING" /\ new \notin {"none", "RESERVED"}
       /\ executed'[e][g] = executed[e][g]
       /\ lease[e][g] = c

Leads(c) == Tables' /\ Locals' /\ LocalStep(c) /\ Holds(c)'
            /\ \A e \in Events : \A g \in Genomes : TrialStep(c, e, g)

LEMMA LeadsOn ==
    ASSUME LeaseInv, NEW c \in Coordinators, Leads(c)
    PROVE  LeaseInv'
<1>1. ASSUME NEW d \in Coordinators, d # c
      PROVE  Holds(d)'
  <2>1. pc'[d] = pc[d] /\ event'[d] = event[d] /\ genome'[d] = genome[d] /\ genome[d] \in Genomes
    BY <1>1 DEF Leads, LocalStep, LeaseInv, Locals
  <2>2. pc[d] \notin Resting => event[d] \in Events
    BY DEF LeaseInv, Holds
  <2>3. ASSUME pc[d] \in Leased
        PROVE  lease[event[d]][genome[d]] = d /\ lease'[event[d]][genome[d]] = d
    <3>1. event[d] \in Events
      BY <2>2, <2>3 DEF Leased, Resting
    <3>2. lease[event[d]][genome[d]] = d
      BY <2>3 DEF LeaseInv, Holds
    <3> QED BY <1>1, <2>1, <3>1, <3>2 DEF Leads, LocalStep
  <2>4. ASSUME pc[d] = "executing"
        PROVE  trials'[event[d]][genome[d]].status = "RUNNING"
    <3>1. event[d] \in Events /\ lease[event[d]][genome[d]] = d
      BY <2>2, <2>3, <2>4 DEF Leased, Resting
    <3>2. trials[event[d]][genome[d]].status = "RUNNING"
      BY <2>4 DEF LeaseInv, Holds, Trial
    <3>3. TrialStep(c, event[d], genome[d])
      BY <2>1, <3>1 DEF Leads
    <3> QED BY <1>1, <3>1, <3>2, <3>3 DEF TrialStep
  <2> QED BY <2>1, <2>2, <2>3, <2>4 DEF Holds, Trial
<1>2. ASSUME NEW e \in Events, NEW g \in Genomes
      PROVE  Spent(e, g)'
  <2>1. TrialStep(c, e, g) /\ Spent(e, g)
    BY DEF Leads, LeaseInv
  <2>2. executed[e][g] \in Nat
    BY DEF LeaseInv, Tables
  <2> QED BY <2>1, <2>2, SMT DEF TrialStep, Spent
<1> QED BY <1>1, <1>2 DEF Leads, LeaseInv

LEMMA LeaseInit == Init => LeaseInv
<1> SUFFICES ASSUME Init
             PROVE  LeaseInv
  OBVIOUS
<1>1. Tables
  BY DEF Init, Tables, LedgerShape, TrialShape, Operations, Genomes
<1>2. Locals
  BY DEF Init, Locals, Genomes
<1>3. \A c \in Coordinators : Holds(c)
  BY DEF Init, Holds, Resting, Leased
<1>4. \A e \in Events : \A g \in Genomes : Spent(e, g)
  BY DEF Init, Spent
<1> QED BY <1>1, <1>2, <1>3, <1>4 DEF LeaseInv

-----------------------------------------------------------------------------
(* Building blocks: what leaves a coordinator outside of Leased.            *)

Aside(c) ==
    /\ Locals' /\ LocalStep(c) /\ Holds(c)'
    /\ lease' \in [Events -> [Genomes -> Coordinators \cup {Nobody}]]

LEMMA ReleaseKeeps ==
    ASSUME LeaseInv, NEW c \in Coordinators, Release(c)
    PROVE  /\ lease' \in [Events -> [Genomes -> Coordinators \cup {Nobody}]]
           /\ \A e \in Events : \A g \in Genomes : \A d \in Coordinators \ {c} :
                 lease[e][g] = d => lease'[e][g] = d
BY DEF LeaseInv, Tables, Release

LEMMA GoneKeeps ==
    ASSUME LeaseInv, NEW c \in Coordinators, NEW p \in Resting, Goto(c, p), Gone(c)
    PROVE  Aside(c)
<1>1. Locals'
  BY DEF LeaseInv, Locals, Goto, Gone, Genomes
<1>2. LocalStep(c)
  BY ReleaseKeeps DEF LocalStep, LeaseInv, Locals, Goto, Gone
<1>3. Holds(c)'
  BY DEF Holds, LeaseInv, Locals, Goto, Resting, Leased
<1> QED BY <1>1, <1>2, <1>3, ReleaseKeeps DEF Aside, Gone

LEMMA EndKeeps ==
    ASSUME LeaseInv, NEW c \in Coordinators, NEW outcome, End(c, outcome)
    PROVE  Aside(c)
BY GoneKeeps DEF End, Resting

LEMMA DieKeeps ==
    ASSUME LeaseInv, NEW c \in Coordinators, Die(c)
    PROVE  Aside(c)
BY GoneKeeps DEF Die, Resting

\* A step to p, perhaps to another genome or batch.
LEMMA MoveKeeps ==
    ASSUME LeaseInv, NEW c \in Coordinators, pc[c] \notin Resting,
           NEW p, p \notin Leased, Goto(c, p), UNCHANGED <<lease, event>>,
           genome' \in [Coordinators -> Genomes],
           \A d \in Coordinators \ {c} : genome'[d] = genome[d],
           DOMAIN batch' = Coordinators
    PROVE  Aside(c)
<1>1. Locals'
  BY DEF LeaseInv, Locals, Goto
<1>2. LocalStep(c)
  BY DEF LocalStep, LeaseInv, Locals, Goto
<1>3. Holds(c)'
  BY DEF Holds, LeaseInv, Locals, Goto, Leased
<1> QED BY <1>1, <1>2, <1>3 DEF Aside, LeaseInv, Tables

LEMMA WalkKeeps ==
    ASSUME LeaseInv, NEW c \in Coordinators, pc[c] \notin Resting,
           NEW p, p \notin Leased, Goto(c, p), Stay
    PROVE  Aside(c)
BY MoveKeeps DEF Stay, place, LeaseInv, Locals

LEMMA SkipKeeps ==
    ASSUME LeaseInv, NEW c \in Coordinators, pc[c] \notin Leased,
           UNCHANGED <<pc, lease, event, genome, batch>>
    PROVE  Aside(c)
BY DEF Aside, LocalStep, LeaseInv, Tables, Locals, Holds, Leased

LEMMA FinishKeeps ==
    ASSUME LeaseInv, NEW c \in Coordinators, pc[c] \notin Resting,
           NEW accepted, Finish(c, accepted)
    PROVE  Aside(c)
<1>1. Locals'
  BY DEF LeaseInv, Locals, Goto, Finish
<1>2. LocalStep(c)
  BY ReleaseKeeps DEF LocalStep, LeaseInv, Locals, Goto, Finish
<1>3. Holds(c)'
  BY DEF Holds, LeaseInv, Locals, Goto, Finish, Leased
<1> QED BY <1>1, <1>2, <1>3, ReleaseKeeps DEF Aside, Finish

\* A counter outside of the table is not counted.
LEMMA CountKeeps ==
    ASSUME NEW S, NEW T, NEW f \in [S -> [T -> Nat]], NEW e, NEW b
    PROVE  [f EXCEPT ![e][b] = @ + 1] \in [S -> [T -> Nat]]
<1>1. CASE e \in S
  <2>1. f[e] \in [T -> Nat]
    BY <1>1
  <2>2. [f[e] EXCEPT ![b] = f[e][b] + 1] \in [T -> Nat]
    <3>1. CASE b \in T
      <4>1. f[e][b] + 1 \in Nat
        BY <2>1, <3>1
      <4> QED BY <2>1, <4>1
    <3>2. CASE b \notin T
      BY <2>1, <3>2
    <3> QED BY <3>1, <3>2
  <2> QED BY <2>2
<1>2. CASE e \notin S
  BY <1>2
<1> QED BY <1>1, <1>2

LEMMA SettleShape ==
    ASSUME LedgerShape, NEW e, NEW o, NEW used, Settle(e, o, used)
    PROVE  LedgerShape'
BY DEF LedgerShape, Settle

\* Steps that leave the trials alone.
LEMMA AsideLeads ==
    ASSUME LeaseInv, NEW c \in Coordinators, Aside(c), LedgerShape',
           UNCHANGED <<trials, executed>>, proposed' \in [Events -> [Batches -> Nat]]
    PROVE  LeaseInv'
<1>1. Tables'
  BY DEF LeaseInv, Tables, TrialShape, Aside
<1>2. \A e \in Events : \A g \in Genomes : TrialStep(c, e, g)
  BY DEF TrialStep
<1> QED BY <1>1, <1>2, LeadsOn DEF Leads, Aside

\* Steps that leave trials and ledger alone.
LEMMA PlainLeads ==
    ASSUME LeaseInv, NEW c \in Coordinators, Aside(c),
           UNCHANGED <<ops, trials, executed, proposed>>
    PROVE  LeaseInv'
BY AsideLeads DEF LeaseInv, Tables, LedgerShape

LEMMA RecoveryLeads ==
    ASSUME LeaseInv, NEW c \in Coordinators,
           \/ RecoverArchive(c) \/ RecoverTrials(c) \/ Recover(c) \/ Recovered(c)
           \/ Entries(c) \/ Seen(c) \/ Round(c)
    PROVE  LeaseInv'
<1> USE DEF At, Resting, Leased
<1>1. CASE RecoverArchive(c)
  BY <1>1, WalkKeeps, PlainLeads DEF RecoverArchive, Reads, files, Leave, history
<1>2. CASE RecoverTrials(c)
  BY <1>2, WalkKeeps, PlainLeads DEF RecoverTrials, Reads, files, Leave, history
<1>3. CASE Recover(c)
  <2>1. UNCHANGED <<trials, executed, proposed>>
    BY <1>3 DEF Recover, Leave, history
  <2>2. CASE mem[c].left = {} /\ Goto(c, "entries") /\ UNCHANGED <<ops, mem>> /\ Stay
    BY <1>3, <2>1, <2>2, WalkKeeps, PlainLeads DEF Recover
  <2>3. CASE \E outcome : End(c, outcome) /\ UNCHANGED ops
    BY <2>1, <2>3, EndKeeps, PlainLeads
  <2>4. ASSUME NEW g \in Genomes, NEW used, Settle(event[c], g, used),
               genome' = [genome EXCEPT ![c] = g],
               NEW p \in {"consider", "recovered"}, Goto(c, p),
               UNCHANGED <<lease, event, batch, beside>>
        PROVE  LeaseInv'
    <3>1. LedgerShape'
      BY <2>4, SettleShape DEF LeaseInv, Tables
    <3>2. Aside(c)
      BY <1>3, <2>4, MoveKeeps DEF Recover, LeaseInv, Locals
    <3> QED BY <2>1, <3>1, <3>2, AsideLeads DEF LeaseInv, Tables
  <2> QED BY <1>3, <2>2, <2>3, <2>4 DEF Recover
<1>4. CASE Recovered(c)
  BY <1>4, WalkKeeps, EndKeeps, PlainLeads DEF Recovered, files, Leave, history
<1>5. CASE Entries(c)
  <2>1. UNCHANGED <<ops, trials, executed, proposed, lease, event, batch>>
    BY <1>5 DEF Entries, files, history
  <2>2. /\ genome' \in [Coordinators -> Genomes]
        /\ \A d \in Coordinators \ {c} : genome'[d] = genome[d]
    BY <1>5 DEF Entries, LeaseInv, Locals, Genomes
  <2>3. Goto(c, "trial") \/ Goto(c, "seen")
    BY <1>5 DEF Entries
  <2>4. Aside(c)
    BY <1>5, <2>1, <2>2, <2>3, MoveKeeps DEF Entries, LeaseInv, Locals
  <2> QED BY <2>1, <2>4, PlainLeads
<1>6. CASE Seen(c)
  BY <1>6, WalkKeeps, PlainLeads DEF Seen, Reads, files, Leave, history
<1>7. CASE Round(c)
  BY <1>7, WalkKeeps, EndKeeps, PlainLeads DEF Round, files, Leave, history
<1> QED BY <1>1, <1>2, <1>3, <1>4, <1>5, <1>6, <1>7

LEMMA RemainingLeads ==
    ASSUME LeaseInv, NEW c \in Coordinators, NEW here, NEW next, here \notin Resting,
           next \notin Leased, Remaining(c, here, next)
    PROVE  LeaseInv'
BY WalkKeeps, EndKeeps, PlainLeads DEF Remaining, At, files, Leave, history

LEMMA ReserveLeads ==
    ASSUME LeaseInv, NEW c \in Coordinators, NEW here, NEW o, NEW next, here \notin Resting,
           next \notin Leased, ReserveWithCap(c, here, o, next)
    PROVE  LeaseInv'
<1>1. LedgerShape'
  BY DEF ReserveWithCap, LeaseInv, Tables, LedgerShape
<1>2. Aside(c)
  BY WalkKeeps, EndKeeps DEF ReserveWithCap, At
<1> QED BY <1>1, <1>2, AsideLeads DEF ReserveWithCap, Leave, history, LeaseInv, Tables

LEMMA BatchLeads ==
    ASSUME LeaseInv, NEW c \in Coordinators,
           \/ BatchOperation(c) \/ BatchStored(c) \/ BatchRemaining(c) \/ BatchReserve(c)
           \/ Parents(c) \/ Begin(c) \/ MarkUsed(c) \/ MarkRevision(c) \/ MarkCommit(c)
           \/ Proposed(c) \/ SaveBatch(c) \/ SettleBatch(c) \/ Proposals(c) \/ Proposal(c)
    PROVE  LeaseInv'
<1> USE DEF At, Resting, Leased
<1>1. CASE BatchOperation(c)
  BY <1>1, WalkKeeps, PlainLeads DEF BatchOperation, Reads, files, Leave, history
<1>2. CASE BatchStored(c)
  <2>1. Aside(c)
    BY <1>2, WalkKeeps, EndKeeps DEF BatchStored
  <2>2. LedgerShape'
    BY <1>2, SettleShape DEF BatchStored, LeaseInv, Tables, LedgerShape
  <2> QED BY <1>2, <2>1, <2>2, AsideLeads DEF BatchStored, Leave, history, LeaseInv, Tables
<1>3. CASE BatchRemaining(c)
  BY <1>3, RemainingLeads DEF BatchRemaining
<1>4. CASE BatchReserve(c)
  BY <1>4, ReserveLeads DEF BatchReserve
<1>5. CASE Parents(c)
  BY <1>5, WalkKeeps, PlainLeads DEF Parents, Reads, files, Leave, history
<1>6. CASE Begin(c)
  <2>1. Aside(c)
    BY <1>6, WalkKeeps, EndKeeps DEF Begin
  <2>2. LedgerShape'
    BY <1>6 DEF Begin, LeaseInv, Tables, LedgerShape
  <2> QED BY <1>6, <2>1, <2>2, AsideLeads DEF Begin, Leave, history, LeaseInv, Tables
<1>7. CASE MarkUsed(c)
  <2>1. Stay /\ UNCHANGED <<ops, trials, executed>>
    BY <1>7 DEF MarkUsed, files, place, Stay
  <2>2. Aside(c)
    BY <1>7, <2>1, WalkKeeps DEF MarkUsed
  <2>3. proposed' \in [Events -> [Batches -> Nat]]
    <3>1. proposed \in [Events -> [Batches -> Nat]]
      BY DEF LeaseInv, Tables
    <3>2. [proposed EXCEPT ![event[c]][batch[c]] = @ + 1] \in [Events -> [Batches -> Nat]]
      BY <3>1, CountKeeps, Zenon
    <3>3. \/ proposed' = proposed
          \/ proposed' = [proposed EXCEPT ![event[c]][batch[c]] = @ + 1]
      BY <1>7, Zenon DEF MarkUsed
    <3> QED BY <3>1, <3>2, <3>3, Zenon
  <2> QED BY <2>1, <2>2, <2>3, AsideLeads DEF LeaseInv, Tables, LedgerShape
<1>8. CASE MarkRevision(c)
  BY <1>8, WalkKeeps, PlainLeads DEF MarkRevision, Reads, files, Leave, history
<1>9. CASE MarkCommit(c)
  BY <1>9, WalkKeeps, DieKeeps, PlainLeads DEF MarkCommit, Leave, history
<1>10. CASE Proposed(c)
  BY <1>10, WalkKeeps, EndKeeps, PlainLeads DEF Proposed, files, Leave, history
<1>11. CASE SaveBatch(c)
  BY <1>11, WalkKeeps, PlainLeads DEF SaveBatch, Leave, history
<1>12. CASE SettleBatch(c)
  <2>1. Aside(c)
    BY <1>12, WalkKeeps, EndKeeps DEF SettleBatch
  <2>2. LedgerShape'
    BY <1>12, SettleShape DEF SettleBatch, LeaseInv, Tables, LedgerShape
  <2> QED BY <1>12, <2>1, <2>2, AsideLeads DEF SettleBatch, Leave, history, LeaseInv, Tables
<1>13. CASE Proposals(c)
  BY <1>13, WalkKeeps, EndKeeps, PlainLeads DEF Proposals, files, Leave, history
<1>14. CASE Proposal(c)
  <2>1. UNCHANGED <<ops, trials, executed, proposed>> /\ pc[c] = "proposal"
    BY <1>14 DEF Proposal, files, Leave, history
  <2>2. CASE \E outcome : End(c, outcome)
    BY <2>1, <2>2, EndKeeps, PlainLeads
  <2>3. ASSUME NEW p \in {"round", "trial"}, Goto(c, p), UNCHANGED <<lease, event>>,
               genome' = genome \/ \E g \in Genomes : genome' = [genome EXCEPT ![c] = g],
               batch' = batch \/ DOMAIN batch' = DOMAIN batch
        PROVE  LeaseInv'
    <3>1. Aside(c)
      BY <2>1, <2>3, MoveKeeps DEF LeaseInv, Locals
    <3> QED BY <2>1, <3>1, PlainLeads
  <2>4. CASE UNCHANGED <<pc, lease, event, genome, batch>>
    BY <2>1, <2>4, SkipKeeps, PlainLeads
  <2>5. \/ End(c, "CANCELLED")
        \/ Goto(c, "round") /\ UNCHANGED <<lease, event, genome>> /\ DOMAIN batch' = DOMAIN batch
        \/ UNCHANGED <<pc, lease, event, genome, batch>>
        \/ /\ Goto(c, "trial")
           /\ UNCHANGED <<lease, event, batch>>
           /\ \E g \in Genomes : genome' = [genome EXCEPT ![c] = g]
    BY <1>14 DEF Proposal
  <2> QED BY <2>2, <2>3, <2>4, <2>5
<1> QED BY <1>1, <1>2, <1>3, <1>4, <1>5, <1>6, <1>7, <1>8, <1>9, <1>10, <1>11, <1>12, <1>13, <1>14

LEMMA BecomesKeeps ==
    ASSUME TrialShape, NEW e \in Events, NEW g \in Genomes, NEW t, TrialBecomes(e, g, t)
    PROVE  /\ TrialShape'
           /\ trials'[e][g] = t
           /\ \A f \in Events : \A h \in Genomes :
                 f # e \/ h # g => trials'[f][h] = trials[f][h]
BY DEF TrialShape, TrialBecomes

\* Steps that move a trial on without executing it.
LEMMA TrialLeads ==
    ASSUME LeaseInv, NEW c \in Coordinators, pc[c] \notin Resting, Aside(c), NEW t,
           TrialBecomes(event[c], genome[c], t), UNCHANGED <<ops, executed, proposed>>,
           \/ t.status = Trial(c).status
           \/ Trial(c).status = "none" /\ t.status = "RESERVED"
           \/ Trial(c).status = "COLLECTED" /\ t.status = "VALIDATED"
           \/ /\ Trial(c).status = "RUNNING" /\ t.status \notin {"none", "RESERVED"}
              /\ pc[c] \in Leased
    PROVE  LeaseInv'
<1>1. event[c] \in Events /\ genome[c] \in Genomes
  BY DEF LeaseInv, Holds, Locals
<1>2. pc[c] \in Leased => lease[event[c]][genome[c]] = c
  BY DEF LeaseInv, Holds
<1>3. /\ TrialShape'
      /\ trials'[event[c]][genome[c]] = t
      /\ \A f \in Events : \A h \in Genomes :
            f # event[c] \/ h # genome[c] => trials'[f][h] = trials[f][h]
  BY <1>1, BecomesKeeps DEF LeaseInv, Tables
<1>4. \A e \in Events : \A g \in Genomes : TrialStep(c, e, g)
  BY <1>2, <1>3 DEF TrialStep, Trial
<1>5. Tables'
  BY <1>3 DEF LeaseInv, Tables, Aside, LedgerShape
<1> QED BY <1>4, <1>5, LeadsOn DEF Leads, Aside

LEMMA StatusIs == \A t, s : Status(t, s).status = s
BY DEF Status

LEMMA TrialLeaseLeads ==
    ASSUME LeaseInv, NEW c \in Coordinators, TrialLease(c)
    PROVE  LeaseInv'
<1>1. UNCHANGED <<ops, trials, executed, proposed>> /\ pc[c] = "trialLease"
  BY DEF TrialLease, At, files, Leave, history
<1>2. CASE End(c, "BLOCKED")
  BY <1>1, <1>2, EndKeeps, PlainLeads
<1>3. CASE /\ lease[event[c]][genome[c]] = Nobody
           /\ lease' = [lease EXCEPT ![event[c]][genome[c]] = c]
           /\ Goto(c, "leased")
           /\ UNCHANGED <<mem, event, batch, genome, beside>>
  <2>1. event[c] \in Events /\ genome[c] \in Genomes
    BY <1>1 DEF LeaseInv, Holds, Locals, Resting
  <2>2. lease' \in [Events -> [Genomes -> Coordinators \cup {Nobody}]]
    BY <1>3, <2>1 DEF LeaseInv, Tables
  <2>3. Tables'
    BY <1>1, <2>2 DEF LeaseInv, Tables, LedgerShape, TrialShape
  <2>4. Locals'
    BY <1>3 DEF LeaseInv, Locals, Goto
  <2>5. LocalStep(c)
    <3>1. \A e \in Events : \A g \in Genomes : \A d \in Coordinators \ {c} :
             lease[e][g] = d => lease'[e][g] = d
      BY <1>3, <2>1, EvolutionAssumption DEF LeaseInv, Tables, Nobody
    <3> QED BY <1>3, <3>1 DEF LocalStep, LeaseInv, Locals, Goto
  <2>6. Holds(c)'
    BY <1>3, <2>1 DEF Holds, LeaseInv, Locals, Tables, Goto, Leased
  <2>7. \A e \in Events : \A g \in Genomes : TrialStep(c, e, g)
    BY <1>1 DEF TrialStep
  <2> QED BY <2>3, <2>4, <2>5, <2>6, <2>7, LeadsOn DEF Leads
<1> QED BY <1>2, <1>3 DEF TrialLease

LEMMA LeasedStartLeads ==
    ASSUME LeaseInv, NEW c \in Coordinators, LeasedStart(c)
    PROVE  LeaseInv'
<1>1. UNCHANGED <<ops, proposed>> /\ pc[c] = "leased"
  BY DEF LeasedStart, At
<1>2. CASE End(c, "BLOCKED") /\ UNCHANGED <<trials, executed>>
  BY <1>1, <1>2, EndKeeps, PlainLeads
<1>3. CASE /\ Trial(c).status = "RESERVED"
           /\ TrialBecomes(event[c], genome[c], Status(Trial(c), "RUNNING"))
           /\ executed' = [executed EXCEPT ![event[c]][genome[c]] = @ + 1]
           /\ Goto(c, "executing")
           /\ Stay
  <2> DEFINE e == event[c]
             g == genome[c]
  <2>1. e \in Events /\ g \in Genomes /\ lease[e][g] = c
    BY <1>1 DEF LeaseInv, Holds, Locals, Resting, Leased
  <2>2. /\ TrialShape'
        /\ trials'[e][g].status = "RUNNING"
        /\ \A f \in Events : \A h \in Genomes :
              f # e \/ h # g => trials'[f][h] = trials[f][h]
    BY <1>3, <2>1, BecomesKeeps, StatusIs DEF LeaseInv, Tables
  <2>3. executed' \in [Events -> [Genomes -> Nat]]
    BY <1>3, <2>1 DEF LeaseInv, Tables
  <2>4. Tables'
    BY <1>1, <1>3, <2>2, <2>3 DEF LeaseInv, Tables, LedgerShape, Stay, place
  <2>5. Locals' /\ LocalStep(c)
    BY <1>3 DEF LeaseInv, Locals, LocalStep, Goto, Stay, place
  <2>6. Holds(c)'
    BY <1>3, <2>1, <2>2 DEF Holds, Trial, LeaseInv, Locals, Goto, Stay, place
  <2>7. ASSUME NEW f \in Events, NEW h \in Genomes
        PROVE  TrialStep(c, f, h)
    <3>1. CASE f = e /\ h = g
      BY <1>3, <2>1, <2>2, <3>1 DEF TrialStep, Trial, LeaseInv, Tables
    <3>2. CASE f # e \/ h # g
      BY <1>3, <2>1, <2>2, <3>2 DEF TrialStep, LeaseInv, Tables
    <3> QED BY <3>1, <3>2
  <2> QED BY <2>4, <2>5, <2>6, <2>7, LeadsOn DEF Leads
<1> QED BY <1>2, <1>3 DEF LeasedStart

LEMMA TrialLeadsOn ==
    ASSUME LeaseInv, NEW c \in Coordinators,
           \/ TrialOperation(c) \/ TrialRemaining(c) \/ TrialReserve(c) \/ ReserveTrial(c)
           \/ LeasedInterrupted(c) \/ LeasedFailed(c) \/ Execute(c) \/ Validate(c)
           \/ SettleTrial(c)
    PROVE  LeaseInv'
<1> USE DEF At, Resting, Leased
<1>1. CASE TrialOperation(c)
  BY <1>1, WalkKeeps, PlainLeads DEF TrialOperation, Reads, files, Leave, history
<1>2. CASE TrialRemaining(c)
  BY <1>2, RemainingLeads DEF TrialRemaining
<1>3. CASE TrialReserve(c)
  BY <1>3, ReserveLeads DEF TrialReserve
<1>4. CASE ReserveTrial(c)
  <2>1. UNCHANGED <<ops, executed, proposed>>
    BY <1>4 DEF ReserveTrial, Leave, history
  <2>2. Aside(c)
    BY <1>4, WalkKeeps, EndKeeps DEF ReserveTrial
  <2>3. CASE UNCHANGED trials
    BY <2>1, <2>2, <2>3, PlainLeads
  <2>4. CASE \E s : /\ TrialBecomes(event[c], genome[c], Status(Trial(c), s))
                    /\ s = IF Trial(c).status = "none" THEN "RESERVED" ELSE Trial(c).status
    BY <1>4, <2>1, <2>2, <2>4, TrialLeads, StatusIs DEF ReserveTrial
  <2> QED BY <1>4, <2>3, <2>4 DEF ReserveTrial
<1>5. CASE LeasedInterrupted(c)
  <2>1. UNCHANGED <<ops, executed, proposed>> /\ Aside(c)
    BY <1>5, EndKeeps DEF LeasedInterrupted, Leave, history
  <2>2. CASE UNCHANGED trials
    BY <2>1, <2>2, PlainLeads
  <2>3. CASE /\ Trial(c).status = "RUNNING"
             /\ TrialBecomes(event[c], genome[c], Status(Trial(c), "INTERRUPTED"))
    BY <1>5, <2>1, <2>3, TrialLeads, StatusIs DEF LeasedInterrupted
  <2> QED BY <1>5, <2>2, <2>3 DEF LeasedInterrupted
<1>6. CASE LeasedFailed(c)
  <2>1. Aside(c)
    BY <1>6, FinishKeeps, EndKeeps DEF LeasedFailed
  <2>2. LedgerShape'
    BY <1>6, SettleShape DEF LeasedFailed, LeaseInv, Tables, LedgerShape
  <2> QED BY <1>6, <2>1, <2>2, AsideLeads DEF LeasedFailed, Leave, history, LeaseInv, Tables
<1>7. CASE Execute(c)
  <2>1. UNCHANGED <<ops, executed, proposed>> /\ pc[c] = "executing"
    BY <1>7 DEF Execute, Leave, history
  <2>2. ASSUME NEW t, Outcome(c, t), t.status \in {"COLLECTED", "FAILED", "INTERRUPTED"}
        PROVE  LeaseInv'
    <3>1. Aside(c)
      BY <2>1, <2>2, WalkKeeps, EndKeeps DEF Outcome
    <3>2. CASE UNCHANGED trials
      BY <2>1, <3>1, <3>2, PlainLeads
    <3>3. CASE Trial(c).status = "RUNNING" /\ TrialBecomes(event[c], genome[c], t)
      BY <2>1, <2>2, <3>1, <3>3, TrialLeads
    <3> QED BY <2>2, <3>2, <3>3 DEF Outcome
  <2> QED BY <1>7, <2>2 DEF Execute
<1>8. CASE Validate(c)
  <2>1. UNCHANGED <<ops, executed, proposed>> /\ Aside(c)
    BY <1>8, WalkKeeps, EndKeeps DEF Validate, Leave, history
  <2>2. CASE UNCHANGED trials
    BY <2>1, <2>2, PlainLeads
  <2>3. CASE /\ Trial(c).status = "COLLECTED"
             /\ TrialBecomes(event[c], genome[c], Status(Trial(c), "VALIDATED"))
    BY <1>8, <2>1, <2>3, TrialLeads, StatusIs DEF Validate
  <2> QED BY <1>8, <2>2, <2>3 DEF Validate
<1>9. CASE SettleTrial(c)
  <2>1. Aside(c)
    BY <1>9, WalkKeeps, FinishKeeps, EndKeeps DEF SettleTrial
  <2>2. LedgerShape'
    BY <1>9, SettleShape DEF SettleTrial, LeaseInv, Tables, LedgerShape
  <2> QED BY <1>9, <2>1, <2>2, AsideLeads DEF SettleTrial, Leave, history, LeaseInv, Tables
<1> QED BY <1>1, <1>2, <1>3, <1>4, <1>5, <1>6, <1>7, <1>8, <1>9

LEMMA ConsideredKeeps ==
    ASSUME LeaseInv, NEW c \in Coordinators, pc[c] \notin Resting, NEW accepted,
           Considered(c, accepted)
    PROVE  Aside(c)
BY WalkKeeps, FinishKeeps DEF Considered, Leased

LEMMA ConsiderLeads ==
    ASSUME LeaseInv, NEW c \in Coordinators,
           Consider(c) \/ ConsiderRevision(c) \/ ConsiderCommit(c) \/ Tried(c) \/ Crash(c)
    PROVE  LeaseInv'
<1> USE DEF At, Resting, Leased
<1>1. CASE Consider(c)
  BY <1>1, WalkKeeps, ConsideredKeeps, PlainLeads DEF Consider, files, Leave, history
<1>2. CASE ConsiderRevision(c)
  BY <1>2, WalkKeeps, PlainLeads DEF ConsiderRevision, Reads, files, Leave, history
<1>3. CASE ConsiderCommit(c)
  <2>1. Aside(c)
    BY <1>3, WalkKeeps, ConsideredKeeps, DieKeeps, EndKeeps, FinishKeeps DEF ConsiderCommit
  <2> QED BY <1>3, <2>1, PlainLeads DEF ConsiderCommit, Leave, history
<1>4. CASE Tried(c)
  BY <1>4, WalkKeeps, EndKeeps, PlainLeads DEF Tried, files, Leave, history
<1>5. CASE Crash(c)
  BY <1>5, DieKeeps, PlainLeads DEF Crash, files, Leave, history
<1> QED BY <1>1, <1>2, <1>3, <1>4, <1>5

LEMMA RunEventLeads ==
    ASSUME LeaseInv, NEW c \in Coordinators, NEW e \in Events, RunEvent(c, e)
    PROVE  LeaseInv'
<1>1. UNCHANGED <<ops, trials, executed, proposed>>
  BY DEF RunEvent, files
<1>2. CASE \E outcome : End(c, outcome)
  BY <1>1, <1>2, EndKeeps, PlainLeads
<1>3. CASE /\ Goto(c, "recoverArchive")
           /\ event' = [event EXCEPT ![c] = e]
           /\ UNCHANGED <<lease, batch, genome>>
  <2>1. Locals'
    BY <1>3 DEF LeaseInv, Locals, Goto
  <2>2. LocalStep(c)
    BY <1>3 DEF LocalStep, LeaseInv, Locals, Goto
  <2>3. Holds(c)'
    BY <1>3 DEF Holds, LeaseInv, Locals, Goto, Leased
  <2>4. Aside(c)
    BY <1>3, <2>1, <2>2, <2>3 DEF Aside, LeaseInv, Tables
  <2> QED BY <1>1, <2>4, PlainLeads
<1> QED BY <1>2, <1>3 DEF RunEvent

LEMMA LeaseNext == LeaseInv /\ [Next]_vars => LeaseInv'
<1> SUFFICES ASSUME LeaseInv, [Next]_vars
             PROVE  LeaseInv'
  OBVIOUS
<1>1. CASE UNCHANGED vars
  BY <1>1 DEF vars, LeaseInv, Tables, LedgerShape, TrialShape, Locals, Holds, Spent, Trial
<1>2. ASSUME NEW c \in Coordinators, Step(c)
      PROVE  LeaseInv'
  BY <1>2, RecoveryLeads, BatchLeads, TrialLeadsOn, TrialLeaseLeads, LeasedStartLeads, ConsiderLeads
     DEF Step
<1> QED BY <1>1, <1>2, RunEventLeads, ConsiderLeads DEF Next

(* A trial is executed at most once, for any number of coordinators that die,    *)
(* race and run events again (coordinator.py 66, store.py 111-117).          *)
THEOREM ExecutedAtMostOnce == Spec => []ExecutedOnce
<1>1. LeaseInv => ExecutedOnce
  BY DEF LeaseInv, ExecutedOnce, Spent
<1> QED BY <1>1, LeaseInit, LeaseNext, PTL DEF Spec

(* The trial a live coordinator executes is RUNNING and leased by it, whatever  *)
(* others do that find it in the store (store.py 117).                       *)
THEOREM LiveTrialLeftAlone == Spec => []LiveTrialRuns
<1>1. LeaseInv => LiveTrialRuns
  BY DEF LeaseInv, LiveTrialRuns, Holds, Leased, At
<1> QED BY <1>1, LeaseInit, LeaseNext, PTL DEF Spec

-----------------------------------------------------------------------------
(* Who asks the model.  Between begin and propose a coordinator marks parents; *)
(* that it is the only one there for its batch is what begin is for.         *)

Marking == {"mark", "markRevision", "markCommit"}
Asks(c, e, b) == pc[c] \in Marking /\ event[c] = e /\ batch[c] = b

Asked(e, b) ==
    /\ proposed[e][b] <= 1
    /\ ~ops[e][b].started => proposed[e][b] = 0
    /\ ops[e][b].reserved = None => ~ops[e][b].started

AskInv ==
    \A e \in Events : \A b \in Batches :
        /\ Asked(e, b)
        /\ \A c \in Coordinators : Asks(c, e, b) => ops[e][b].started /\ proposed[e][b] = 0
        /\ \A c, d \in Coordinators : Asks(c, e, b) /\ Asks(d, e, b) => c = d

\* What a step may do to an operation: reserve it, or begin or settle it.
LedgerStep(e, b) ==
    \/ ops'[e][b] = ops[e][b]
    \/ ops[e][b].reserved = None /\ ~ops'[e][b].started
    \/ /\ ops[e][b].reserved # None /\ ops'[e][b].reserved = ops[e][b].reserved
       /\ ops'[e][b].started

\* A step of c keeps its place, begins the batch, or asks.
AskStep(c, e, b) ==
    /\ LedgerStep(e, b)
    /\ \/ proposed'[e][b] = proposed[e][b] /\ (Asks(c, e, b)' => Asks(c, e, b))
       \/ /\ proposed'[e][b] = proposed[e][b]
          /\ ops[e][b].reserved # None /\ ~ops[e][b].started /\ ops'[e][b].started
       \/ Asks(c, e, b) /\ ~Asks(c, e, b)' /\ proposed'[e][b] = proposed[e][b] + 1

OthersAsk(c) ==
    \A d \in Coordinators \ {c} : pc'[d] = pc[d] /\ event'[d] = event[d] /\ batch'[d] = batch[d]

LEMMA AskLeads ==
    ASSUME LeaseInv, AskInv, NEW c \in Coordinators, OthersAsk(c),
           \A e \in Events : \A b \in Batches : AskStep(c, e, b)
    PROVE  AskInv'
<1> SUFFICES ASSUME NEW e \in Events, NEW b \in Batches
             PROVE  /\ Asked(e, b)'
                    /\ \A d \in Coordinators :
                          Asks(d, e, b)' => ops'[e][b].started /\ proposed'[e][b] = 0
                    /\ \A d, f \in Coordinators : Asks(d, e, b)' /\ Asks(f, e, b)' => d = f
  BY DEF AskInv
<1>1. AskStep(c, e, b) /\ Asked(e, b) /\ proposed[e][b] \in Nat
  BY DEF AskInv, LeaseInv, Tables
<1>2. \A d \in Coordinators : Asks(d, e, b) => ops[e][b].started /\ proposed[e][b] = 0
  BY DEF AskInv
<1>3. \A d, f \in Coordinators : Asks(d, e, b) /\ Asks(f, e, b) => d = f
  BY DEF AskInv
<1>4. \A d \in Coordinators \ {c} : Asks(d, e, b)' <=> Asks(d, e, b)
  BY DEF OthersAsk, Asks
<1>5. Asked(e, b)'
  BY <1>1, <1>2 DEF AskStep, LedgerStep, Asked
<1>6. ASSUME NEW d \in Coordinators, Asks(d, e, b)'
      PROVE  ops'[e][b].started /\ proposed'[e][b] = 0
  <2>1. CASE d = c
    BY <1>1, <1>2, <1>6, <2>1 DEF AskStep, LedgerStep, Asked
  <2>2. CASE d # c
    BY <1>1, <1>2, <1>3, <1>4, <1>6, <2>2 DEF AskStep, LedgerStep, Asked
  <2> QED BY <2>1, <2>2
<1>7. ASSUME NEW d \in Coordinators, NEW f \in Coordinators, Asks(d, e, b)', Asks(f, e, b)'
      PROVE  d = f
  BY <1>1, <1>2, <1>3, <1>4, <1>7 DEF AskStep
<1> QED BY <1>5, <1>6, <1>7

\* A step that leads c away from Marking, or leaves it outside.
Away(c) == pc'[c] \notin Marking /\ OthersAsk(c)

LEMMA AwayLeads ==
    ASSUME LeaseInv, AskInv, NEW c \in Coordinators, Away(c), UNCHANGED proposed,
           \A e \in Events : \A b \in Batches : LedgerStep(e, b)
    PROVE  AskInv'
BY AskLeads DEF Away, AskStep, Asks

LEMMA AwayPlainLeads ==
    ASSUME LeaseInv, AskInv, NEW c \in Coordinators, Away(c), UNCHANGED <<ops, proposed>>
    PROVE  AskInv'
BY AwayLeads DEF LedgerStep

LEMMA GotoAway ==
    ASSUME LeaseInv, NEW c \in Coordinators, NEW p, p \notin Marking, Goto(c, p),
           UNCHANGED <<event, batch>>
    PROVE  Away(c)
BY DEF Away, OthersAsk, Goto, LeaseInv, Locals

LEMMA WalkAway ==
    ASSUME LeaseInv, NEW c \in Coordinators, NEW p, p \notin Marking, Goto(c, p), Stay
    PROVE  Away(c)
BY GotoAway DEF Stay, place

LEMMA GoneAway ==
    ASSUME LeaseInv, NEW c \in Coordinators, NEW p, p \notin Marking, Goto(c, p), Gone(c)
    PROVE  Away(c)
BY DEF Away, OthersAsk, Goto, Gone, LeaseInv, Locals

LEMMA EndAway ==
    ASSUME LeaseInv, NEW c \in Coordinators, NEW outcome, End(c, outcome)
    PROVE  Away(c)
BY GoneAway DEF End, Marking

LEMMA DieAway ==
    ASSUME LeaseInv, NEW c \in Coordinators, Die(c)
    PROVE  Away(c)
BY GoneAway DEF Die, Marking

LEMMA FinishAway ==
    ASSUME LeaseInv, NEW c \in Coordinators, NEW accepted, Finish(c, accepted)
    PROVE  Away(c)
BY GotoAway DEF Finish, Marking

LEMMA ConsideredAway ==
    ASSUME LeaseInv, NEW c \in Coordinators, NEW accepted, Considered(c, accepted)
    PROVE  Away(c)
BY WalkAway, FinishAway DEF Considered, Marking

LEMMA SettleStep ==
    ASSUME LeaseInv, NEW e \in Events, NEW o, NEW used, CanSettle(e, o, used), Settle(e, o, used)
    PROVE  \A f \in Events : \A b \in Batches : LedgerStep(f, b)
<1> SUFFICES ASSUME NEW f \in Events, NEW b \in Batches
             PROVE  LedgerStep(f, b)
  OBVIOUS
<1>1. b \in Operations
  BY DEF Operations
<1>2. CASE f = e /\ b = o
  BY <1>1, <1>2 DEF LedgerStep, CanSettle, Settle, LeaseInv, Tables, LedgerShape
<1>3. CASE f # e \/ b # o
  BY <1>1, <1>3 DEF LedgerStep, Settle, LeaseInv, Tables, LedgerShape
<1> QED BY <1>2, <1>3

LEMMA WorkingHasEvent ==
    ASSUME LeaseInv, NEW c \in Coordinators, pc[c] \notin Resting
    PROVE  event[c] \in Events
BY DEF LeaseInv, Holds

\* Steps that settle operation o, or do not touch the ledger.
LEMMA AwaySettleLeads ==
    ASSUME LeaseInv, AskInv, NEW c \in Coordinators, pc[c] \notin Resting, Away(c),
           UNCHANGED proposed, NEW o, NEW used,
           UNCHANGED ops \/ (CanSettle(event[c], o, used) /\ Settle(event[c], o, used))
    PROVE  AskInv'
BY WorkingHasEvent, SettleStep, AwayLeads, AwayPlainLeads

LEMMA ReserveAsks ==
    ASSUME LeaseInv, AskInv, NEW c \in Coordinators, NEW here, NEW o, NEW next,
           here \notin Resting, next \notin Marking, ReserveWithCap(c, here, o, next)
    PROVE  AskInv'
<1>1. Away(c)
  BY WalkAway, EndAway DEF ReserveWithCap
<1>2. UNCHANGED proposed
  BY DEF ReserveWithCap, Leave, history
<1>3. CASE UNCHANGED ops
  BY <1>1, <1>2, <1>3, AwayPlainLeads
<1>4. CASE /\ ops[event[c]][o].reserved = None
           /\ ops' = [ops EXCEPT ![event[c]][o] = [reserved |-> mem[c].tokens, actual |-> None,
                                                   started |-> FALSE]]
  <2>1. event[c] \in Events
    BY WorkingHasEvent DEF ReserveWithCap, At
  <2>2. ASSUME NEW f \in Events, NEW b \in Batches
        PROVE  LedgerStep(f, b)
    <3>1. b \in Operations
      BY DEF Operations
    <3>2. CASE f = event[c] /\ b = o
      <4>1. ops'[f][b] = [reserved |-> mem[c].tokens, actual |-> None, started |-> FALSE]
        BY <1>4, <2>1, <3>1, <3>2 DEF LeaseInv, Tables, LedgerShape
      <4> QED BY <1>4, <3>2, <4>1 DEF LedgerStep
    <3>3. CASE f # event[c] \/ b # o
      BY <1>4, <2>1, <3>1, <3>3 DEF LedgerStep, LeaseInv, Tables, LedgerShape
    <3> QED BY <3>2, <3>3
  <2> QED BY <1>1, <1>2, <2>2, AwayLeads
<1> QED BY <1>3, <1>4, Zenon DEF ReserveWithCap

LEMMA RemainingAsks ==
    ASSUME LeaseInv, AskInv, NEW c \in Coordinators, NEW here, NEW next,
           next \notin Marking, Remaining(c, here, next)
    PROVE  AskInv'
BY WalkAway, EndAway, AwayPlainLeads DEF Remaining, files, Leave, history

LEMMA BeginAsks ==
    ASSUME LeaseInv, AskInv, NEW c \in Coordinators, Begin(c)
    PROVE  AskInv'
<1>1. pc[c] = "begin" /\ UNCHANGED proposed
  BY DEF Begin, At, Leave, history
<1>2. CASE End(c, "BLOCKED") /\ UNCHANGED ops
  BY <1>1, <1>2, EndAway, AwayPlainLeads
<1>3. CASE LET op == ops[event[c]][batch[c]] IN
           /\ op.reserved # None /\ ~op.started
           /\ ops' = [ops EXCEPT ![event[c]][batch[c]] =
                         [reserved |-> op.reserved, actual |-> op.actual, started |-> TRUE]]
           /\ Goto(c, "mark") /\ Stay
  <2>1. event[c] \in Events
    BY <1>1, WorkingHasEvent DEF Resting
  <2>2. OthersAsk(c) /\ UNCHANGED <<event, batch>>
    BY <1>3 DEF OthersAsk, Goto, Stay, place, LeaseInv, Locals
  <2>3. ASSUME NEW e \in Events, NEW b \in Batches
        PROVE  AskStep(c, e, b)
    <3>1. b \in Operations
      BY DEF Operations
    <3>2. CASE e = event[c] /\ b = batch[c]
      <4>1. ops'[e][b] = [reserved |-> ops[e][b].reserved, actual |-> ops[e][b].actual,
                          started |-> TRUE]
        BY <1>3, <2>1, <3>1, <3>2 DEF LeaseInv, Tables, LedgerShape
      <4>2. /\ ops'[e][b].started /\ ops'[e][b].reserved = ops[e][b].reserved
            /\ ops[e][b].reserved # None /\ ~ops[e][b].started
        BY <1>3, <3>2, <4>1
      <4>3. proposed'[e][b] = proposed[e][b]
        BY <1>1
      <4> QED BY <4>2, <4>3, Zenon DEF AskStep, LedgerStep
    <3>3. CASE e # event[c] \/ b # batch[c]
      <4>1. ops'[e][b] = ops[e][b]
        BY <1>3, <2>1, <3>1, <3>3 DEF LeaseInv, Tables, LedgerShape
      <4>2. ~Asks(c, e, b)'
        BY <2>2, <3>3 DEF Asks
      <4> QED BY <1>1, <4>1, <4>2 DEF AskStep, LedgerStep
    <3> QED BY <3>2, <3>3
  <2> QED BY <2>2, <2>3, AskLeads
<1> QED BY <1>2, <1>3 DEF Begin

LEMMA MarkAsks ==
    ASSUME LeaseInv, AskInv, NEW c \in Coordinators,
           MarkUsed(c) \/ MarkRevision(c) \/ MarkCommit(c)
    PROVE  AskInv'
<1>1. pc[c] \in Marking
  BY DEF MarkUsed, MarkRevision, MarkCommit, At, Marking
<1>2. UNCHANGED ops
  BY DEF MarkUsed, MarkRevision, MarkCommit, files, Reads
<1>3. CASE Die(c) /\ UNCHANGED proposed
  BY <1>2, <1>3, DieAway, AwayPlainLeads
<1>4. CASE Stay /\ UNCHANGED proposed /\ \E p : Goto(c, p)
  <2>1. OthersAsk(c) /\ UNCHANGED <<event, batch>>
    BY <1>4 DEF OthersAsk, Goto, Stay, place, LeaseInv, Locals
  <2>2. \A e \in Events : \A b \in Batches : AskStep(c, e, b)
    BY <1>1, <1>2, <1>4, <2>1 DEF AskStep, LedgerStep, Asks
  <2> QED BY <2>1, <2>2, AskLeads
<1>5. CASE /\ proposed' = [proposed EXCEPT ![event[c]][batch[c]] = @ + 1]
           /\ Goto(c, "proposing") /\ Stay
  <2>1. OthersAsk(c) /\ UNCHANGED <<event, batch>> /\ pc'[c] = "proposing"
    BY <1>5 DEF OthersAsk, Goto, Stay, place, LeaseInv, Locals
  <2>2. event[c] \in Events
    BY <1>1, WorkingHasEvent DEF Resting, Marking
  <2>3. ASSUME NEW e \in Events, NEW b \in Batches
        PROVE  AskStep(c, e, b)
    <3>1. ~Asks(c, e, b)' /\ LedgerStep(e, b)
      BY <1>2, <2>1 DEF Asks, Marking, LedgerStep
    <3>2. CASE e = event[c] /\ b = batch[c]
      BY <1>1, <1>5, <3>1, <3>2 DEF AskStep, Asks, LeaseInv, Tables
    <3>3. CASE e # event[c] \/ b # batch[c]
      BY <1>5, <2>2, <3>1, <3>3 DEF AskStep, LeaseInv, Tables
    <3> QED BY <3>2, <3>3
  <2> QED BY <2>1, <2>3, AskLeads
<1>6. CASE MarkUsed(c)
  <2>1. Stay
    BY <1>6 DEF MarkUsed, Stay, place
  <2> QED BY <1>4, <1>5, <1>6, <2>1 DEF MarkUsed
<1>7. CASE MarkRevision(c)
  BY <1>4, <1>7 DEF MarkRevision, Reads, Leave, history
<1>8. CASE MarkCommit(c)
  BY <1>3, <1>4, <1>8 DEF MarkCommit, Leave, history
<1> QED BY <1>6, <1>7, <1>8

LEMMA BatchAsks ==
    ASSUME LeaseInv, AskInv, NEW c \in Coordinators,
           \/ BatchOperation(c) \/ BatchStored(c) \/ BatchRemaining(c) \/ BatchReserve(c)
           \/ Parents(c) \/ Proposed(c) \/ SaveBatch(c) \/ SettleBatch(c)
           \/ Proposals(c) \/ Proposal(c)
    PROVE  AskInv'
<1> USE DEF At, Resting, Marking
<1>1. CASE BatchOperation(c)
  BY <1>1, WalkAway, AwayPlainLeads DEF BatchOperation, Reads, files, Leave, history
<1>2. CASE BatchStored(c)
  <2>1. Away(c) /\ UNCHANGED proposed
    BY <1>2, WalkAway, EndAway DEF BatchStored, Leave, history
  <2> QED BY <1>2, <2>1, AwaySettleLeads DEF BatchStored
<1>3. CASE BatchRemaining(c)
  BY <1>3, RemainingAsks DEF BatchRemaining
<1>4. CASE BatchReserve(c)
  BY <1>4, ReserveAsks DEF BatchReserve
<1>5. CASE Parents(c)
  BY <1>5, WalkAway, AwayPlainLeads DEF Parents, Reads, files, Leave, history
<1>6. CASE Proposed(c)
  BY <1>6, WalkAway, EndAway, AwayPlainLeads DEF Proposed, files, Leave, history
<1>7. CASE SaveBatch(c)
  BY <1>7, WalkAway, AwayPlainLeads DEF SaveBatch, Leave, history
<1>8. CASE SettleBatch(c)
  <2>1. Away(c) /\ UNCHANGED proposed
    BY <1>8, WalkAway, EndAway DEF SettleBatch, Leave, history
  <2> QED BY <1>8, <2>1, AwaySettleLeads DEF SettleBatch
<1>9. CASE Proposals(c)
  BY <1>9, WalkAway, EndAway, AwayPlainLeads DEF Proposals, files, Leave, history
<1>10. CASE Proposal(c)
  <2>1. UNCHANGED <<ops, proposed>> /\ pc[c] = "proposal"
    BY <1>10 DEF Proposal, files, Leave, history
  <2>2. CASE \E outcome : End(c, outcome)
    BY <2>1, <2>2, EndAway, AwayPlainLeads
  <2>3. CASE Goto(c, "round") /\ UNCHANGED event /\ batch' = [batch EXCEPT ![c] = @ + 1]
    <3>1. Away(c)
      BY <2>3 DEF Away, OthersAsk, Goto, LeaseInv, Locals
    <3> QED BY <2>1, <3>1, AwayPlainLeads
  <2>4. CASE UNCHANGED <<pc, event, batch>>
    <3>1. Away(c)
      BY <2>1, <2>4 DEF Away, OthersAsk
    <3> QED BY <2>1, <3>1, AwayPlainLeads
  <2>5. CASE Goto(c, "trial") /\ UNCHANGED <<event, batch>>
    BY <2>1, <2>5, GotoAway, AwayPlainLeads
  <2> QED BY <1>10, <2>2, <2>3, <2>4, <2>5 DEF Proposal
<1> QED BY <1>1, <1>2, <1>3, <1>4, <1>5, <1>6, <1>7, <1>8, <1>9, <1>10

LEMMA RecoveryAsks ==
    ASSUME LeaseInv, AskInv, NEW c \in Coordinators,
           \/ RecoverArchive(c) \/ RecoverTrials(c) \/ Recover(c) \/ Recovered(c)
           \/ Entries(c) \/ Seen(c) \/ Round(c)
    PROVE  AskInv'
<1> USE DEF At, Resting, Marking
<1>1. CASE RecoverArchive(c) \/ RecoverTrials(c) \/ Seen(c)
  BY <1>1, WalkAway, AwayPlainLeads DEF RecoverArchive, RecoverTrials, Seen, Reads, files, Leave, history
<1>2. CASE Recover(c)
  <2>1. UNCHANGED proposed
    BY <1>2 DEF Recover, Leave, history
  <2>2. CASE Stay /\ Goto(c, "entries") /\ UNCHANGED ops
    BY <2>1, <2>2, WalkAway, AwayPlainLeads
  <2>3. CASE \E outcome : End(c, outcome) /\ UNCHANGED ops
    BY <2>1, <2>3, EndAway, AwayPlainLeads
  <2>4. ASSUME NEW g, NEW used, CanSettle(event[c], g, used), Settle(event[c], g, used),
               NEW p \in {"consider", "recovered"}, Goto(c, p), UNCHANGED <<event, batch>>
        PROVE  AskInv'
    BY <1>2, <2>1, <2>4, GotoAway, AwaySettleLeads DEF Recover
  <2> QED BY <1>2, <2>2, <2>3, <2>4 DEF Recover
<1>3. CASE Recovered(c) \/ Round(c)
  BY <1>3, WalkAway, EndAway, AwayPlainLeads DEF Recovered, Round, files, Leave, history
<1>4. CASE Entries(c)
  BY <1>4, GotoAway, AwayPlainLeads DEF Entries, files, history
<1> QED BY <1>1, <1>2, <1>3, <1>4

LEMMA TrialAsks ==
    ASSUME LeaseInv, AskInv, NEW c \in Coordinators,
           \/ TrialOperation(c) \/ TrialRemaining(c) \/ TrialReserve(c) \/ ReserveTrial(c)
           \/ TrialLease(c) \/ LeasedStart(c)
           \/ LeasedInterrupted(c) \/ LeasedFailed(c) \/ Execute(c) \/ Validate(c)
           \/ SettleTrial(c)
    PROVE  AskInv'
<1> USE DEF At, Resting, Marking
<1>1. CASE TrialOperation(c)
  BY <1>1, WalkAway, AwayPlainLeads DEF TrialOperation, Reads, files, Leave, history
<1>2. CASE TrialRemaining(c)
  BY <1>2, RemainingAsks DEF TrialRemaining
<1>3. CASE TrialReserve(c)
  BY <1>3, ReserveAsks DEF TrialReserve
<1>4. CASE ReserveTrial(c) \/ Validate(c)
  BY <1>4, WalkAway, EndAway, AwayPlainLeads DEF ReserveTrial, Validate, Leave, history
<1>5. CASE TrialLease(c)
  BY <1>5, GotoAway, EndAway, AwayPlainLeads DEF TrialLease, files, Leave, history
<1>6. CASE LeasedStart(c)
  BY <1>6, WalkAway, EndAway, AwayPlainLeads DEF LeasedStart
<1>7. CASE LeasedInterrupted(c)
  BY <1>7, EndAway, AwayPlainLeads DEF LeasedInterrupted, Leave, history
<1>8. CASE LeasedFailed(c)
  <2>1. Away(c) /\ UNCHANGED proposed
    BY <1>8, FinishAway, EndAway DEF LeasedFailed, Leave, history
  <2> QED BY <1>8, <2>1, AwaySettleLeads DEF LeasedFailed
<1>9. CASE Execute(c)
  <2>1. UNCHANGED <<ops, proposed>>
    BY <1>9 DEF Execute, Leave, history
  <2>2. \A t : Outcome(c, t) => Away(c)
    BY WalkAway, EndAway DEF Outcome
  <2> QED BY <1>9, <2>1, <2>2, AwayPlainLeads DEF Execute
<1>10. CASE SettleTrial(c)
  <2>1. Away(c) /\ UNCHANGED proposed
    BY <1>10, WalkAway, FinishAway, EndAway DEF SettleTrial, Leave, history
  <2> QED BY <1>10, <2>1, AwaySettleLeads DEF SettleTrial
<1> QED BY <1>1, <1>2, <1>3, <1>4, <1>5, <1>6, <1>7, <1>8, <1>9, <1>10

LEMMA ConsiderAsks ==
    ASSUME LeaseInv, AskInv, NEW c \in Coordinators,
           Consider(c) \/ ConsiderRevision(c) \/ ConsiderCommit(c) \/ Tried(c) \/ Crash(c)
    PROVE  AskInv'
<1> USE DEF At, Resting, Marking
<1>1. UNCHANGED <<ops, proposed>>
  BY DEF Consider, ConsiderRevision, ConsiderCommit, Tried, Crash, Reads, files, Leave, history
<1>2. CASE Consider(c) \/ ConsiderRevision(c)
  BY <1>1, <1>2, WalkAway, ConsideredAway, AwayPlainLeads DEF Consider, ConsiderRevision, Reads
<1>3. CASE ConsiderCommit(c)
  BY <1>1, <1>3, WalkAway, ConsideredAway, DieAway, EndAway, FinishAway, AwayPlainLeads
     DEF ConsiderCommit
<1>4. CASE Tried(c) \/ Crash(c)
  BY <1>1, <1>4, WalkAway, EndAway, DieAway, AwayPlainLeads DEF Tried, Crash
<1> QED BY <1>2, <1>3, <1>4

LEMMA RunEventAsks ==
    ASSUME LeaseInv, AskInv, NEW c \in Coordinators, NEW e \in Events, RunEvent(c, e)
    PROVE  AskInv'
<1>1. UNCHANGED <<ops, proposed>>
  BY DEF RunEvent, files
<1>2. CASE \E outcome : End(c, outcome)
  BY <1>1, <1>2, EndAway, AwayPlainLeads
<1>3. CASE Goto(c, "recoverArchive") /\ event' = [event EXCEPT ![c] = e] /\ UNCHANGED batch
  <2>1. Away(c)
    BY <1>3 DEF Away, OthersAsk, Goto, LeaseInv, Locals, Marking
  <2> QED BY <1>1, <2>1, AwayPlainLeads
<1> QED BY <1>2, <1>3 DEF RunEvent

LEMMA AskInit == Init => AskInv
BY DEF Init, AskInv, Asked, Asks, Marking, NoOperation, Operations, None

LEMMA AskNext == LeaseInv /\ AskInv /\ [Next]_vars => AskInv'
<1> SUFFICES ASSUME LeaseInv, AskInv, [Next]_vars
             PROVE  AskInv'
  OBVIOUS
<1>1. CASE UNCHANGED vars
  BY <1>1 DEF vars, AskInv, Asked, Asks
<1>2. ASSUME NEW c \in Coordinators, Step(c)
      PROVE  AskInv'
  BY <1>2, RecoveryAsks, BatchAsks, BeginAsks, MarkAsks, TrialAsks, ConsiderAsks DEF Step
<1> QED BY <1>1, <1>2, RunEventAsks, ConsiderAsks DEF Next

(* The model is asked at most once for a batch, for any number of coordinators   *)
(* and deaths and however many parents there are to mark between the claim    *)
(* of the operation and the call (budget.py 121-132, coordinator.py 258-274). *)
THEOREM AskedAtMostOnce == Spec => []ProposedOnce
<1>1. AskInv => ProposedOnce
  BY DEF AskInv, Asked, ProposedOnce
<1>2. Init => LeaseInv /\ AskInv
  BY LeaseInit, AskInit
<1>3. LeaseInv /\ AskInv /\ [Next]_vars => (LeaseInv /\ AskInv)'
  BY LeaseNext, AskNext
<1> QED BY <1>1, <1>2, <1>3, PTL DEF Spec

-----------------------------------------------------------------------------
(* What the archive is given.  A result is paid for once its trial is          *)
(* validated and the ledger has charged what it used; neither changes again. *)

Final == {"VALIDATED", "FAILED"}
Considering == {"consider", "considerRevision", "considerCommit"}
Choosing == {"begin", "mark", "markRevision", "markCommit"}
Recovering == {"recoverArchive", "recoverTrials", "recover", "recovered"}
Recovery == Resting \cup Recovering \cup {"entries", "seen"} \cup Considering

TrialSet == [status : Statuses, cost : Costs \cup {0}, quality : Qualities \cup {0},
             cell : Cells \cup {"none"}]

\* Only a collected trial has a quality and a cell.
Told(t) ==
    /\ t \in TrialSet
    /\ t.quality # 0 => t.status \in {"COLLECTED", "VALIDATED"}
    /\ t.status \in {"COLLECTED", "VALIDATED"} => t.cell \in Cells
    /\ t.status \notin {"COLLECTED", "VALIDATED"} => t.cell = "none"

Charged(op) == op.reserved = None => op.actual = None

Paid(e, g) ==
    /\ trials[e][g].status = "VALIDATED" /\ trials[e][g].quality # 0
    /\ ops[e][g].actual = trials[e][g].cost

\* An entry of cell k with all that was ever there before it.
Backed(entry, k) ==
    /\ <<entry.event, entry.genome>> \in entry.lineage
    /\ trials[entry.event][entry.genome].quality = entry.quality
    /\ \A past \in entry.lineage :
          Paid(past[1], past[2]) /\ trials[past[1]][past[2]].cell = k

\* What a coordinator knows of its trial and of the archive where it is.
Offers(c) ==
    LET m == mem[c] IN
    /\ DOMAIN m = DOMAIN Fresh0
    /\ pc[c] \notin Recovery => m.phase # "recover"
    /\ pc[c] \in Recovering => m.phase = "recover"
    /\ pc[c] \notin Resting /\ m.phase = "recover" =>
          m.left \subseteq {g \in Genomes : trials[event[c]][g].status = "VALIDATED"}
    /\ pc[c] = "settle" => Trial(c).status \in Final
    /\ pc[c] \in Considering => Paid(event[c], genome[c])
    /\ pc[c] \in {"considerRevision", "considerCommit"} =>
          m.cell = Trial(c).cell /\ Trial(c).quality >= m.entry.quality - Tolerance
    /\ pc[c] \in Choosing => m.left \subseteq Filled
    /\ pc[c] \in {"markRevision", "markCommit"} => m.cell \in m.left

ArchInv ==
    /\ DOMAIN mem = Coordinators
    /\ \A e \in Events : \A g \in Genomes : Told(trials[e][g])
    /\ \A e \in Events : \A o \in Operations : Charged(ops[e][o])
    /\ archive.cells \in [Cells -> Entry]
    /\ \A k \in Filled : Backed(archive.cells[k], k)
    /\ \A c \in Coordinators : Offers(c)

\* What every step leaves as it is: trials that are done, and what was charged.
Forward ==
    /\ \A e \in Events : \A g \in Genomes :
          Told(trials'[e][g]) /\ (trials[e][g].status \in Final => trials'[e][g] = trials[e][g])
    /\ \A e \in Events : \A o \in Operations :
          /\ Charged(ops'[e][o])
          /\ ops[e][o].actual # None => ops'[e][o].actual = ops[e][o].actual

CellsOnward ==
    \A k \in Filled :
        LET old == archive.cells[k]
            new == archive.cells'[k] IN
        /\ new # NoEntry
        /\ new.quality >= old.quality - Tolerance
        /\ old.lineage \subseteq new.lineage
        /\ new.used >= old.used

\* A step of c leaves the others and what they remember alone.
Steady(c) ==
    /\ DOMAIN mem' = Coordinators
    /\ \A d \in Coordinators \ {c} :
          pc'[d] = pc[d] /\ event'[d] = event[d] /\ genome'[d] = genome[d] /\ mem'[d] = mem[d]

LEMMA FieldsOf ==
    DOMAIN Fresh0 = {"phase", "known", "left", "seen", "todo", "stalled", "improved", "accepted",
                     "status", "tokens", "cost", "cell", "entry", "rev", "tries", "outcome"}
BY DEF Fresh0

LEMMA PaidStays ==
    ASSUME ArchInv, Forward, NEW e \in Events, NEW g \in Genomes, Paid(e, g)
    PROVE  Paid(e, g)' /\ trials'[e][g] = trials[e][g]
<1>1. trials'[e][g] = trials[e][g]
  BY DEF Forward, Paid, Final
<1>2. trials[e][g].cost # None /\ g \in Operations
  BY EvolutionAssumption DEF ArchInv, Told, TrialSet, None, Operations
<1>3. ops'[e][g].actual = ops[e][g].actual
  BY <1>2 DEF Forward, Paid
<1> QED BY <1>1, <1>3 DEF Paid

LEMMA BackedStays ==
    ASSUME ArchInv, Forward, NEW entry \in Entry, NEW k, Backed(entry, k)
    PROVE  Backed(entry, k)'
<1>1. entry.lineage \subseteq Events \X Genomes
  BY DEF Entry
<1>2. ASSUME NEW past \in entry.lineage
      PROVE  /\ (Paid(past[1], past[2]) /\ trials[past[1]][past[2]].cell = k)'
             /\ trials'[past[1]][past[2]] = trials[past[1]][past[2]]
  <2>1. past[1] \in Events /\ past[2] \in Genomes
    BY <1>1
  <2>2. Paid(past[1], past[2]) /\ trials[past[1]][past[2]].cell = k
    BY DEF Backed
  <2> QED BY <2>1, <2>2, PaidStays
<1>3. <<entry.event, entry.genome>> \in entry.lineage
  BY DEF Backed
<1>4. trials'[entry.event][entry.genome] = trials[entry.event][entry.genome]
  BY <1>2, <1>3
<1> QED BY <1>2, <1>3, <1>4 DEF Backed

\* Entries that stay are as good as before.
LEMMA StillBacked ==
    ASSUME ArchInv, Forward, NEW k \in Filled, archive.cells'[k] = archive.cells[k]
    PROVE  Backed(archive.cells[k], k)'
<1>1. k \in Cells /\ archive.cells[k] \in Entry /\ Backed(archive.cells[k], k)
  BY DEF ArchInv, Filled
<1>2. PICK entry \in Entry : entry = archive.cells[k]
  BY <1>1
<1>3. Backed(entry, k)'
  BY <1>1, <1>2, BackedStays
<1> QED BY <1>2, <1>3 DEF Backed

LEMMA OthersOffer ==
    ASSUME LeaseInv, ArchInv, NEW c \in Coordinators, Steady(c), Forward, CellsOnward,
           archive'.cells \in [Cells -> Entry], NEW d \in Coordinators \ {c}
    PROVE  Offers(d)'
<1>1. pc'[d] = pc[d] /\ event'[d] = event[d] /\ genome'[d] = genome[d] /\ mem'[d] = mem[d]
  BY DEF Steady
<1>2. Offers(d)
  BY DEF ArchInv
<1>3. pc[d] \notin Resting => event[d] \in Events /\ genome[d] \in Genomes
  BY DEF LeaseInv, Holds, Locals
<1>4. Filled \subseteq Filled'
  BY DEF CellsOnward, Filled
<1>5. pc[d] \in Considering =>
         Paid(event[d], genome[d])' /\ trials'[event[d]][genome[d]] = Trial(d)
  BY <1>1, <1>2, <1>3, PaidStays DEF Offers, Considering, Resting, Trial
<1>6. pc[d] = "settle" => trials'[event[d]][genome[d]] = Trial(d)
  BY <1>2, <1>3 DEF Offers, Resting, Trial, Forward
<1>7. pc[d] \notin Resting /\ mem[d].phase = "recover" =>
         mem[d].left \subseteq {g \in Genomes : trials'[event[d]][g].status = "VALIDATED"}
  BY <1>2, <1>3 DEF Offers, Forward, Final
<1>8. (DOMAIN mem[d] = DOMAIN Fresh0)' /\ (pc[d] \notin Recovery => mem[d].phase # "recover")'
      /\ (pc[d] \in Recovering => mem[d].phase = "recover")'
  BY <1>1, <1>2 DEF Offers
<1>9. (pc[d] = "settle" => Trial(d).status \in Final)'
  BY <1>1, <1>2, <1>6 DEF Offers, Trial
<1>10. (pc[d] \in Considering => Paid(event[d], genome[d]))'
  BY <1>1, <1>5 DEF Paid
<1>11. (pc[d] \in {"considerRevision", "considerCommit"} =>
          mem[d].cell = Trial(d).cell /\ Trial(d).quality >= mem[d].entry.quality - Tolerance)'
  BY <1>1, <1>2, <1>5 DEF Offers, Trial, Considering
<1>12. (pc[d] \in Choosing => mem[d].left \subseteq Filled)'
  BY <1>1, <1>2, <1>4 DEF Offers
<1>13. (pc[d] \in {"markRevision", "markCommit"} => mem[d].cell \in mem[d].left)'
  BY <1>1, <1>2 DEF Offers
<1>14. (pc[d] \notin Resting /\ mem[d].phase = "recover" =>
          mem[d].left \subseteq {g \in Genomes : trials[event[d]][g].status = "VALIDATED"})'
  BY <1>1, <1>7
<1> QED BY <1>8, <1>9, <1>10, <1>11, <1>12, <1>13, <1>14 DEF Offers

LEMMA EntryNumbers ==
    ASSUME NEW entry \in Entry
    PROVE  entry.quality \in Int /\ entry.used \in Int
<1>1. (entry.quality \in Qualities \/ entry.quality = 0) /\ entry.used \in Nat
  BY DEF Entry
<1>2. \A q \in Qualities : q \in Int
  BY EvolutionAssumption
<1>3. 0 \in Int /\ \A n \in Nat : n \in Int
  OBVIOUS
<1> QED BY <1>1, <1>2, <1>3, Zenon

LEMMA ArchFollows ==
    ASSUME LeaseInv, ArchInv, NEW c \in Coordinators, Steady(c), Forward, Offers(c)', CellsOnward,
           archive'.cells \in [Cells -> Entry],
           \A k \in Filled' : Backed(archive.cells[k], k)'
    PROVE  ArchInv'
<1>1. \A d \in Coordinators : Offers(d)'
  BY OthersOffer
<1>2. DOMAIN mem' = Coordinators
  BY DEF Steady
<1>3. (\A e \in Events : \A g \in Genomes : Told(trials[e][g]))'
  BY DEF Forward, Told
<1>4. (\A e \in Events : \A o \in Operations : Charged(ops[e][o]))'
  BY DEF Forward, Charged
<1> QED BY <1>1, <1>2, <1>3, <1>4 DEF ArchInv

\* The entries stay, whatever a process leaves beside the manifest.
LEMMA ArchLeads ==
    ASSUME LeaseInv, ArchInv, NEW c \in Coordinators, Steady(c), Forward, Offers(c)',
           archive'.cells = archive.cells
    PROVE  ArchInv' /\ CellsOnward
<1>1. CellsOnward
  <2>1. ASSUME NEW k \in Filled
        PROVE  /\ archive.cells[k] # NoEntry
               /\ archive.cells[k].quality \in Int /\ archive.cells[k].used \in Int
    BY EntryNumbers DEF ArchInv, Filled
  <2> QED BY <2>1, EvolutionAssumption DEF CellsOnward
<1>2. archive'.cells \in [Cells -> Entry] /\ Filled' = Filled
  BY DEF ArchInv, Filled
<1>3. \A k \in Filled' : Backed(archive.cells[k], k)'
  BY <1>2, StillBacked
<1> QED BY <1>1, <1>2, <1>3, ArchFollows

-----------------------------------------------------------------------------
(* Building blocks: what a step writes to the ledger and the trials, and where *)
(* it leads its coordinator.                                                *)

LEMMA SameForward ==
    ASSUME ArchInv, UNCHANGED <<ops, trials>>
    PROVE  Forward
BY DEF Forward, ArchInv

\* An operation of the ledger becomes what it may become.
LEMMA OpForward ==
    ASSUME LeaseInv, ArchInv, UNCHANGED trials, NEW e, NEW o, NEW op,
           ops' = [ops EXCEPT ![e][o] = op], Charged(op),
           ops[e][o].actual # None => op.actual = ops[e][o].actual
    PROVE  Forward
<1>1. ASSUME NEW f \in Events, NEW p \in Operations
      PROVE  /\ Charged(ops'[f][p])
             /\ ops[f][p].actual # None => ops'[f][p].actual = ops[f][p].actual
  <2>1. CASE f = e /\ p = o
    <3>1. ops'[f][p] = op
      BY <2>1 DEF LeaseInv, Tables, LedgerShape
    <3> QED BY <2>1, <3>1
  <2>2. CASE f # e \/ p # o
    <3>1. ops'[f][p] = ops[f][p]
      BY <2>2 DEF LeaseInv, Tables, LedgerShape
    <3> QED BY <3>1 DEF ArchInv
  <2> QED BY <2>1, <2>2
<1> QED BY <1>1 DEF Forward, ArchInv

LEMMA SettleForward ==
    ASSUME LeaseInv, ArchInv, UNCHANGED trials, NEW e, NEW o, NEW used,
           CanSettle(e, o, used), Settle(e, o, used)
    PROVE  Forward
<1> DEFINE op == [reserved |-> ops[e][o].reserved, actual |-> used, started |-> TRUE]
<1>1. ops' = [ops EXCEPT ![e][o] = op]
  BY DEF Settle
<1>2. Charged(op) /\ (ops[e][o].actual # None => op.actual = ops[e][o].actual)
  BY DEF CanSettle, Charged
<1> HIDE DEF op
<1> QED BY <1>1, <1>2, OpForward

\* A trial becomes another one, and stays what it is once it is done.
LEMMA TrialForward ==
    ASSUME LeaseInv, ArchInv, UNCHANGED ops, NEW e \in Events, NEW g \in Genomes, NEW t,
           TrialBecomes(e, g, t), Told(t),
           trials[e][g].status \in Final => t = trials[e][g]
    PROVE  Forward
<1>1. /\ trials'[e][g] = t
      /\ \A f \in Events : \A h \in Genomes :
            f # e \/ h # g => trials'[f][h] = trials[f][h]
  BY BecomesKeeps DEF LeaseInv, Tables
<1>2. ASSUME NEW f \in Events, NEW h \in Genomes
      PROVE  /\ Told(trials'[f][h])
             /\ trials[f][h].status \in Final => trials'[f][h] = trials[f][h]
  BY <1>1, <1>2 DEF ArchInv
<1> QED BY <1>2 DEF Forward, ArchInv

\* The locals of c become v.
LEMMA RecallIs ==
    ASSUME ArchInv, NEW c \in Coordinators, NEW v, Recall(c, v)
    PROVE  /\ DOMAIN mem' = Coordinators /\ mem'[c] = v
           /\ \A d \in Coordinators \ {c} : mem'[d] = mem[d]
BY DEF ArchInv, Recall

LEMMA GotoIs ==
    ASSUME LeaseInv, NEW c \in Coordinators, NEW p, Goto(c, p)
    PROVE  pc'[c] = p /\ \A d \in Coordinators \ {c} : pc'[d] = pc[d]
BY DEF LeaseInv, Locals, Goto

\* Where the coordinator knows nothing more than that its recovery is over.
Plain(p) == p \notin {"settle"} \cup Considering \cup Choosing

Settled(c) == Steady(c) /\ Offers(c)'

LEMMA PlainSettled ==
    ASSUME LeaseInv, ArchInv, Forward, NEW c \in Coordinators, NEW p, Plain(p),
           pc[c] \notin Resting, Goto(c, p), UNCHANGED event,
           \A d \in Coordinators \ {c} : genome'[d] = genome[d],
           DOMAIN mem' = Coordinators, DOMAIN mem'[c] = DOMAIN Fresh0,
           \A d \in Coordinators \ {c} : mem'[d] = mem[d],
           p \in Recovering => mem'[c].phase = "recover",
           \/ mem'[c].phase # "recover"
           \/ mem'[c].phase = mem[c].phase /\ mem'[c].left = mem[c].left /\ p \in Recovery
    PROVE  Settled(c)
<1>1. pc'[c] = p /\ \A d \in Coordinators \ {c} : pc'[d] = pc[d]
  BY GotoIs
<1>2. Steady(c)
  BY <1>1 DEF Steady
<1>3. event[c] \in Events /\ Offers(c)
  BY WorkingHasEvent DEF ArchInv
<1>4. mem'[c].phase = "recover" =>
         mem'[c].left \subseteq {g \in Genomes : trials'[event[c]][g].status = "VALIDATED"}
  BY <1>3 DEF Offers, Forward, Final
<1>5. Offers(c)'
  BY <1>1, <1>4 DEF Offers, Plain, Considering, Choosing
<1> QED BY <1>2, <1>5 DEF Settled

\* With nothing remembered.
LEMMA SamePlain ==
    ASSUME LeaseInv, ArchInv, Forward, NEW c \in Coordinators, NEW p, Plain(p),
           pc[c] \notin Resting, Goto(c, p), UNCHANGED <<event, mem>>,
           \A d \in Coordinators \ {c} : genome'[d] = genome[d],
           p \in Recovering => mem[c].phase = "recover",
           mem[c].phase # "recover" \/ p \in Recovery
    PROVE  Settled(c)
<1>1. DOMAIN mem' = Coordinators /\ DOMAIN mem'[c] = DOMAIN Fresh0 /\ UNCHANGED mem
  BY DEF ArchInv, Offers
<1> QED BY <1>1, PlainSettled

\* With something remembered, but not the phase, or not of the recovery.
LEMMA RecallPlain ==
    ASSUME LeaseInv, ArchInv, Forward, NEW c \in Coordinators, NEW p, Plain(p),
           pc[c] \notin Resting, Goto(c, p), UNCHANGED event,
           \A d \in Coordinators \ {c} : genome'[d] = genome[d],
           NEW v, Recall(c, v), DOMAIN v = DOMAIN Fresh0,
           p \in Recovering => v.phase = "recover",
           \/ v.phase # "recover"
           \/ v.phase = mem[c].phase /\ v.left = mem[c].left /\ p \in Recovery
    PROVE  Settled(c)
BY RecallIs, PlainSettled

LEMMA GoneSettled ==
    ASSUME LeaseInv, ArchInv, NEW c \in Coordinators, NEW p \in Resting, Goto(c, p), Gone(c),
           NEW v, Recall(c, v), DOMAIN v = DOMAIN Fresh0
    PROVE  Settled(c)
<1>1. /\ DOMAIN mem' = Coordinators /\ mem'[c] = v
      /\ \A d \in Coordinators \ {c} : mem'[d] = mem[d]
  BY RecallIs
<1>2. pc'[c] = p /\ \A d \in Coordinators \ {c} : pc'[d] = pc[d]
  BY GotoIs
<1>3. \A d \in Coordinators \ {c} : event'[d] = event[d] /\ genome'[d] = genome[d]
  BY DEF Gone, LeaseInv, Locals
<1>4. Offers(c)'
  BY <1>1, <1>2 DEF Offers, Resting, Recovery, Recovering, Considering, Choosing
<1> QED BY <1>1, <1>2, <1>3, <1>4 DEF Settled, Steady

LEMMA EndSettled ==
    ASSUME LeaseInv, ArchInv, NEW c \in Coordinators, NEW outcome, End(c, outcome)
    PROVE  Settled(c)
<1>1. DOMAIN [Fresh0 EXCEPT !.outcome = outcome] = DOMAIN Fresh0
  OBVIOUS
<1> QED BY <1>1, GoneSettled DEF End, Resting

LEMMA DieSettled ==
    ASSUME LeaseInv, ArchInv, NEW c \in Coordinators, Die(c)
    PROVE  Settled(c)
BY GoneSettled DEF Die, Resting

LEMMA ForgetIs ==
    ASSUME NEW m, DOMAIN m = DOMAIN Fresh0, NEW accepted
    PROVE  /\ DOMAIN Forget(m) = DOMAIN Fresh0
           /\ Forget(m).phase = m.phase /\ Forget(m).left = m.left
           /\ DOMAIN [Forget(m) EXCEPT !.accepted = accepted] = DOMAIN Fresh0
           /\ [Forget(m) EXCEPT !.accepted = accepted].phase = m.phase
BY FieldsOf DEF Forget

LEMMA FinishSettled ==
    ASSUME LeaseInv, ArchInv, Forward, NEW c \in Coordinators, pc[c] \notin Resting,
           mem[c].phase # "recover", NEW accepted, Finish(c, accepted)
    PROVE  Settled(c)
<1>1. DOMAIN mem[c] = DOMAIN Fresh0
  BY DEF ArchInv, Offers
<1>2. Plain("tried") /\ "tried" \notin Recovering
  BY DEF Plain, Considering, Choosing, Recovering
<1> DEFINE v == [Forget(mem[c]) EXCEPT !.accepted = accepted]
<1>3. DOMAIN v = DOMAIN Fresh0 /\ v.phase = mem[c].phase
  BY <1>1, ForgetIs
<1>4. Goto(c, "tried") /\ Recall(c, v) /\ UNCHANGED <<event, genome>>
  BY DEF Finish
<1> HIDE DEF v
<1> QED BY <1>2, <1>3, <1>4, RecallPlain

LEMMA ConsideredSettled ==
    ASSUME LeaseInv, ArchInv, Forward, NEW c \in Coordinators, pc[c] \notin Resting,
           NEW accepted, Considered(c, accepted)
    PROVE  Settled(c)
<1>1. DOMAIN mem[c] = DOMAIN Fresh0
  BY DEF ArchInv, Offers
<1>2. Plain("recovered") /\ "recovered" \in Recovery
  BY DEF Plain, Considering, Choosing, Recovery, Recovering
<1>3. CASE mem[c].phase = "recover"
  BY <1>1, <1>2, <1>3, ForgetIs, RecallPlain DEF Considered, Stay, place
<1>4. CASE mem[c].phase # "recover"
  BY <1>4, FinishSettled DEF Considered
<1> QED BY <1>3, <1>4

-----------------------------------------------------------------------------
(* The steps.  All but the two commits leave the archive alone.             *)

Quiet(c) == Settled(c) /\ Forward /\ UNCHANGED archive

LEMMA Fields ==
    ASSUME ArchInv, NEW c \in Coordinators
    PROVE  DOMAIN mem[c] = {"phase", "known", "left", "seen", "todo", "stalled", "improved", "accepted",
                     "status", "tokens", "cost", "cell", "entry", "rev", "tries", "outcome"}
           /\ DOMAIN mem[c] = DOMAIN Fresh0
BY FieldsOf DEF ArchInv, Offers

LEMMA RecoveryQuiet ==
    ASSUME LeaseInv, ArchInv, NEW c \in Coordinators,
           \/ RecoverArchive(c) \/ RecoverTrials(c) \/ Recover(c) \/ Recovered(c)
           \/ Entries(c) \/ Seen(c) \/ Round(c)
    PROVE  Quiet(c)
<1> USE DEF Resting, At
<1>1. UNCHANGED <<trials, archive>>
  BY DEF RecoverArchive, RecoverTrials, Recover, Recovered, Entries, Seen, Round, Reads, files
<1>2. CASE RecoverArchive(c)
  <2>1. UNCHANGED <<ops, event, genome>> /\ Forward
    BY <1>1, <1>2, SameForward DEF RecoverArchive, Reads, files, Stay, place
  <2> DEFINE v == [mem[c] EXCEPT !.known = Lineage]
  <2>2. DOMAIN v = DOMAIN Fresh0 /\ v.phase = mem[c].phase /\ v.left = mem[c].left
    BY Fields
  <2>3. Goto(c, "recoverTrials") /\ Recall(c, v)
    BY <1>2 DEF RecoverArchive
  <2> HIDE DEF v
  <2>4. Plain("recoverTrials") /\ "recoverTrials" \in Recovery /\ pc[c] \notin Resting
    BY <1>2 DEF Plain, Considering, Choosing, Recovery, Recovering, RecoverArchive
  <2>5. mem[c].phase = "recover"
    BY <1>2 DEF ArchInv, Offers, RecoverArchive, Recovering
  <2> QED BY <1>1, <2>1, <2>2, <2>3, <2>4, <2>5, RecallPlain DEF Quiet
<1>3. CASE RecoverTrials(c)
  <2>1. UNCHANGED <<ops, event, genome>> /\ Forward /\ pc[c] = "recoverTrials"
    BY <1>1, <1>3, SameForward DEF RecoverTrials, Reads, files, Stay, place
  <2> DEFINE found == {g \in Genomes : trials[event[c]][g].status = "VALIDATED"}
             v == [mem[c] EXCEPT !.left = found]
  <2>2. DOMAIN v = DOMAIN Fresh0 /\ v.left = found /\ v.phase = mem[c].phase
    BY Fields
  <2>3. Goto(c, "recover") /\ Recall(c, v)
    BY <1>3 DEF RecoverTrials
  <2> HIDE DEF v
  <2>4. /\ DOMAIN mem' = Coordinators /\ mem'[c] = v
        /\ \A d \in Coordinators \ {c} : mem'[d] = mem[d]
    BY <2>3, RecallIs
  <2>5. pc'[c] = "recover" /\ \A d \in Coordinators \ {c} : pc'[d] = pc[d]
    BY <2>3, GotoIs
  <2>6. found = {g \in Genomes : trials'[event'[c]][g].status = "VALIDATED"}
    BY <1>1, <2>1
  <2> HIDE DEF found
  <2>7. mem[c].phase = "recover"
    BY <2>1 DEF ArchInv, Offers, Recovering
  <2>8. Offers(c)'
    BY <2>2, <2>4, <2>5, <2>6, <2>7 DEF Offers, Recovery, Recovering, Considering, Choosing
  <2> QED BY <1>1, <2>1, <2>4, <2>5, <2>8 DEF Quiet, Settled, Steady
<1>4. CASE Recover(c)
  <2>1. pc[c] = "recover" /\ event[c] \in Events
    BY <1>4, WorkingHasEvent DEF Recover
  <2>2. CASE mem[c].left = {} /\ Goto(c, "entries") /\ UNCHANGED <<ops, mem>> /\ Stay
    <3>1. Forward /\ Plain("entries") /\ "entries" \in Recovery /\ "entries" \notin Recovering
      BY <1>1, <2>2, SameForward DEF Plain, Considering, Choosing, Recovery, Recovering
    <3> QED BY <1>1, <2>1, <2>2, <3>1, SamePlain DEF Quiet, Stay, place
  <2>3. CASE End(c, "BLOCKED") /\ UNCHANGED ops
    BY <1>1, <2>3, SameForward, EndSettled DEF Quiet
  <2>4. ASSUME NEW g \in Genomes,
               LET e == event[c]
                   trial == trials[e][g] IN
               /\ g \in mem[c].left
               /\ CanSettle(e, g, trial.cost)
               /\ Settle(e, g, trial.cost)
               /\ genome' = [genome EXCEPT ![c] = g]
               /\ Recall(c, [mem[c] EXCEPT !.left = @ \ {g}, !.tries = 0])
               /\ Goto(c, IF trial.quality # 0 /\ <<e, g>> \notin mem[c].known
                          THEN "consider" ELSE "recovered")
               /\ UNCHANGED <<lease, event, batch, beside>>
        PROVE  Quiet(c)
    <3>1. Forward
      BY <1>1, <2>4, SettleForward
    <3> DEFINE v == [mem[c] EXCEPT !.left = @ \ {g}, !.tries = 0]
               p == IF trials[event[c]][g].quality # 0 /\ <<event[c], g>> \notin mem[c].known
                    THEN "consider" ELSE "recovered"
    <3>2. DOMAIN v = DOMAIN Fresh0 /\ v.left = mem[c].left \ {g} /\ v.phase = mem[c].phase
      BY Fields
    <3>3. Recall(c, v) /\ Goto(c, p)
      BY <2>4
    <3>4. p = "recovered" \/ (p = "consider" /\ trials[event[c]][g].quality # 0)
      OBVIOUS
    <3> HIDE DEF v, p
    <3>5. /\ DOMAIN mem' = Coordinators /\ mem'[c] = v
          /\ \A d \in Coordinators \ {c} : mem'[d] = mem[d]
      BY <3>3, RecallIs
    <3>6. pc'[c] = p /\ \A d \in Coordinators \ {c} : pc'[d] = pc[d]
      BY <3>3, GotoIs
    <3>7. /\ genome'[c] = g /\ event'[c] = event[c]
          /\ \A d \in Coordinators \ {c} : genome'[d] = genome[d] /\ event'[d] = event[d]
      BY <2>4 DEF LeaseInv, Locals
    <3>8. Offers(c)
      BY DEF ArchInv
    <3>9. ops'[event[c]][g].actual = trials[event[c]][g].cost
      BY <2>1, <2>4 DEF Settle, LeaseInv, Tables, LedgerShape, Operations
    <3>10. mem[c].phase = "recover"
      BY <2>1, <3>8 DEF Offers, Recovering
    <3>11. v.left \subseteq {h \in Genomes : trials'[event'[c]][h].status = "VALIDATED"}
      BY <1>1, <2>1, <3>2, <3>7, <3>8, <3>10 DEF Offers
    <3>12. trials[event[c]][g].status = "VALIDATED"
      BY <2>1, <2>4, <3>8, <3>10 DEF Offers
    <3>13. p = "consider" => Paid(event[c], genome[c])'
      BY <1>1, <3>4, <3>7, <3>9, <3>12 DEF Paid
    <3>14. Offers(c)'
      BY <3>2, <3>4, <3>5, <3>6, <3>10, <3>11, <3>13
         DEF Offers, Recovery, Recovering, Considering, Choosing
    <3> QED BY <1>1, <3>1, <3>5, <3>6, <3>7, <3>14 DEF Quiet, Settled, Steady
  <2> QED BY <1>4, <2>2, <2>3, <2>4 DEF Recover
<1>5. CASE Recovered(c)
  <2>1. UNCHANGED ops /\ Forward /\ pc[c] = "recovered" /\ mem[c].phase = "recover"
    BY <1>1, <1>5, SameForward DEF Recovered, files, ArchInv, Offers, Recovering
  <2>2. Plain("recover") /\ "recover" \in Recovery
    BY DEF Plain, Considering, Choosing, Recovery, Recovering
  <2> QED BY <1>1, <1>5, <2>1, <2>2, SamePlain, EndSettled DEF Recovered, Quiet, Stay, place
<1>6. CASE Entries(c)
  <2>1. UNCHANGED <<ops, event>> /\ Forward /\ pc[c] = "entries"
    BY <1>1, <1>6, SameForward DEF Entries, files
  <2>2. Plain("seen") /\ "seen" \in Recovery /\ "seen" \notin Recovering
    BY DEF Plain, Considering, Choosing, Recovery, Recovering
  <2>3. CASE Goto(c, "seen") /\ UNCHANGED <<genome, mem>>
    BY <1>1, <2>1, <2>2, <2>3, SamePlain DEF Quiet
  <2>4. CASE /\ Goto(c, "trial")
             /\ genome' = [genome EXCEPT ![c] = Baseline]
             /\ Recall(c, [mem[c] EXCEPT !.phase = "baseline"])
    <3> DEFINE v == [mem[c] EXCEPT !.phase = "baseline"]
    <3>1. DOMAIN v = DOMAIN Fresh0 /\ v.phase = "baseline"
      BY Fields
    <3>2. Recall(c, v)
      BY <2>4
    <3>3. \A d \in Coordinators \ {c} : genome'[d] = genome[d]
      BY <2>4 DEF LeaseInv, Locals
    <3>4. Plain("trial") /\ "trial" \notin Recovering
      BY DEF Plain, Considering, Choosing, Recovering
    <3> HIDE DEF v
    <3> QED BY <1>1, <2>1, <2>4, <3>1, <3>2, <3>3, <3>4, RecallPlain DEF Quiet
  <2> QED BY <1>6, <2>3, <2>4 DEF Entries
<1>7. CASE Seen(c)
  <2>1. UNCHANGED <<ops, event, genome>> /\ Forward /\ pc[c] = "seen" /\ Goto(c, "round")
    BY <1>1, <1>7, SameForward DEF Seen, Reads, files, Stay, place
  <2> DEFINE v == [mem[c] EXCEPT !.phase = "batch",
                     !.seen = {Baseline} \cup {archive.cells[k].genome : k \in Filled}]
  <2>2. DOMAIN v = DOMAIN Fresh0 /\ v.phase = "batch"
    BY Fields
  <2>3. Recall(c, v)
    BY <1>7 DEF Seen
  <2>4. Plain("round") /\ "round" \notin Recovering
    BY DEF Plain, Considering, Choosing, Recovering
  <2> HIDE DEF v
  <2> QED BY <1>1, <2>1, <2>2, <2>3, <2>4, RecallPlain DEF Quiet
<1>8. CASE Round(c)
  <2>1. UNCHANGED ops /\ Forward /\ pc[c] = "round" /\ mem[c].phase # "recover"
    BY <1>1, <1>8, SameForward DEF Round, files, ArchInv, Offers, Recovery, Recovering, Considering
  <2>2. Plain("batch") /\ "batch" \notin Recovering
    BY DEF Plain, Considering, Choosing, Recovering
  <2> QED BY <1>1, <1>8, <2>1, <2>2, SamePlain, EndSettled DEF Round, Quiet, Stay, place
<1> QED BY <1>2, <1>3, <1>4, <1>5, <1>6, <1>7, <1>8

\* A step after the recovery to a place where nothing is known.
LEMMA WorkQuiet ==
    ASSUME LeaseInv, ArchInv, Forward, NEW c \in Coordinators, pc[c] \notin Recovery,
           NEW p, Plain(p), p \notin Recovering, Goto(c, p),
           UNCHANGED <<archive, event>>,
           \A d \in Coordinators \ {c} : genome'[d] = genome[d],
           \/ UNCHANGED mem
           \/ \E v : Recall(c, v) /\ DOMAIN v = DOMAIN Fresh0 /\ v.phase = mem[c].phase
    PROVE  Quiet(c)
<1>1. pc[c] \notin Resting /\ mem[c].phase # "recover"
  BY DEF ArchInv, Offers, Recovery
<1>2. CASE UNCHANGED mem
  BY <1>1, <1>2, SamePlain DEF Quiet
<1>3. ASSUME NEW v, Recall(c, v), DOMAIN v = DOMAIN Fresh0, v.phase = mem[c].phase
      PROVE  Quiet(c)
  BY <1>1, <1>3, RecallPlain DEF Quiet
<1> QED BY <1>2, <1>3

LEMMA EndQuiet ==
    ASSUME LeaseInv, ArchInv, Forward, NEW c \in Coordinators, NEW outcome, End(c, outcome),
           UNCHANGED archive
    PROVE  Quiet(c)
BY EndSettled DEF Quiet

LEMMA RemainingQuiet ==
    ASSUME LeaseInv, ArchInv, NEW c \in Coordinators, NEW here, here \notin Recovery,
           NEW next, Plain(next), next \notin Recovering, Remaining(c, here, next)
    PROVE  Quiet(c)
<1>1. UNCHANGED <<ops, trials, archive>> /\ Forward /\ pc[c] = here
  BY SameForward DEF Remaining, files, At
<1>2. CASE End(c, "BUDGET_EXHAUSTED")
  BY <1>1, <1>2, EndQuiet
<1>3. CASE /\ Recall(c, [mem[c] EXCEPT !.tokens = TokenCap - Tokens(event[c])])
           /\ Goto(c, next)
           /\ Stay
  <2> DEFINE v == [mem[c] EXCEPT !.tokens = TokenCap - Tokens(event[c])]
  <2>1. Recall(c, v) /\ DOMAIN v = DOMAIN Fresh0 /\ v.phase = mem[c].phase
    BY <1>3, Fields
  <2> HIDE DEF v
  <2> QED BY <1>1, <1>3, <2>1, WorkQuiet DEF Stay, place
<1> QED BY <1>2, <1>3 DEF Remaining

LEMMA ReserveQuiet ==
    ASSUME LeaseInv, ArchInv, NEW c \in Coordinators, NEW here, here \notin Recovery, NEW o,
           NEW next, Plain(next), next \notin Recovering, ReserveWithCap(c, here, o, next)
    PROVE  Quiet(c)
<1>1. UNCHANGED <<trials, archive>> /\ pc[c] = here
  BY DEF ReserveWithCap, At
<1>2. Forward
  <2>1. CASE UNCHANGED ops
    BY <1>1, <2>1, SameForward
  <2>2. CASE /\ ops[event[c]][o].reserved = None
             /\ ops' = [ops EXCEPT ![event[c]][o] = [reserved |-> mem[c].tokens, actual |-> None,
                                                     started |-> FALSE]]
    <3> DEFINE op == [reserved |-> mem[c].tokens, actual |-> None, started |-> FALSE]
    <3>1. CASE event[c] \in Events /\ o \in Operations
      <4>1. Charged(ops[event[c]][o])
        BY <3>1 DEF ArchInv
      <4>2. Charged(op) /\ (ops[event[c]][o].actual # None => op.actual = ops[event[c]][o].actual)
        BY <2>2, <4>1 DEF Charged
      <4>3. ops' = [ops EXCEPT ![event[c]][o] = op]
        BY <2>2
      <4> HIDE DEF op
      <4> QED BY <1>1, <4>2, <4>3, OpForward
    <3>2. CASE ~(event[c] \in Events /\ o \in Operations)
      <4>1. \A e \in Events : \A q \in Operations : ops'[e][q] = ops[e][q]
        BY <2>2, <3>2 DEF LeaseInv, Tables, LedgerShape
      <4> QED BY <1>1, <4>1 DEF Forward, ArchInv
    <3> QED BY <3>1, <3>2
  <2> QED BY <2>1, <2>2, Zenon DEF ReserveWithCap
<1>3. End(c, "BUDGET_EXHAUSTED") \/ (Goto(c, next) /\ UNCHANGED mem /\ Stay)
  BY Zenon DEF ReserveWithCap
<1> QED BY <1>1, <1>2, <1>3, EndQuiet, WorkQuiet DEF Stay, place

LEMMA BatchQuiet ==
    ASSUME LeaseInv, ArchInv, NEW c \in Coordinators,
           \/ BatchOperation(c) \/ BatchStored(c) \/ BatchRemaining(c) \/ BatchReserve(c)
           \/ Proposed(c) \/ SaveBatch(c) \/ SettleBatch(c) \/ Proposals(c) \/ Proposal(c)
    PROVE  Quiet(c)
<1> USE DEF At
<1>1. UNCHANGED <<trials, archive>>
  BY DEF BatchOperation, BatchStored, BatchRemaining, BatchReserve, Remaining, ReserveWithCap,
         Proposed, SaveBatch, SettleBatch, Proposals, Proposal, Reads, files
<1>2. /\ \A p \in {"batchStored", "batchRemaining", "batchReserve", "parents", "proposals", "save",
                   "saved", "proposal", "round", "trial"} : Plain(p) /\ p \notin Recovering
      /\ \A p \in {"batch", "batchStored", "batchRemaining", "batchReserve", "proposing", "save",
                   "saved", "proposals", "proposal"} : p \notin Recovery
  BY DEF Plain, Considering, Choosing, Recovering, Recovery, Resting
<1>3. CASE BatchOperation(c)
  <2>1. Forward /\ pc[c] = "batch" /\ Goto(c, "batchStored") /\ UNCHANGED <<event, genome>>
    BY <1>1, <1>3, SameForward DEF BatchOperation, Reads, files, Stay, place
  <2> DEFINE v == [mem[c] EXCEPT !.tokens = ops[event[c]][batch[c]].reserved]
  <2>2. Recall(c, v) /\ DOMAIN v = DOMAIN Fresh0 /\ v.phase = mem[c].phase
    BY <1>3, Fields DEF BatchOperation
  <2> HIDE DEF v
  <2> QED BY <1>1, <1>2, <2>1, <2>2, WorkQuiet
<1>4. CASE BatchStored(c)
  <2>1. pc[c] = "batchStored"
    BY <1>4 DEF BatchStored
  <2>2. CASE End(c, "BLOCKED") /\ UNCHANGED ops
    BY <1>1, <2>2, SameForward, EndQuiet
  <2>3. CASE UNCHANGED <<ops, mem>> /\ Stay /\ (Goto(c, "batchRemaining") \/ Goto(c, "parents"))
    BY <1>1, <1>2, <2>1, <2>3, SameForward, WorkQuiet DEF Stay, place
  <2>4. CASE LET stored == batches[event[c]][batch[c]] IN
             /\ CanSettle(event[c], batch[c], stored.cost)
             /\ Settle(event[c], batch[c], stored.cost)
             /\ Recall(c, [mem[c] EXCEPT !.todo = stored.genomes, !.tokens = None])
             /\ Goto(c, "proposals")
             /\ Stay
    <3>1. Forward
      BY <1>1, <2>4, SettleForward
    <3> DEFINE v == [mem[c] EXCEPT !.todo = batches[event[c]][batch[c]].genomes, !.tokens = None]
    <3>2. Recall(c, v) /\ DOMAIN v = DOMAIN Fresh0 /\ v.phase = mem[c].phase
      BY <2>4, Fields
    <3> HIDE DEF v
    <3> QED BY <1>1, <1>2, <2>1, <2>4, <3>1, <3>2, WorkQuiet DEF Stay, place
  <2> QED BY <1>4, <2>2, <2>3, <2>4 DEF BatchStored
<1>5. CASE BatchRemaining(c)
  BY <1>2, <1>5, RemainingQuiet DEF BatchRemaining
<1>6. CASE BatchReserve(c)
  BY <1>2, <1>6, ReserveQuiet DEF BatchReserve
<1>7. CASE Proposed(c)
  <2>1. Forward /\ pc[c] = "proposing"
    BY <1>1, <1>7, SameForward DEF Proposed, files
  <2>2. CASE \E outcome : End(c, outcome)
    BY <1>1, <2>1, <2>2, EndQuiet
  <2>3. ASSUME NEW cost, NEW genomes, Goto(c, "save"), Stay,
               Recall(c, [mem[c] EXCEPT !.todo = genomes, !.cost = cost])
        PROVE  Quiet(c)
    <3> DEFINE v == [mem[c] EXCEPT !.todo = genomes, !.cost = cost]
    <3>1. Recall(c, v) /\ DOMAIN v = DOMAIN Fresh0 /\ v.phase = mem[c].phase
      BY <2>3, Fields
    <3> HIDE DEF v
    <3> QED BY <1>1, <1>2, <2>1, <2>3, <3>1, WorkQuiet DEF Stay, place
  <2> QED BY <1>7, <2>2, <2>3 DEF Proposed
<1>8. CASE SaveBatch(c)
  BY <1>1, <1>2, <1>8, SameForward, WorkQuiet DEF SaveBatch, Stay, place
<1>9. CASE SettleBatch(c)
  <2>1. pc[c] = "saved"
    BY <1>9 DEF SettleBatch
  <2>2. CASE End(c, "BLOCKED") /\ UNCHANGED ops
    BY <1>1, <2>2, SameForward, EndQuiet
  <2>3. CASE /\ CanSettle(event[c], batch[c], mem[c].cost)
             /\ Settle(event[c], batch[c], mem[c].cost)
             /\ Recall(c, [mem[c] EXCEPT !.tokens = None, !.cost = 0])
             /\ Goto(c, "proposals")
             /\ Stay
    <3>1. Forward
      BY <1>1, <2>3, SettleForward
    <3> DEFINE v == [mem[c] EXCEPT !.tokens = None, !.cost = 0]
    <3>2. Recall(c, v) /\ DOMAIN v = DOMAIN Fresh0 /\ v.phase = mem[c].phase
      BY <2>3, Fields
    <3> HIDE DEF v
    <3> QED BY <1>1, <1>2, <2>1, <2>3, <3>1, <3>2, WorkQuiet DEF Stay, place
  <2> QED BY <1>9, <2>2, <2>3 DEF SettleBatch
<1>10. CASE Proposals(c)
  <2>1. Forward /\ pc[c] = "proposals"
    BY <1>1, <1>10, SameForward DEF Proposals, files
  <2>2. CASE \E outcome : End(c, outcome)
    BY <1>1, <2>1, <2>2, EndQuiet
  <2>3. CASE Recall(c, [mem[c] EXCEPT !.improved = FALSE]) /\ Goto(c, "proposal") /\ Stay
    <3> DEFINE v == [mem[c] EXCEPT !.improved = FALSE]
    <3>1. Recall(c, v) /\ DOMAIN v = DOMAIN Fresh0 /\ v.phase = mem[c].phase
      BY <2>3, Fields
    <3> HIDE DEF v
    <3> QED BY <1>1, <1>2, <2>1, <2>3, <3>1, WorkQuiet DEF Stay, place
  <2> QED BY <1>10, <2>2, <2>3 DEF Proposals
<1>11. CASE Proposal(c)
  <2>1. Forward /\ pc[c] = "proposal"
    BY <1>1, <1>11, SameForward DEF Proposal, files
  <2>2. CASE \E outcome : End(c, outcome)
    BY <1>1, <2>1, <2>2, EndQuiet
  <2>3. CASE /\ Recall(c, [mem[c] EXCEPT !.stalled = IF mem[c].improved THEN 0 ELSE @ + 1])
             /\ Goto(c, "round") /\ UNCHANGED <<event, genome>>
    <3> DEFINE v == [mem[c] EXCEPT !.stalled = IF mem[c].improved THEN 0 ELSE @ + 1]
    <3>1. Recall(c, v) /\ DOMAIN v = DOMAIN Fresh0 /\ v.phase = mem[c].phase
      BY <2>3, Fields
    <3> HIDE DEF v
    <3> QED BY <1>1, <1>2, <2>1, <2>3, <3>1, WorkQuiet
  <2>4. CASE /\ Recall(c, [mem[c] EXCEPT !.todo = Tail(@), !.seen = @ \cup {Head(mem[c].todo)}])
             /\ UNCHANGED event
             /\ \/ UNCHANGED <<pc, genome>>
                \/ Goto(c, "trial") /\ genome' = [genome EXCEPT ![c] = Head(mem[c].todo)]
    <3> DEFINE v == [mem[c] EXCEPT !.todo = Tail(@), !.seen = @ \cup {Head(mem[c].todo)}]
    <3>1. Recall(c, v) /\ DOMAIN v = DOMAIN Fresh0 /\ v.phase = mem[c].phase
      BY <2>4, Fields
    <3> HIDE DEF v
    <3>2. \A d \in Coordinators \ {c} : genome'[d] = genome[d]
      BY <2>4 DEF LeaseInv, Locals
    <3>3. CASE UNCHANGED <<pc, genome>>
      <4>1. /\ DOMAIN mem' = Coordinators /\ mem'[c] = v
            /\ \A d \in Coordinators \ {c} : mem'[d] = mem[d]
        BY <3>1, RecallIs
      <4>2. mem[c].phase # "recover"
        BY <1>2, <2>1 DEF ArchInv, Offers
      <4>3. Offers(c)'
        BY <1>2, <2>1, <3>1, <3>3, <4>1, <4>2 DEF Offers, Plain, Considering, Choosing
      <4> QED BY <1>1, <2>1, <2>4, <3>3, <4>1, <4>3 DEF Quiet, Settled, Steady
    <3>4. CASE Goto(c, "trial")
      BY <1>1, <1>2, <2>1, <2>4, <3>1, <3>2, <3>4, WorkQuiet
    <3> QED BY <2>4, <3>3, <3>4
  <2> QED BY <1>11, <2>2, <2>3, <2>4, Zenon DEF Proposal
<1> QED BY <1>3, <1>4, <1>5, <1>6, <1>7, <1>8, <1>9, <1>10, <1>11

LEMMA ChoiceQuiet ==
    ASSUME LeaseInv, ArchInv, NEW c \in Coordinators,
           Parents(c) \/ Begin(c) \/ MarkUsed(c) \/ MarkRevision(c)
    PROVE  Quiet(c)
<1> USE DEF At
<1>1. UNCHANGED <<trials, archive>>
  BY DEF Parents, Begin, MarkUsed, MarkRevision, Reads, files
<1>2. pc[c] \notin Recovery /\ mem[c].phase # "recover" /\ Offers(c)
  BY DEF Parents, Begin, MarkUsed, MarkRevision, ArchInv, Offers, Recovery, Resting, Recovering,
         Considering
<1>3. Filled' = Filled
  BY <1>1 DEF Filled
\* To a place where the choice is made.
<1>4. ASSUME NEW p \in Choosing, Goto(c, p), UNCHANGED <<event, genome>>, Forward,
             DOMAIN mem' = Coordinators, DOMAIN mem'[c] = DOMAIN Fresh0,
             \A d \in Coordinators \ {c} : mem'[d] = mem[d],
             mem'[c].phase = mem[c].phase, mem'[c].left \subseteq Filled,
             p \in {"markRevision", "markCommit"} => mem'[c].cell \in mem'[c].left
      PROVE  Quiet(c)
  <2>1. pc'[c] = p /\ \A d \in Coordinators \ {c} : pc'[d] = pc[d]
    BY <1>4, GotoIs
  <2>2. Offers(c)'
    BY <1>2, <1>3, <1>4, <2>1 DEF Offers, Choosing, Recovering, Considering
  <2> QED BY <1>1, <1>4, <2>1, <2>2 DEF Quiet, Settled, Steady
<1>5. CASE Parents(c)
  <2>1. UNCHANGED <<event, genome>> /\ Forward /\ Goto(c, "begin")
    BY <1>1, <1>5, SameForward DEF Parents, Reads, files, Stay, place
  <2>2. PICK parents \in SUBSET Filled : Recall(c, [mem[c] EXCEPT !.left = parents, !.tries = 0])
    BY <1>5 DEF Parents
  <2> DEFINE v == [mem[c] EXCEPT !.left = parents, !.tries = 0]
  <2>3. Recall(c, v) /\ DOMAIN v = DOMAIN Fresh0 /\ v.phase = mem[c].phase /\ v.left = parents
    BY <2>2, Fields
  <2> HIDE DEF v
  <2>4. /\ DOMAIN mem' = Coordinators /\ mem'[c] = v
        /\ \A d \in Coordinators \ {c} : mem'[d] = mem[d]
    BY <2>3, RecallIs
  <2>5. "begin" \in Choosing
    BY DEF Choosing
  <2> QED BY <1>4, <2>1, <2>2, <2>3, <2>4, <2>5
<1>6. CASE Begin(c)
  <2>1. pc[c] = "begin" /\ mem[c].left \subseteq Filled
    BY <1>2, <1>6 DEF Begin, Offers, Choosing
  <2>2. CASE End(c, "BLOCKED") /\ UNCHANGED ops
    BY <1>1, <2>2, SameForward, EndQuiet
  <2>3. CASE LET op == ops[event[c]][batch[c]] IN
             /\ ops' = [ops EXCEPT ![event[c]][batch[c]] =
                           [reserved |-> op.reserved, actual |-> op.actual, started |-> TRUE]]
             /\ op.reserved # None
             /\ Goto(c, "mark")
             /\ UNCHANGED mem /\ Stay
    <3> DEFINE op == [reserved |-> ops[event[c]][batch[c]].reserved,
                      actual |-> ops[event[c]][batch[c]].actual, started |-> TRUE]
    <3>1. ops' = [ops EXCEPT ![event[c]][batch[c]] = op] /\ Charged(op)
          /\ op.actual = ops[event[c]][batch[c]].actual
      BY <2>3 DEF Charged
    <3> HIDE DEF op
    <3>2. Forward
      BY <1>1, <3>1, OpForward
    <3>3. DOMAIN mem' = Coordinators /\ DOMAIN mem'[c] = DOMAIN Fresh0
      BY <1>2, <2>3 DEF ArchInv, Offers
    <3>4. "mark" \in Choosing
      BY DEF Choosing
    <3> QED BY <1>4, <2>1, <2>3, <3>2, <3>3, <3>4 DEF Stay, place
  <2> QED BY <1>6, <2>2, <2>3 DEF Begin
<1>7. CASE MarkUsed(c)
  <2>1. /\ UNCHANGED <<event, genome>> /\ Forward /\ pc[c] = "mark" /\ mem[c].left \subseteq Filled
    BY <1>1, <1>2, <1>7, SameForward DEF MarkUsed, files, place, Offers, Choosing
  <2>2. CASE Goto(c, "proposing") /\ UNCHANGED mem
    <3>1. Plain("proposing") /\ "proposing" \notin Recovering
      BY DEF Plain, Considering, Choosing, Recovering
    <3> QED BY <1>1, <1>2, <2>1, <2>2, <3>1, WorkQuiet
  <2>3. ASSUME NEW k \in mem[c].left, Goto(c, "markRevision"),
               Recall(c, [mem[c] EXCEPT !.cell = k, !.entry = archive.cells[k]])
        PROVE  Quiet(c)
    <3> DEFINE v == [mem[c] EXCEPT !.cell = k, !.entry = archive.cells[k]]
    <3>1. Recall(c, v) /\ DOMAIN v = DOMAIN Fresh0 /\ v.phase = mem[c].phase
          /\ v.left = mem[c].left /\ v.cell = k
      BY <2>3, Fields
    <3> HIDE DEF v
    <3>2. /\ DOMAIN mem' = Coordinators /\ mem'[c] = v
          /\ \A d \in Coordinators \ {c} : mem'[d] = mem[d]
      BY <3>1, RecallIs
    <3>3. "markRevision" \in Choosing
      BY DEF Choosing
    <3> QED BY <1>4, <2>1, <2>3, <3>1, <3>2, <3>3
  <2> QED BY <1>7, <2>2, <2>3 DEF MarkUsed
<1>8. CASE MarkRevision(c)
  <2>1. /\ UNCHANGED <<event, genome>> /\ Forward /\ pc[c] = "markRevision"
        /\ mem[c].left \subseteq Filled /\ mem[c].cell \in mem[c].left
    BY <1>1, <1>2, <1>8, SameForward DEF MarkRevision, Reads, files, Stay, place, Offers, Choosing
  <2> DEFINE v == [mem[c] EXCEPT !.rev = archive.rev]
  <2>2. Recall(c, v) /\ DOMAIN v = DOMAIN Fresh0 /\ v.phase = mem[c].phase
        /\ v.left = mem[c].left /\ v.cell = mem[c].cell
    BY <1>8, Fields DEF MarkRevision
  <2> HIDE DEF v
  <2>3. /\ DOMAIN mem' = Coordinators /\ mem'[c] = v
        /\ \A d \in Coordinators \ {c} : mem'[d] = mem[d]
    BY <2>2, RecallIs
  <2>4. "markCommit" \in Choosing /\ Goto(c, "markCommit")
    BY <1>8 DEF Choosing, MarkRevision
  <2> QED BY <1>4, <2>1, <2>2, <2>3, <2>4
<1> QED BY <1>5, <1>6, <1>7, <1>8

LEMMA StatusTold ==
    ASSUME NEW t, Told(t), NEW s \in Statuses,
           t.quality # 0 => s \in {"COLLECTED", "VALIDATED"},
           s \in {"COLLECTED", "VALIDATED"} <=> t.status \in {"COLLECTED", "VALIDATED"}
    PROVE  Told(Status(t, s)) /\ (s = t.status => Status(t, s) = t)
BY DEF Told, TrialSet, Status

LEMMA TrialQuiet ==
    ASSUME LeaseInv, ArchInv, NEW c \in Coordinators,
           \/ TrialOperation(c) \/ TrialRemaining(c) \/ TrialReserve(c) \/ ReserveTrial(c)
           \/ TrialLease(c) \/ LeasedStart(c)
           \/ LeasedInterrupted(c) \/ LeasedFailed(c) \/ Execute(c) \/ Validate(c)
           \/ SettleTrial(c)
    PROVE  Quiet(c)
<1> USE DEF At
<1>1. UNCHANGED archive
  BY DEF TrialOperation, TrialRemaining, TrialReserve, Remaining, ReserveWithCap, ReserveTrial,
         TrialLease, LeasedStart, LeasedInterrupted, LeasedFailed, Execute, Validate, SettleTrial,
         Reads, files
<1>2. /\ \A p \in {"trialRemaining", "trialReserve", "trialRecord", "trialLease", "leased",
                   "executing", "validate", "tried"} : Plain(p) /\ p \notin Recovering
      /\ \A p \in {"trial", "trialRemaining", "trialReserve", "trialRecord", "trialLease", "leased",
                   "executing", "validate", "settle"} : p \notin Recovery
  BY DEF Plain, Considering, Choosing, Recovering, Recovery, Resting
<1>3. CASE TrialOperation(c)
  <2>1. /\ Forward /\ pc[c] = "trial" /\ UNCHANGED <<event, genome>>
        /\ Goto(c, "trialRemaining") \/ Goto(c, "trialRecord")
    BY <1>3, SameForward DEF TrialOperation, Reads, files, Stay, place
  <2> DEFINE v == [mem[c] EXCEPT !.tokens = ops[event[c]][genome[c]].reserved, !.accepted = FALSE]
  <2>2. Recall(c, v) /\ DOMAIN v = DOMAIN Fresh0 /\ v.phase = mem[c].phase
    BY <1>3, Fields DEF TrialOperation
  <2> HIDE DEF v
  <2> QED BY <1>1, <1>2, <2>1, <2>2, WorkQuiet
<1>4. CASE TrialRemaining(c)
  BY <1>2, <1>4, RemainingQuiet DEF TrialRemaining
<1>5. CASE TrialReserve(c)
  BY <1>2, <1>5, ReserveQuiet DEF TrialReserve
<1>6. ASSUME pc[c] \notin Recovery
      PROVE  event[c] \in Events /\ genome[c] \in Genomes /\ Told(Trial(c)) /\ Offers(c)
             /\ mem[c].phase # "recover"
  BY <1>6, WorkingHasEvent DEF Recovery, LeaseInv, Locals, ArchInv, Trial, Offers
<1>7. CASE ReserveTrial(c)
  <2>1. pc[c] = "trialRecord" /\ UNCHANGED ops
    BY <1>7 DEF ReserveTrial
  <2>2. CASE End(c, "BLOCKED") /\ UNCHANGED trials
    BY <1>1, <2>1, <2>2, SameForward, EndQuiet
  <2>3. ASSUME NEW status, status = IF Trial(c).status = "none" THEN "RESERVED" ELSE Trial(c).status,
               Untouched(Trial(c)),
               TrialBecomes(event[c], genome[c], Status(Trial(c), status)),
               Recall(c, [mem[c] EXCEPT !.status = status]),
               Goto(c, "trialLease"), Stay
        PROVE  Quiet(c)
    <3>1. Told(Trial(c)) /\ event[c] \in Events /\ genome[c] \in Genomes
      BY <1>2, <1>6, <2>1
    <3>2. status \in Statuses /\ status \notin {"COLLECTED", "VALIDATED"} /\ Trial(c).quality = 0
      BY <2>3, <3>1 DEF Told, TrialSet, Untouched, Statuses
    <3>3. /\ Told(Status(Trial(c), status))
          /\ Trial(c).status \in Final => Status(Trial(c), status) = Trial(c)
      BY <2>3, <3>1, <3>2, StatusTold DEF Final
    <3>4. Forward
      BY <2>1, <2>3, <3>1, <3>3, TrialForward DEF Trial
    <3> DEFINE v == [mem[c] EXCEPT !.status = status]
    <3>5. Recall(c, v) /\ DOMAIN v = DOMAIN Fresh0 /\ v.phase = mem[c].phase
      BY <2>3, Fields
    <3> HIDE DEF v
    <3> QED BY <1>1, <1>2, <2>1, <2>3, <3>4, <3>5, WorkQuiet DEF Stay, place
  <2> QED BY <1>7, <2>2, <2>3 DEF ReserveTrial
<1>8. CASE TrialLease(c)
  BY <1>1, <1>2, <1>8, SameForward, EndQuiet, WorkQuiet DEF TrialLease, files
<1>9. CASE LeasedStart(c)
  <2>1. pc[c] = "leased" /\ UNCHANGED ops
    BY <1>9 DEF LeasedStart
  <2>2. CASE End(c, "BLOCKED") /\ UNCHANGED trials
    BY <1>1, <2>1, <2>2, SameForward, EndQuiet
  <2>3. CASE /\ Trial(c).status = "RESERVED"
             /\ TrialBecomes(event[c], genome[c], Status(Trial(c), "RUNNING"))
             /\ Goto(c, "executing")
             /\ UNCHANGED mem /\ Stay
    <3>1. Told(Trial(c)) /\ event[c] \in Events /\ genome[c] \in Genomes
      BY <1>2, <1>6, <2>1
    <3>2. Told(Status(Trial(c), "RUNNING")) /\ Trial(c).status \notin Final
      BY <2>3, <3>1, StatusTold DEF Told, Statuses, Final
    <3>3. Forward
      BY <2>1, <2>3, <3>1, <3>2, TrialForward DEF Trial
    <3> QED BY <1>1, <1>2, <2>1, <2>3, <3>3, WorkQuiet DEF Stay, place
  <2> QED BY <1>9, <2>2, <2>3 DEF LeasedStart
<1>10. CASE LeasedInterrupted(c)
  <2>1. pc[c] = "leased" /\ UNCHANGED ops /\ End(c, "BLOCKED")
    BY <1>10 DEF LeasedInterrupted
  <2>2. CASE UNCHANGED trials
    BY <1>1, <2>1, <2>2, SameForward, EndQuiet
  <2>3. CASE /\ Trial(c).status = "RUNNING"
             /\ TrialBecomes(event[c], genome[c], Status(Trial(c), "INTERRUPTED"))
    <3>1. Told(Trial(c)) /\ event[c] \in Events /\ genome[c] \in Genomes
      BY <1>2, <1>6, <2>1
    <3>2. Told(Status(Trial(c), "INTERRUPTED")) /\ Trial(c).status \notin Final
      BY <2>3, <3>1, StatusTold DEF Told, Statuses, Final
    <3>3. Forward
      BY <2>1, <2>3, <3>1, <3>2, TrialForward DEF Trial
    <3> QED BY <1>1, <2>1, <3>3, EndQuiet
  <2> QED BY <1>10, <2>2, <2>3 DEF LeasedInterrupted
<1>11. CASE LeasedFailed(c)
  <2>1. pc[c] = "leased" /\ UNCHANGED trials /\ mem[c].phase # "recover" /\ pc[c] \notin Resting
    BY <1>2, <1>6, <1>11 DEF LeasedFailed, Resting
  <2>2. CASE End(c, "BLOCKED") /\ UNCHANGED ops
    BY <1>1, <2>1, <2>2, SameForward, EndQuiet
  <2>3. CASE CanSettle(event[c], genome[c], 0) /\ Settle(event[c], genome[c], 0) /\ Finish(c, FALSE)
    BY <1>1, <2>1, <2>3, SettleForward, FinishSettled DEF Quiet
  <2> QED BY <1>11, <2>2, <2>3 DEF LeasedFailed
<1>12. CASE Execute(c)
  <2>1. pc[c] = "executing" /\ UNCHANGED ops
    BY <1>12 DEF Execute
  <2>2. ASSUME NEW t, Outcome(c, t), Told(t), t.status \in {"COLLECTED", "FAILED", "INTERRUPTED"}
        PROVE  Quiet(c)
    <3>1. event[c] \in Events /\ genome[c] \in Genomes /\ Offers(c) /\ mem[c].phase # "recover"
      BY <1>2, <1>6, <2>1
    <3>2. CASE End(c, "BLOCKED") /\ UNCHANGED trials
      BY <1>1, <2>1, <3>2, SameForward, EndQuiet
    <3>3. CASE Trial(c).status = "RUNNING" /\ TrialBecomes(event[c], genome[c], t)
      <4>1. Forward
        BY <2>1, <2>2, <3>1, <3>3, TrialForward DEF Trial, Final
      <4>2. CASE End(c, "BLOCKED")
        BY <1>1, <4>1, <4>2, EndQuiet
      <4>3. CASE Goto(c, "validate") /\ UNCHANGED mem /\ Stay
        BY <1>1, <1>2, <2>1, <4>1, <4>3, WorkQuiet DEF Stay, place
      <4>4. CASE t.status = "FAILED" /\ Goto(c, "settle") /\ UNCHANGED mem /\ Stay
        <5>1. pc'[c] = "settle" /\ \A d \in Coordinators \ {c} : pc'[d] = pc[d]
          BY <4>4, GotoIs
        <5>2. UNCHANGED <<event, genome, mem>> /\ DOMAIN mem = Coordinators
          BY <4>4 DEF Stay, place, ArchInv
        <5>3. trials'[event[c]][genome[c]] = t
          BY <3>1, <3>3, BecomesKeeps DEF LeaseInv, Tables
        <5>4. Trial(c)'.status \in Final
          BY <4>4, <5>2, <5>3 DEF Trial, Final
        <5>5. Offers(c)'
          BY <3>1, <5>1, <5>2, <5>4 DEF Offers, Recovering, Considering, Choosing
        <5> QED BY <1>1, <4>1, <5>1, <5>2, <5>5 DEF Quiet, Settled, Steady
      <4> QED BY <2>2, <3>3, <4>2, <4>3, <4>4 DEF Outcome
    <3> QED BY <2>2, <3>2, <3>3 DEF Outcome
  <2>3. ASSUME NEW q \in Qualities \cup {0}, NEW k \in Cells, NEW cost \in Costs
        PROVE  Told([status |-> "COLLECTED", cost |-> cost, quality |-> q, cell |-> k])
    BY DEF Told, TrialSet, Statuses
  <2>4. ASSUME NEW status \in {"FAILED", "INTERRUPTED"}, NEW cost \in Costs \cup {0}
        PROVE  Told([status |-> status, cost |-> cost, quality |-> 0, cell |-> "none"])
    BY DEF Told, TrialSet, Statuses
  <2> QED BY <1>12, <2>2, <2>3, <2>4 DEF Execute
<1>13. CASE Validate(c)
  <2>1. pc[c] = "validate" /\ UNCHANGED ops
    BY <1>13 DEF Validate
  <2>2. CASE End(c, "BLOCKED") /\ UNCHANGED trials
    BY <1>1, <2>1, <2>2, SameForward, EndQuiet
  <2>3. CASE /\ Trial(c).status = "COLLECTED"
             /\ TrialBecomes(event[c], genome[c], Status(Trial(c), "VALIDATED"))
             /\ Goto(c, "settle")
             /\ UNCHANGED mem /\ Stay
    <3>1. /\ Told(Trial(c)) /\ event[c] \in Events /\ genome[c] \in Genomes /\ Offers(c)
          /\ mem[c].phase # "recover"
      BY <1>2, <1>6, <2>1
    <3>2. Told(Status(Trial(c), "VALIDATED")) /\ Trial(c).status \notin Final
      BY <2>3, <3>1, StatusTold DEF Told, Statuses, Final
    <3>3. Forward
      BY <2>1, <2>3, <3>1, <3>2, TrialForward DEF Trial
    <3>4. pc'[c] = "settle" /\ \A d \in Coordinators \ {c} : pc'[d] = pc[d]
      BY <2>3, GotoIs
    <3>5. UNCHANGED <<event, genome, mem>> /\ DOMAIN mem = Coordinators
      BY <2>3 DEF Stay, place, ArchInv
    <3>6. trials'[event[c]][genome[c]] = Status(Trial(c), "VALIDATED")
      BY <2>3, <3>1, BecomesKeeps DEF LeaseInv, Tables
    <3>7. Trial(c)'.status \in Final
      BY <3>5, <3>6, StatusIs DEF Trial, Final
    <3>8. Offers(c)'
      BY <3>1, <3>4, <3>5, <3>7 DEF Offers, Recovering, Considering, Choosing
    <3> QED BY <1>1, <3>3, <3>4, <3>5, <3>8 DEF Quiet, Settled, Steady
  <2> QED BY <1>13, <2>2, <2>3 DEF Validate
<1>14. CASE SettleTrial(c)
  <2>1. /\ pc[c] = "settle" /\ UNCHANGED trials /\ Offers(c) /\ mem[c].phase # "recover"
        /\ event[c] \in Events /\ genome[c] \in Genomes /\ Told(Trial(c)) /\ pc[c] \notin Resting
    BY <1>2, <1>6, <1>14 DEF SettleTrial, Resting
  <2>2. CASE End(c, "BLOCKED") /\ UNCHANGED ops
    BY <1>1, <2>1, <2>2, SameForward, EndQuiet
  <2>3. CASE /\ CanSettle(event[c], genome[c], Trial(c).cost)
             /\ Settle(event[c], genome[c], Trial(c).cost)
    <3>1. Forward
      BY <2>1, <2>3, SettleForward
    <3>2. CASE Finish(c, FALSE)
      BY <1>1, <2>1, <3>1, <3>2, FinishSettled DEF Quiet
    <3>3. CASE /\ Trial(c).quality # 0
               /\ Recall(c, [mem[c] EXCEPT !.tries = 0])
               /\ Goto(c, "consider")
               /\ Stay
      <4> DEFINE v == [mem[c] EXCEPT !.tries = 0]
      <4>1. Recall(c, v) /\ DOMAIN v = DOMAIN Fresh0 /\ v.phase = mem[c].phase
        BY <3>3, Fields
      <4> HIDE DEF v
      <4>2. /\ DOMAIN mem' = Coordinators /\ mem'[c] = v
            /\ \A d \in Coordinators \ {c} : mem'[d] = mem[d]
        BY <4>1, RecallIs
      <4>3. pc'[c] = "consider" /\ \A d \in Coordinators \ {c} : pc'[d] = pc[d]
        BY <3>3, GotoIs
      <4>4. UNCHANGED <<event, genome>>
        BY <3>3 DEF Stay, place
      <4>5. Trial(c).status = "VALIDATED"
        BY <2>1, <3>3 DEF Offers, Told, Final
      <4>6. ops'[event[c]][genome[c]].actual = Trial(c).cost
        BY <2>1, <2>3 DEF Settle, LeaseInv, Tables, LedgerShape, Operations
      <4>7. Paid(event[c], genome[c])'
        BY <2>1, <3>3, <4>4, <4>5, <4>6 DEF Paid, Trial
      <4>8. Offers(c)'
        BY <2>1, <4>1, <4>2, <4>3, <4>7 DEF Offers, Recovering, Considering, Choosing, Recovery
      <4> QED BY <1>1, <3>1, <4>2, <4>3, <4>4, <4>8 DEF Quiet, Settled, Steady
    <3> QED BY <1>14, <2>1, <2>3, <3>2, <3>3 DEF SettleTrial
  <2> QED BY <1>14, <2>2, <2>3 DEF SettleTrial
<1> QED BY <1>3, <1>4, <1>5, <1>7, <1>8, <1>9, <1>10, <1>11, <1>12, <1>13, <1>14

-----------------------------------------------------------------------------
(* The commits.                                                             *)

\* Cell k becomes an entry that is no worse than what it had.
Succeeds(k, new) ==
    archive.cells[k] # NoEntry =>
        /\ new.quality >= archive.cells[k].quality - Tolerance
        /\ archive.cells[k].lineage \subseteq new.lineage
        /\ new.used >= archive.cells[k].used

LEMMA PublishOnward ==
    ASSUME ArchInv, NEW k \in Cells, NEW new \in Entry, new # NoEntry, Succeeds(k, new),
           archive'.cells = Index(k, new)
    PROVE  /\ CellsOnward /\ archive'.cells \in [Cells -> Entry]
           /\ archive'.cells[k] = new
           /\ \A j \in Cells : j # k => archive'.cells[j] = archive.cells[j]
<1>1. /\ archive.cells \in [Cells -> Entry] /\ archive'.cells = [archive.cells EXCEPT ![k] = new]
  BY DEF ArchInv, Index
<1>2. /\ archive'.cells \in [Cells -> Entry]
      /\ archive'.cells[k] = new
      /\ \A j \in Cells : j # k => archive'.cells[j] = archive.cells[j]
  BY <1>1
<1>3. ASSUME NEW j \in Filled
      PROVE  /\ archive'.cells[j] # NoEntry
             /\ archive'.cells[j].quality >= archive.cells[j].quality - Tolerance
             /\ archive.cells[j].lineage \subseteq archive'.cells[j].lineage
             /\ archive'.cells[j].used >= archive.cells[j].used
  <2>1. j \in Cells /\ archive.cells[j] # NoEntry
    BY DEF Filled
  <2>2. CASE j = k
    BY <1>2, <2>1, <2>2 DEF Succeeds
  <2>3. CASE j # k
    <3>1. archive'.cells[j] = archive.cells[j]
      BY <1>2, <2>1, <2>3
    <3>2. archive.cells[j].quality \in Int /\ archive.cells[j].used \in Int
      BY <1>1, <2>1, EntryNumbers
    <3> QED BY <2>1, <3>1, <3>2, EvolutionAssumption
  <2> QED BY <2>2, <2>3
<1> QED BY <1>2, <1>3 DEF CellsOnward

LEMMA PublishLeads ==
    ASSUME LeaseInv, ArchInv, NEW c \in Coordinators, Steady(c), Forward, Offers(c)',
           NEW k \in Cells, NEW new \in Entry, new # NoEntry, Succeeds(k, new), Backed(new, k)',
           archive'.cells = Index(k, new)
    PROVE  ArchInv' /\ CellsOnward
<1>1. /\ CellsOnward /\ archive'.cells \in [Cells -> Entry]
      /\ archive'.cells[k] = new
      /\ \A j \in Cells : j # k => archive'.cells[j] = archive.cells[j]
  BY PublishOnward
<1>2. ASSUME NEW j \in Filled'
      PROVE  Backed(archive.cells[j], j)'
  <2>1. j \in Cells
    BY DEF Filled
  <2>2. CASE j = k
    BY <1>1, <2>2 DEF Backed
  <2>3. CASE j # k
    <3>1. j \in Filled /\ archive.cells'[j] = archive.cells[j]
      BY <1>1, <2>1, <2>3 DEF Filled
    <3> QED BY <3>1, StillBacked DEF Backed
  <2> QED BY <2>2, <2>3
<1> QED BY <1>1, <1>2, ArchFollows

LEMMA MarkCommitLeads ==
    ASSUME LeaseInv, ArchInv, NEW c \in Coordinators, MarkCommit(c)
    PROVE  ArchInv' /\ CellsOnward
<1> DEFINE m == mem[c]
           done == [m EXCEPT !.left = @ \ {m.cell}, !.cell = "none", !.entry = NoEntry,
                             !.rev = 0, !.tries = 0]
           more == [m EXCEPT !.tries = @ + 1]
           new == [m.entry EXCEPT !.used = @ + 1]
<1>1. UNCHANGED <<ops, trials>> /\ pc[c] = "markCommit" /\ Forward
  BY SameForward DEF MarkCommit, At
<1>2. /\ Offers(c) /\ m.phase # "recover" /\ m.left \subseteq Filled /\ m.cell \in m.left
      /\ pc[c] \notin Recovery
  BY <1>1 DEF ArchInv, Offers, Recovery, Recovering, Resting, Considering, Choosing
<1>3. /\ DOMAIN done = DOMAIN Fresh0 /\ done.phase = m.phase /\ done.left = m.left \ {m.cell}
      /\ DOMAIN more = DOMAIN Fresh0 /\ more.phase = m.phase /\ more.left = m.left
  BY Fields
\* Back to the choice of the next parent.
<1>4. ASSUME NEW v, Recall(c, v), DOMAIN v = DOMAIN Fresh0, v.phase = m.phase,
             v.left \subseteq m.left, Goto(c, "mark"), Stay, Filled \subseteq Filled'
      PROVE  Steady(c) /\ Offers(c)'
  <2>1. /\ DOMAIN mem' = Coordinators /\ mem'[c] = v
        /\ \A d \in Coordinators \ {c} : mem'[d] = mem[d]
    BY <1>4, RecallIs
  <2>2. pc'[c] = "mark" /\ \A d \in Coordinators \ {c} : pc'[d] = pc[d]
    BY <1>4, GotoIs
  <2>3. Steady(c)
    BY <1>4, <2>1, <2>2 DEF Steady, Stay, place
  <2>4. Offers(c)'
    BY <1>2, <1>4, <2>1, <2>2 DEF Offers, Recovering, Considering
  <2> QED BY <2>3, <2>4
<1>5. CASE UNCHANGED archive /\ Stay /\ Goto(c, "mark") /\ (Recall(c, done) \/ Recall(c, more))
  <2>1. Filled' = Filled
    BY <1>5 DEF Filled
  <2> HIDE DEF done, more
  <2>2. Steady(c) /\ Offers(c)'
    BY <1>3, <1>4, <1>5, <2>1
  <2> QED BY <1>1, <1>5, <2>2, ArchLeads
<1>6. CASE \E cells : Orphan(cells, TRUE) /\ Die(c)
  <2>1. archive'.cells = archive.cells
    BY <1>6 DEF Orphan
  <2>2. Settled(c)
    BY <1>6, DieSettled
  <2> QED BY <1>1, <2>1, <2>2, ArchLeads DEF Settled
<1>7. CASE /\ Fresh(m.cell, m.entry, m.rev)
           /\ Publish(Index(m.cell, new))
           /\ Recall(c, done) /\ Goto(c, "mark") /\ Stay
  <2>1. m.cell \in Cells /\ archive.cells[m.cell] = m.entry /\ m.entry \in Entry /\ m.entry # NoEntry
    BY <1>2, <1>7 DEF Fresh, Filled, ArchInv
  <2>2. /\ new \in Entry /\ new.event = m.entry.event /\ new.genome = m.entry.genome
        /\ new.quality = m.entry.quality /\ new.used = m.entry.used + 1
        /\ new.lineage = m.entry.lineage
    BY <2>1 DEF Entry
  <2>3. Backed(m.entry, m.cell)
    BY <1>2, <2>1 DEF ArchInv
  <2>4. PICK entry \in Entry : entry = new
    BY <2>2
  <2>5. PICK k \in Cells : k = m.cell
    BY <2>1
  <2>6. archive'.cells = Index(k, entry)
    BY <1>7, <2>4, <2>5 DEF Publish
  <2> HIDE DEF new, done
  <2>7. Backed(entry, k)
    BY <2>2, <2>3, <2>4, <2>5 DEF Backed
  <2>8. Backed(entry, k)'
    BY <1>1, <2>7, BackedStays
  <2>9. m.entry.quality \in Int /\ m.entry.used \in Int
    BY <2>1, EntryNumbers
  <2>10. Succeeds(k, entry) /\ entry # NoEntry
    <3>1. entry.used > 0
      BY <2>1, <2>2, <2>4 DEF Entry
    <3>2. entry # NoEntry
      BY <3>1 DEF NoEntry
    <3> QED BY <2>1, <2>2, <2>4, <2>5, <2>9, <3>2, EvolutionAssumption DEF Succeeds
  <2>11. Filled \subseteq Filled'
    BY <2>6, <2>10, PublishOnward DEF CellsOnward, Filled
  <2>12. Steady(c) /\ Offers(c)'
    BY <1>3, <1>4, <1>7, <2>11
  <2> QED BY <1>1, <2>6, <2>8, <2>10, <2>12, PublishLeads
<1> QED BY <1>5, <1>6, <1>7, Zenon DEF MarkCommit

LEMMA ConsiderCommitLeads ==
    ASSUME LeaseInv, ArchInv, NEW c \in Coordinators, ConsiderCommit(c)
    PROVE  ArchInv' /\ CellsOnward
<1> DEFINE m == mem[c]
           more == [m EXCEPT !.tries = @ + 1]
           new == [event |-> event[c], genome |-> genome[c],
                   quality |-> Trial(c).quality, used |-> m.entry.used,
                   lineage |-> m.entry.lineage \cup {<<event[c], genome[c]>>}]
<1>1. UNCHANGED <<ops, trials>> /\ pc[c] = "considerCommit" /\ Forward
  BY SameForward DEF ConsiderCommit, At
<1>2. /\ Offers(c) /\ Paid(event[c], genome[c]) /\ m.cell = Trial(c).cell
      /\ Trial(c).quality >= m.entry.quality - Tolerance /\ pc[c] \notin Resting
  BY <1>1 DEF ArchInv, Offers, Considering, Resting
<1>3. event[c] \in Events /\ genome[c] \in Genomes /\ Told(Trial(c))
  BY <1>2, WorkingHasEvent DEF LeaseInv, Locals, ArchInv, Trial
<1>4. CASE UNCHANGED archive /\ Recall(c, more) /\ Goto(c, "consider") /\ Stay
  <2>1. DOMAIN more = DOMAIN Fresh0 /\ more.phase = m.phase /\ more.left = m.left
    BY Fields
  <2> HIDE DEF more
  <2>2. /\ DOMAIN mem' = Coordinators /\ mem'[c] = more
        /\ \A d \in Coordinators \ {c} : mem'[d] = mem[d]
    BY <1>4, RecallIs
  <2>3. pc'[c] = "consider" /\ \A d \in Coordinators \ {c} : pc'[d] = pc[d]
    BY <1>4, GotoIs
  <2>4. UNCHANGED <<event, genome>>
    BY <1>4 DEF Stay, place
  <2>5. Paid(event[c], genome[c])'
    BY <1>1, <1>2, <2>4 DEF Paid
  <2>6. Offers(c)'
    BY <1>1, <1>2, <2>1, <2>2, <2>3, <2>4, <2>5
       DEF Offers, Recovering, Considering, Choosing, Recovery
  <2>7. Steady(c)
    BY <2>2, <2>3, <2>4 DEF Steady
  <2> QED BY <1>1, <1>4, <2>6, <2>7, ArchLeads
<1>5. CASE UNCHANGED archive /\ (End(c, "BLOCKED") \/ (m.phase # "recover" /\ Finish(c, FALSE)))
  BY <1>1, <1>2, <1>5, EndSettled, FinishSettled, ArchLeads DEF Settled
<1>6. CASE \E cells : Orphan(cells, FALSE) /\ Die(c)
  <2>1. archive'.cells = archive.cells
    BY <1>6 DEF Orphan
  <2>2. Settled(c)
    BY <1>6, DieSettled
  <2> QED BY <1>1, <2>1, <2>2, ArchLeads DEF Settled
<1>7. CASE /\ Fresh(m.cell, m.entry, m.rev)
           /\ Publish(Index(m.cell, new))
           /\ Considered(c, TRUE)
  <2>1. m.cell \in Cells /\ archive.cells[m.cell] = m.entry /\ m.entry \in Entry
    BY <1>2, <1>3, <1>7 DEF Fresh, Paid, Told, Trial, ArchInv
  <2>2. PICK k \in Cells : k = m.cell
    BY <2>1
  <2>3. new \in Entry
    <3>1. m.entry.used \in Nat /\ m.entry.lineage \subseteq Events \X Genomes
      BY <2>1 DEF Entry
    <3>2. Trial(c).quality \in Qualities \cup {0}
      BY <1>3 DEF Told, TrialSet
    <3>3. m.entry.lineage \cup {<<event[c], genome[c]>>} \in SUBSET (Events \X Genomes)
      BY <1>3, <3>1
    <3> QED BY <1>3, <3>1, <3>2, <3>3 DEF Entry
  <2>4. PICK entry \in Entry : entry = new
    BY <2>3
  <2>5. /\ entry.event = event[c] /\ entry.genome = genome[c] /\ entry.used = m.entry.used
        /\ entry.quality = Trial(c).quality
        /\ entry.lineage = m.entry.lineage \cup {<<event[c], genome[c]>>}
    BY <2>4
  <2>6. archive'.cells = Index(k, entry)
    BY <1>7, <2>2, <2>4 DEF Publish
  <2> HIDE DEF new
  <2>7. m.entry # NoEntry => Backed(m.entry, k)
    BY <2>1, <2>2 DEF ArchInv, Filled
  <2>8. ASSUME NEW past \in m.entry.lineage
        PROVE  Paid(past[1], past[2]) /\ trials[past[1]][past[2]].cell = k
    <3>1. m.entry # NoEntry
      BY DEF NoEntry
    <3> QED BY <2>7, <3>1 DEF Backed
  <2>9. Backed(entry, k)
    <3>1. trials[event[c]][genome[c]].cell = k
      BY <1>2, <2>2 DEF Trial
    <3>2. ASSUME NEW past \in entry.lineage
          PROVE  Paid(past[1], past[2]) /\ trials[past[1]][past[2]].cell = k
      <4>1. CASE past \in m.entry.lineage
        BY <2>8, <4>1
      <4>2. CASE past = <<event[c], genome[c]>>
        BY <1>2, <3>1, <4>2
      <4> QED BY <2>5, <4>1, <4>2
    <3> QED BY <2>5, <3>2 DEF Backed, Trial
  <2>10. Backed(entry, k)'
    BY <1>1, <2>9, BackedStays
  <2>11. m.entry.used \in Int
    BY <2>1, EntryNumbers
  <2>12. Succeeds(k, entry)
    BY <1>2, <2>1, <2>2, <2>5, <2>11 DEF Succeeds
  <2>13. entry # NoEntry
    <3>1. entry.quality # 0
      BY <1>2, <2>5 DEF Paid, Trial
    <3> QED BY <3>1 DEF NoEntry
  <2>14. Settled(c)
    BY <1>1, <1>2, <1>7, ConsideredSettled
  <2> QED BY <1>1, <2>6, <2>10, <2>12, <2>13, <2>14, PublishLeads DEF Settled
<1> QED BY <1>4, <1>5, <1>6, <1>7, Zenon DEF ConsiderCommit

LEMMA ConsiderQuiet ==
    ASSUME LeaseInv, ArchInv, NEW c \in Coordinators,
           Consider(c) \/ ConsiderRevision(c) \/ Tried(c) \/ Crash(c)
    PROVE  Quiet(c)
<1> USE DEF At
<1>1. UNCHANGED <<ops, trials, archive>> /\ Forward /\ pc[c] \notin Resting /\ Offers(c)
  BY SameForward DEF Consider, ConsiderRevision, Tried, Crash, Reads, files, Resting, ArchInv
<1>2. event[c] \in Events /\ genome[c] \in Genomes /\ Told(Trial(c))
  BY <1>1, WorkingHasEvent DEF LeaseInv, Locals, ArchInv, Trial
\* On to the commit, with what was read of the archive.
<1>3. ASSUME pc[c] \in Considering, NEW p \in {"considerRevision", "considerCommit"}, Goto(c, p), Stay,
             NEW v, Recall(c, v), DOMAIN v = DOMAIN Fresh0, v.phase = mem[c].phase,
             v.left = mem[c].left, v.cell = Trial(c).cell,
             Trial(c).quality >= v.entry.quality - Tolerance
      PROVE  Quiet(c)
  <2>1. /\ DOMAIN mem' = Coordinators /\ mem'[c] = v
        /\ \A d \in Coordinators \ {c} : mem'[d] = mem[d]
    BY <1>3, RecallIs
  <2>2. pc'[c] = p /\ \A d \in Coordinators \ {c} : pc'[d] = pc[d]
    BY <1>3, GotoIs
  <2>3. UNCHANGED <<event, genome>> /\ Trial(c)' = Trial(c)
    BY <1>1, <1>3 DEF Stay, place, Trial
  <2>4. Paid(event[c], genome[c])'
    BY <1>1, <1>3, <2>3 DEF Offers, Paid
  <2>5. Offers(c)'
    BY <1>1, <1>3, <2>1, <2>2, <2>3, <2>4 DEF Offers, Recovering, Considering, Choosing, Recovery
  <2>6. Steady(c)
    BY <2>1, <2>2, <2>3 DEF Steady
  <2> QED BY <1>1, <2>5, <2>6 DEF Quiet, Settled
<1>4. CASE Consider(c)
  <2>1. pc[c] = "consider" /\ Paid(event[c], genome[c])
    BY <1>1, <1>4 DEF Consider, Offers, Considering
  <2>2. CASE Considered(c, FALSE)
    BY <1>1, <2>2, ConsideredSettled DEF Quiet
  <2>3. CASE LET old == archive.cells[Trial(c).cell]
                 q == Trial(c).quality IN
             /\ old = NoEntry \/ Better(q, old.quality) \/ Tied(q, old.quality)
             /\ Recall(c, [mem[c] EXCEPT !.cell = Trial(c).cell, !.entry = old])
             /\ Goto(c, "considerRevision")
             /\ Stay
    <3> DEFINE old == archive.cells[Trial(c).cell]
               v == [mem[c] EXCEPT !.cell = Trial(c).cell, !.entry = old]
    <3>1. DOMAIN v = DOMAIN Fresh0 /\ v.phase = mem[c].phase /\ v.left = mem[c].left
          /\ v.cell = Trial(c).cell /\ v.entry = old
      BY Fields
    <3>2. Recall(c, v)
      BY <2>3
    <3>3. old \in Entry
      BY <1>2, <2>1 DEF Told, Paid, Trial, ArchInv
    <3>4. old.quality \in Int /\ (old = NoEntry => old.quality = 0)
      BY <3>3, EntryNumbers DEF NoEntry
    <3>5. Trial(c).quality \in Int /\ Trial(c).quality > 0
      <4>1. Trial(c).quality \in Qualities
        BY <1>2, <2>1 DEF Told, TrialSet, Paid, Trial
      <4>2. \A q \in Qualities : q \in Int /\ q > 0
        BY EvolutionAssumption
      <4> QED BY <4>1, <4>2
    <3>6. old = NoEntry \/ Better(Trial(c).quality, old.quality) \/ Tied(Trial(c).quality, old.quality)
      BY <2>3
    <3>7. Trial(c).quality >= old.quality - Tolerance
      BY <3>4, <3>5, <3>6, EvolutionAssumption DEF Better, Tied
    <3> HIDE DEF v, old
    <3>8. "considerRevision" \in {"considerRevision", "considerCommit"} /\ pc[c] \in Considering
      BY <2>1 DEF Considering
    <3> QED BY <1>3, <2>3, <3>1, <3>2, <3>7, <3>8
  <2> QED BY <1>4, <2>2, <2>3 DEF Consider
<1>5. CASE ConsiderRevision(c)
  <2>1. /\ pc[c] = "considerRevision" /\ mem[c].cell = Trial(c).cell
        /\ Trial(c).quality >= mem[c].entry.quality - Tolerance
    BY <1>1, <1>5 DEF ConsiderRevision, Offers
  <2> DEFINE v == [mem[c] EXCEPT !.rev = archive.rev]
  <2>2. DOMAIN v = DOMAIN Fresh0 /\ v.phase = mem[c].phase /\ v.left = mem[c].left
        /\ v.cell = mem[c].cell /\ v.entry = mem[c].entry
    BY Fields
  <2>3. Recall(c, v) /\ Goto(c, "considerCommit") /\ Stay
    BY <1>5 DEF ConsiderRevision, Reads
  <2> HIDE DEF v
  <2>4. "considerCommit" \in {"considerRevision", "considerCommit"} /\ pc[c] \in Considering
    BY <2>1 DEF Considering
  <2> QED BY <1>3, <2>1, <2>2, <2>3, <2>4
<1>6. CASE Tried(c)
  <2>1. pc[c] = "tried" /\ pc[c] \notin Recovery
    BY <1>6 DEF Tried, Recovery, Recovering, Resting, Considering
  <2>2. CASE \E outcome : End(c, outcome)
    BY <1>1, <2>2, EndQuiet
  <2>3. CASE Goto(c, "seen") /\ UNCHANGED mem /\ Stay
    <3>1. Plain("seen") /\ "seen" \notin Recovering
      BY DEF Plain, Considering, Choosing, Recovering
    <3> QED BY <1>1, <2>1, <2>3, <3>1, WorkQuiet DEF Stay, place
  <2>4. CASE /\ Goto(c, "proposal")
             /\ Recall(c, [mem[c] EXCEPT !.improved = @ \/ mem[c].accepted])
             /\ Stay
    <3> DEFINE v == [mem[c] EXCEPT !.improved = @ \/ mem[c].accepted]
    <3>1. Recall(c, v) /\ DOMAIN v = DOMAIN Fresh0 /\ v.phase = mem[c].phase
      BY <2>4, Fields
    <3> HIDE DEF v
    <3>2. Plain("proposal") /\ "proposal" \notin Recovering
      BY DEF Plain, Considering, Choosing, Recovering
    <3> QED BY <1>1, <2>1, <2>4, <3>1, <3>2, WorkQuiet DEF Stay, place
  <2> QED BY <1>6, <2>2, <2>3, <2>4 DEF Tried
<1>7. CASE Crash(c)
  BY <1>1, <1>7, DieSettled DEF Crash, Quiet
<1> QED BY <1>4, <1>5, <1>6, <1>7

LEMMA RunEventQuiet ==
    ASSUME LeaseInv, ArchInv, NEW c \in Coordinators, NEW e \in Events, RunEvent(c, e)
    PROVE  Quiet(c)
<1>1. UNCHANGED archive /\ Forward
  BY SameForward DEF RunEvent, files
<1>2. CASE End(c, "CANCELLED")
  BY <1>1, <1>2, EndQuiet
<1>3. CASE /\ Goto(c, "recoverArchive")
           /\ Recall(c, Fresh0)
           /\ event' = [event EXCEPT ![c] = e]
           /\ UNCHANGED <<lease, batch, genome>>
  <2>1. /\ DOMAIN mem' = Coordinators /\ mem'[c] = Fresh0
        /\ \A d \in Coordinators \ {c} : mem'[d] = mem[d]
    BY <1>3, RecallIs
  <2>2. pc'[c] = "recoverArchive" /\ \A d \in Coordinators \ {c} : pc'[d] = pc[d]
    BY <1>3, GotoIs
  <2>3. \A d \in Coordinators \ {c} : event'[d] = event[d] /\ genome'[d] = genome[d]
    BY <1>3 DEF LeaseInv, Locals
  <2>4. Fresh0.left = {} /\ Fresh0.phase = "recover"
    BY DEF Fresh0
  <2>5. Offers(c)'
    BY <2>1, <2>2, <2>4 DEF Offers, Recovery, Recovering, Considering, Choosing
  <2> QED BY <1>1, <2>1, <2>2, <2>3, <2>5 DEF Quiet, Settled, Steady
<1> QED BY <1>2, <1>3 DEF RunEvent

LEMMA ArchInit == Init => ArchInv
<1> SUFFICES ASSUME Init
             PROVE  ArchInv
  OBVIOUS
<1>1. DOMAIN mem = Coordinators
  BY DEF Init
<1>2. Told(NoTrial) /\ Charged(NoOperation)
  BY DEF Told, TrialSet, NoTrial, Statuses, Charged, NoOperation
<1>3. \A e \in Events : \A g \in Genomes : Told(trials[e][g])
  BY <1>2 DEF Init
<1>4. \A e \in Events : \A o \in Operations : Charged(ops[e][o])
  BY <1>2 DEF Init
<1>5. archive.cells \in [Cells -> Entry] /\ Filled = {}
  BY DEF Init, Entry, NoEntry, Filled
<1>6. \A c \in Coordinators : Offers(c)
  BY DEF Init, Offers, Recovery, Recovering, Resting, Considering, Choosing
<1> QED BY <1>1, <1>3, <1>4, <1>5, <1>6 DEF ArchInv

LEMMA ArchNext == LeaseInv /\ ArchInv /\ [Next]_vars => ArchInv' /\ CellsOnward
<1> SUFFICES ASSUME LeaseInv, ArchInv, [Next]_vars
             PROVE  ArchInv' /\ CellsOnward
  OBVIOUS
<1>1. CASE UNCHANGED vars
  <2>1. ArchInv'
    <3>1. UNCHANGED <<ops, trials, archive, pc, event, genome, mem>> /\ Forward
      BY <1>1, SameForward DEF vars
    <3>2. Filled' = Filled
      BY <3>1 DEF Filled
    <3>3. \A k \in Filled' : Backed(archive.cells[k], k)'
      BY <3>1, <3>2, StillBacked
    <3>4. \A c \in Coordinators : Offers(c)'
      BY <3>1, <3>2 DEF ArchInv, Offers, Paid, Trial
    <3> QED BY <3>1, <3>3, <3>4 DEF ArchInv, Told, Charged
  <2>2. ASSUME NEW k \in Filled
        PROVE  /\ archive.cells[k] # NoEntry
               /\ archive.cells[k].quality \in Int /\ archive.cells[k].used \in Int
    BY EntryNumbers DEF ArchInv, Filled
  <2>3. CellsOnward
    BY <1>1, <2>2, EvolutionAssumption DEF vars, CellsOnward
  <2> QED BY <2>1, <2>3
<1>2. ASSUME NEW c \in Coordinators, Quiet(c)
      PROVE  ArchInv' /\ CellsOnward
  BY <1>2, ArchLeads DEF Quiet, Settled
<1>3. ASSUME NEW c \in Coordinators, Step(c)
      PROVE  ArchInv' /\ CellsOnward
  <2>1. Quiet(c) \/ MarkCommit(c) \/ ConsiderCommit(c)
    BY <1>3, RecoveryQuiet, BatchQuiet, ChoiceQuiet, TrialQuiet, ConsiderQuiet DEF Step
  <2> QED BY <1>2, <2>1, MarkCommitLeads, ConsiderCommitLeads
<1>4. ASSUME NEW c \in Coordinators, NEW e \in Events, RunEvent(c, e)
      PROVE  ArchInv' /\ CellsOnward
  BY <1>2, <1>4, RunEventQuiet
<1>5. ASSUME NEW c \in Coordinators, Crash(c)
      PROVE  ArchInv' /\ CellsOnward
  BY <1>2, <1>5, ConsiderQuiet
<1> QED BY <1>1, <1>3, <1>4, <1>5 DEF Next

(* Nothing is archived on credit: every result the archive was ever given is of  *)
(* a validated trial of its quality and cell whose usage the ledger has       *)
(* charged, for any number of coordinators that die, race and recover         *)
(* (coordinator.py 434-443 and 505-540, archive.py 20-44).                    *)
THEOREM NothingOnCredit == Spec => []ArchiveAccounted
<1>1. ArchInv => ArchiveAccounted
  BY DEF ArchInv, ArchiveAccounted, Backed, Paid
<1>2. Init => LeaseInv /\ ArchInv
  BY LeaseInit, ArchInit
<1>3. LeaseInv /\ ArchInv /\ [Next]_vars => (LeaseInv /\ ArchInv)'
  BY LeaseNext, ArchNext
<1> QED BY <1>1, <1>2, <1>3, PTL DEF Spec

(* A cell is never emptied, made worse than the tolerance allows or robbed of     *)
(* its history, however many commits race and whoever dies between a revision  *)
(* file and its manifest (store.py 315-334).                                 *)
THEOREM CellsOnlyImprove == Spec => ArchiveKeepsUp
<1>1. LeaseInv /\ ArchInv /\ [Next]_vars =>
        [\A k \in Filled :
            LET old == archive.cells[k]
                new == archive.cells'[k] IN
            /\ new # NoEntry
            /\ new.quality >= old.quality - Tolerance
            /\ old.lineage \subseteq new.lineage
            /\ new.used >= old.used]_vars
  BY ArchNext DEF CellsOnward
<1>2. Init => LeaseInv /\ ArchInv
  BY LeaseInit, ArchInit
<1>3. LeaseInv /\ ArchInv /\ [Next]_vars => (LeaseInv /\ ArchInv)'
  BY LeaseNext, ArchNext
<1> QED BY <1>1, <1>2, <1>3, PTL DEF Spec, ArchiveKeepsUp

-----------------------------------------------------------------------------
(* What the recovery rebuilds.  With no tolerance the entry of a cell is the     *)
(* best that the cell ever had, so what was offered once stays beaten.       *)

\* Two coordinators at work on one event know that they are not alone.
Together ==
    \A c, d \in Coordinators :
        c # d /\ pc[c] \notin Resting /\ pc[d] \notin Resting /\ event[c] = event[d] => c \in beside

\* The present entry is the best of its lineage.
Peak ==
    \A k \in Filled : \A past \in archive.cells[k].lineage :
        trials[past[1]][past[2]].quality <= archive.cells[k].quality

Rebuilding(c) == pc[c] \in Recovering \cup Considering /\ mem[c].phase = "recover"

\* What is neither to be offered nor being offered is kept.
Offered(c) ==
    \A g \in Genomes :
        \/ g \in mem[c].left
        \/ pc[c] \in Considering /\ g = genome[c]
        \/ Kept(trials[event[c]][g], archive.cells)

Rebuild(c) ==
    Rebuilding(c) =>
        /\ mem[c].known \subseteq Lineage
        /\ Alone(c) /\ pc[c] \notin {"recoverArchive", "recoverTrials"} => Offered(c)

RebuildInv == Together /\ Peak /\ \A c \in Coordinators : Rebuild(c)

\* Where a coordinator goes when it is not in its recovery.
Elsewhere(c) == pc'[c] \notin Recovering \cup Considering \/ mem'[c].phase # "recover"

\* A coordinator keeps its event as long as it is at work.
Settles(c) ==
    \/ UNCHANGED <<event, beside>>
    \/ pc'[c] \in Resting /\ beside' = beside \ {c}

\* Wherever the run of c ends, it leaves nobody's event but its own.
LEMMA GoneSettles ==
    ASSUME LeaseInv, NEW c \in Coordinators
    PROVE  /\ \A outcome : End(c, outcome) => Settles(c)
           /\ Die(c) => Settles(c)
           /\ \A accepted : Finish(c, accepted) => Settles(c)
           /\ \A accepted : Considered(c, accepted) => Settles(c)
           /\ Stay => Settles(c)
BY DEF Settles, End, Die, Gone, Finish, Considered, Stay, place, Goto, LeaseInv, Locals, Resting

LEMMA StepSettles ==
    ASSUME LeaseInv, NEW c \in Coordinators, Step(c) \/ Crash(c)
    PROVE  Settles(c)
<1>1. UNCHANGED <<event, beside>> => Settles(c)
  BY DEF Settles
<1>2. CASE RecoverArchive(c) \/ RecoverTrials(c) \/ Recover(c) \/ Recovered(c)
           \/ Entries(c) \/ Seen(c) \/ Round(c)
  BY <1>1, <1>2, GoneSettles
     DEF RecoverArchive, RecoverTrials, Recover, Recovered, Entries, Seen, Round, Reads
<1>3. CASE BatchOperation(c) \/ BatchStored(c) \/ BatchRemaining(c) \/ BatchReserve(c)
           \/ Parents(c) \/ Begin(c) \/ MarkUsed(c) \/ MarkRevision(c) \/ MarkCommit(c)
  BY <1>1, <1>3, GoneSettles
     DEF BatchOperation, BatchStored, BatchRemaining, BatchReserve, Remaining, ReserveWithCap,
         Parents, Begin, MarkUsed, MarkRevision, MarkCommit, Reads, place
<1>4. CASE Proposed(c) \/ SaveBatch(c) \/ SettleBatch(c) \/ Proposals(c) \/ Proposal(c)
  BY <1>1, <1>4, GoneSettles DEF Proposed, SaveBatch, SettleBatch, Proposals, Proposal
<1>5. CASE TrialOperation(c) \/ TrialRemaining(c) \/ TrialReserve(c) \/ ReserveTrial(c)
           \/ TrialLease(c) \/ LeasedStart(c) \/ LeasedInterrupted(c) \/ LeasedFailed(c)
  BY <1>1, <1>5, GoneSettles
     DEF TrialOperation, TrialRemaining, TrialReserve, Remaining, ReserveWithCap, ReserveTrial,
         TrialLease, LeasedStart, LeasedInterrupted, LeasedFailed, Reads
<1>6. CASE Execute(c) \/ Validate(c) \/ SettleTrial(c)
  BY <1>1, <1>6, GoneSettles DEF Execute, Outcome, Validate, SettleTrial
<1>7. CASE Consider(c) \/ ConsiderRevision(c) \/ ConsiderCommit(c) \/ Tried(c) \/ Crash(c)
  BY <1>1, <1>7, GoneSettles DEF Consider, ConsiderRevision, ConsiderCommit, Tried, Crash, Reads
<1> QED BY <1>2, <1>3, <1>4, <1>5, <1>6, <1>7 DEF Step

\* Only a coordinator at work takes a step.
LEMMA StepWorks ==
    ASSUME NEW c \in Coordinators, Step(c) \/ Crash(c)
    PROVE  pc[c] \notin Resting
<1> USE DEF At, Resting
<1>1. CASE RecoverArchive(c) \/ RecoverTrials(c) \/ Recover(c) \/ Recovered(c)
           \/ Entries(c) \/ Seen(c) \/ Round(c)
  BY <1>1 DEF RecoverArchive, RecoverTrials, Recover, Recovered, Entries, Seen, Round
<1>2. CASE BatchOperation(c) \/ BatchStored(c) \/ BatchRemaining(c) \/ BatchReserve(c)
           \/ Parents(c) \/ Begin(c) \/ MarkUsed(c) \/ MarkRevision(c) \/ MarkCommit(c)
  BY <1>2 DEF BatchOperation, BatchStored, BatchRemaining, BatchReserve, Remaining, ReserveWithCap,
              Parents, Begin, MarkUsed, MarkRevision, MarkCommit
<1>3. CASE Proposed(c) \/ SaveBatch(c) \/ SettleBatch(c) \/ Proposals(c) \/ Proposal(c)
  BY <1>3 DEF Proposed, SaveBatch, SettleBatch, Proposals, Proposal
<1>4. CASE TrialOperation(c) \/ TrialRemaining(c) \/ TrialReserve(c) \/ ReserveTrial(c)
           \/ TrialLease(c) \/ LeasedStart(c) \/ LeasedInterrupted(c) \/ LeasedFailed(c)
           \/ Execute(c) \/ Validate(c) \/ SettleTrial(c)
  BY <1>4 DEF TrialOperation, TrialRemaining, TrialReserve, Remaining, ReserveWithCap,
              ReserveTrial, TrialLease, LeasedStart, LeasedInterrupted, LeasedFailed,
              Execute, Validate, SettleTrial
<1>5. CASE Consider(c) \/ ConsiderRevision(c) \/ ConsiderCommit(c) \/ Tried(c) \/ Crash(c)
  BY <1>5 DEF Consider, ConsiderRevision, ConsiderCommit, Tried, Crash
<1> QED BY <1>1, <1>2, <1>3, <1>4, <1>5 DEF Step

\* A step writes no trial of another event.
LEMMA StepWrites ==
    ASSUME LeaseInv, NEW c \in Coordinators, Step(c) \/ Crash(c),
           NEW e \in Events, e # event[c]
    PROVE  trials'[e] = trials[e]
<1>1. \A t : TrialBecomes(event[c], genome[c], t) => trials'[e] = trials[e]
  BY DEF TrialBecomes, LeaseInv, Tables, TrialShape
<1>2. CASE ReserveTrial(c) \/ LeasedStart(c) \/ LeasedInterrupted(c) \/ Execute(c) \/ Validate(c)
  BY <1>1, <1>2 DEF ReserveTrial, LeasedStart, LeasedInterrupted, Execute, Outcome, Validate
<1>3. CASE RecoverArchive(c) \/ RecoverTrials(c) \/ Recover(c) \/ Recovered(c)
           \/ Entries(c) \/ Seen(c) \/ Round(c)
  BY <1>3 DEF RecoverArchive, RecoverTrials, Recover, Recovered, Entries, Seen, Round, Reads, files
<1>4. CASE BatchOperation(c) \/ BatchStored(c) \/ BatchRemaining(c) \/ BatchReserve(c)
           \/ Parents(c) \/ Begin(c) \/ MarkUsed(c) \/ MarkRevision(c) \/ MarkCommit(c)
  BY <1>4
     DEF BatchOperation, BatchStored, BatchRemaining, BatchReserve, Remaining, ReserveWithCap,
         Parents, Begin, MarkUsed, MarkRevision, MarkCommit, Reads, files
<1>5. CASE Proposed(c) \/ SaveBatch(c) \/ SettleBatch(c) \/ Proposals(c) \/ Proposal(c)
  BY <1>5 DEF Proposed, SaveBatch, SettleBatch, Proposals, Proposal, files
<1>6. CASE TrialOperation(c) \/ TrialRemaining(c) \/ TrialReserve(c)
           \/ TrialLease(c) \/ LeasedFailed(c) \/ SettleTrial(c)
  BY <1>6
     DEF TrialOperation, TrialRemaining, TrialReserve, Remaining, ReserveWithCap,
         TrialLease, LeasedFailed, SettleTrial, Reads, files
<1>7. CASE Consider(c) \/ ConsiderRevision(c) \/ ConsiderCommit(c) \/ Tried(c) \/ Crash(c)
  BY <1>7 DEF Consider, ConsiderRevision, ConsiderCommit, Tried, Crash, Reads, files
<1> QED BY <1>2, <1>3, <1>4, <1>5, <1>6, <1>7 DEF Step

\* What is not in its recovery does not get there.
LEMMA StepsElsewhere ==
    ASSUME LeaseInv, ArchInv, NEW c \in Coordinators, Step(c) \/ Crash(c)
    PROVE  \/ Elsewhere(c)
           \/ /\ Rebuilding(c)
              /\ \/ RecoverArchive(c) \/ RecoverTrials(c) \/ Recover(c) \/ Recovered(c)
                 \/ Consider(c) \/ ConsiderRevision(c) \/ ConsiderCommit(c)
<1> USE DEF At
<1> DEFINE Far == Resting \cup
             {"entries", "seen", "round", "batch", "batchStored", "batchRemaining", "batchReserve",
              "parents", "begin", "mark", "markRevision", "markCommit", "proposing", "save", "saved",
              "proposals", "proposal", "trial", "trialRemaining", "trialReserve", "trialRecord",
              "trialLease", "leased", "executing", "validate", "settle", "tried"}
<1>1. ASSUME NEW p \in Far, Goto(c, p)
      PROVE  Elsewhere(c)
  <2>1. pc'[c] = p
    BY <1>1, GotoIs
  <2> QED BY <2>1 DEF Elsewhere, Recovering, Considering, Resting
<1>2. /\ \A outcome : End(c, outcome) => Elsewhere(c)
      /\ Die(c) => Elsewhere(c)
      /\ \A accepted : Finish(c, accepted) => Elsewhere(c)
  BY <1>1 DEF End, Die, Finish, Resting
<1>3. UNCHANGED pc /\ pc[c] \in Far => Elsewhere(c)
  BY DEF Elsewhere, Recovering, Considering, Resting
<1>4. CASE Entries(c) \/ Seen(c) \/ Round(c)
  BY <1>1, <1>2, <1>4 DEF Entries, Seen, Round
<1>5. CASE BatchOperation(c) \/ BatchStored(c) \/ BatchRemaining(c) \/ BatchReserve(c)
  BY <1>1, <1>2, <1>5 DEF BatchOperation, BatchStored, BatchRemaining, BatchReserve, Remaining,
                          ReserveWithCap
<1>6. CASE Parents(c) \/ Begin(c) \/ MarkUsed(c) \/ MarkRevision(c)
  BY <1>1, <1>2, <1>6 DEF Parents, Begin, MarkUsed, MarkRevision
<1>7. CASE MarkCommit(c)
  BY <1>1, <1>2, <1>7 DEF MarkCommit
<1>8. CASE Proposed(c) \/ SaveBatch(c) \/ SettleBatch(c) \/ Proposals(c) \/ Proposal(c)
  BY <1>1, <1>2, <1>3, <1>8 DEF Proposed, SaveBatch, SettleBatch, Proposals, Proposal
<1>9. CASE TrialOperation(c) \/ TrialRemaining(c) \/ TrialReserve(c) \/ ReserveTrial(c)
  BY <1>1, <1>2, <1>9 DEF TrialOperation, TrialRemaining, TrialReserve, Remaining, ReserveWithCap,
                          ReserveTrial
<1>10. CASE TrialLease(c) \/ LeasedStart(c) \/ LeasedInterrupted(c) \/ LeasedFailed(c)
  BY <1>1, <1>2, <1>10 DEF TrialLease, LeasedStart, LeasedInterrupted, LeasedFailed
<1>11. CASE Execute(c) \/ Validate(c)
  BY <1>1, <1>2, <1>11 DEF Execute, Outcome, Validate
<1>12. CASE SettleTrial(c)
  <2>1. mem[c].phase # "recover"
    BY <1>12 DEF SettleTrial, ArchInv, Offers, Recovery, Recovering, Considering, Resting
  <2>2. CASE Recall(c, [mem[c] EXCEPT !.tries = 0])
    <3> DEFINE v == [mem[c] EXCEPT !.tries = 0]
    <3>1. v.phase = mem[c].phase /\ Recall(c, v)
      BY <2>2, Fields
    <3> HIDE DEF v
    <3>2. mem'[c] = v
      BY <3>1, RecallIs
    <3> QED BY <2>1, <3>1, <3>2 DEF Elsewhere
  <2> QED BY <1>2, <1>12, <2>2 DEF SettleTrial
<1>13. CASE Tried(c) \/ Crash(c)
  BY <1>1, <1>2, <1>13 DEF Tried, Crash
<1>14. CASE RecoverArchive(c) \/ RecoverTrials(c) \/ Recover(c) \/ Recovered(c)
  <2>1. Rebuilding(c)
    BY <1>14 DEF RecoverArchive, RecoverTrials, Recover, Recovered, ArchInv, Offers, Recovering,
                 Rebuilding
  <2> QED BY <1>14, <2>1
<1>15. CASE Consider(c) \/ ConsiderRevision(c) \/ ConsiderCommit(c)
  <2>1. pc[c] \in Considering
    BY <1>15 DEF Consider, ConsiderRevision, ConsiderCommit, Considering
  <2>2. CASE mem[c].phase = "recover"
    BY <1>15, <2>1, <2>2 DEF Rebuilding
  <2>3. CASE mem[c].phase # "recover"
    <3>1. ASSUME NEW v, Recall(c, v), v.phase = mem[c].phase
          PROVE  Elsewhere(c)
      BY <2>3, <3>1, RecallIs DEF Elsewhere
    <3>2. \A accepted : Considered(c, accepted) => Elsewhere(c)
      BY <1>2, <2>3 DEF Considered
    <3>3. CASE Consider(c)
      <4> DEFINE v == [mem[c] EXCEPT !.cell = Trial(c).cell,
                                     !.entry = archive.cells[Trial(c).cell]]
      <4>1. v.phase = mem[c].phase
        BY Fields
      <4>2. Recall(c, v) \/ Considered(c, FALSE)
        BY <3>3 DEF Consider
      <4> HIDE DEF v
      <4> QED BY <3>1, <3>2, <4>1, <4>2
    <3>4. CASE ConsiderRevision(c)
      <4> DEFINE v == [mem[c] EXCEPT !.rev = archive.rev]
      <4>1. v.phase = mem[c].phase
        BY Fields
      <4>2. Recall(c, v)
        BY <3>4 DEF ConsiderRevision
      <4> HIDE DEF v
      <4> QED BY <3>1, <4>1, <4>2
    <3>5. CASE ConsiderCommit(c)
      <4> DEFINE v == [mem[c] EXCEPT !.tries = @ + 1]
      <4>1. v.phase = mem[c].phase
        BY Fields
      <4>2. \/ Recall(c, v) \/ Considered(c, TRUE) \/ Die(c) \/ End(c, "BLOCKED")
            \/ Finish(c, FALSE)
        BY <3>5 DEF ConsiderCommit
      <4> HIDE DEF v
      <4> QED BY <1>2, <3>1, <3>2, <4>1, <4>2
    <3> QED BY <1>15, <3>3, <3>4, <3>5
  <2> QED BY <2>2, <2>3
<1> QED BY <1>4, <1>5, <1>6, <1>7, <1>8, <1>9, <1>10, <1>11, <1>12, <1>13, <1>14, <1>15 DEF Step

\* A step leaves the others where they are, and trials that are done.
LEMMA StepSteady ==
    ASSUME LeaseInv, ArchInv, NEW c \in Coordinators, Step(c) \/ Crash(c)
    PROVE  Steady(c) /\ Forward
<1>1. CASE Quiet(c)
  BY <1>1 DEF Quiet, Settled
<1>2. ASSUME NEW p, Goto(c, p), NEW v, Recall(c, v), Stay
      PROVE  Steady(c)
  <2>1. DOMAIN mem' = Coordinators /\ \A d \in Coordinators \ {c} : mem'[d] = mem[d]
    BY <1>2, RecallIs
  <2>2. \A d \in Coordinators \ {c} : pc'[d] = pc[d]
    BY <1>2, GotoIs
  <2> QED BY <1>2, <2>1, <2>2 DEF Steady, Stay, place
<1>3. CASE MarkCommit(c)
  <2>1. Forward
    BY <1>3, SameForward DEF MarkCommit
  <2> QED BY <1>2, <1>3, <2>1, DieSettled DEF MarkCommit, Settled
<1>4. CASE ConsiderCommit(c)
  <2>1. Forward /\ pc[c] \notin Resting
    BY <1>4, SameForward DEF ConsiderCommit, At, Resting
  <2>2. \/ \E v : Goto(c, "consider") /\ Recall(c, v) /\ Stay
        \/ Considered(c, TRUE) \/ Die(c) \/ End(c, "BLOCKED")
        \/ mem[c].phase # "recover" /\ Finish(c, FALSE)
    BY <1>4 DEF ConsiderCommit
  <2> QED BY <1>2, <2>1, <2>2, DieSettled, EndSettled, FinishSettled, ConsideredSettled DEF Settled
<1>5. Quiet(c) \/ MarkCommit(c) \/ ConsiderCommit(c)
  BY RecoveryQuiet, BatchQuiet, ChoiceQuiet, TrialQuiet, ConsiderQuiet DEF Step
<1> QED BY <1>1, <1>3, <1>4, <1>5

\* A run that begins: cancelled at once, or with who else is there noted.
LEMMA RunEventIs ==
    ASSUME LeaseInv, ArchInv, NEW c \in Coordinators, NEW e \in Events, RunEvent(c, e)
    PROVE  /\ pc[c] \in Resting /\ UNCHANGED <<trials, archive>>
           /\ \/ pc'[c] \in Resting /\ beside' = beside \ {c}
              \/ /\ pc'[c] = "recoverArchive" /\ mem'[c] = Fresh0 /\ event'[c] = e
                 /\ beside' = IF Busy(e) = {} THEN beside ELSE beside \cup Busy(e) \cup {c}
<1>1. pc[c] \in Resting /\ UNCHANGED <<trials, archive>>
  BY DEF RunEvent, Resting, files
<1>2. CASE End(c, "CANCELLED")
  BY <1>1, <1>2, GotoIs DEF End, Gone, Resting
<1>3. CASE /\ Goto(c, "recoverArchive") /\ Recall(c, Fresh0)
           /\ event' = [event EXCEPT ![c] = e]
           /\ beside' = IF Busy(e) = {} THEN beside ELSE beside \cup Busy(e) \cup {c}
  <2>1. event'[c] = e
    BY <1>3 DEF LeaseInv, Locals
  <2> QED BY <1>1, <1>3, <2>1, GotoIs, RecallIs
<1> QED BY <1>2, <1>3 DEF RunEvent

LEMMA TogetherNext ==
    ASSUME LeaseInv, ArchInv, Together, NEW c \in Coordinators,
           Step(c) \/ Crash(c) \/ \E e \in Events : RunEvent(c, e)
    PROVE  Together'
<1> SUFFICES ASSUME NEW a \in Coordinators, NEW b \in Coordinators, a # b,
                    pc'[a] \notin Resting, pc'[b] \notin Resting, event'[a] = event'[b]
             PROVE  a \in beside'
  BY DEF Together
<1>1. \A d \in Coordinators \ {c} : pc'[d] = pc[d] /\ event'[d] = event[d]
  BY StepSteady, RunEventQuiet DEF Quiet, Settled, Steady
<1>2. CASE Step(c) \/ Crash(c)
  <2>1. pc[c] \notin Resting
    BY <1>2, StepWorks
  <2>2. Settles(c)
    BY <1>2, StepSettles
  <2> QED BY <1>1, <2>1, <2>2 DEF Settles, Together
<1>3. ASSUME NEW e \in Events, RunEvent(c, e)
      PROVE  a \in beside'
  <2>1. CASE pc'[c] \in Resting /\ beside' = beside \ {c}
    BY <1>1, <2>1 DEF Together
  <2>2. CASE /\ pc'[c] = "recoverArchive" /\ event'[c] = e
             /\ beside' = IF Busy(e) = {} THEN beside ELSE beside \cup Busy(e) \cup {c}
    <3>1. CASE a # c /\ b # c
      BY <1>1, <2>2, <3>1 DEF Together
    <3>2. CASE a = c
      BY <1>1, <2>2, <3>2 DEF Busy, Resting
    <3>3. CASE b = c
      BY <1>1, <2>2, <3>3 DEF Busy, Resting
    <3> QED BY <3>1, <3>2, <3>3
  <2> QED BY <1>3, <2>1, <2>2, RunEventIs
<1> QED BY <1>2, <1>3

LEMMA Qualified ==
    ASSUME NEW t, Told(t)
    PROVE  t.quality \in Int
<1>1. t.quality \in Qualities \cup {0}
  BY DEF Told, TrialSet
<1>2. \A q \in Qualities : q \in Int
  BY EvolutionAssumption
<1> QED BY <1>1, <1>2

\* What is kept stays so.
LEMMA KeptStays ==
    ASSUME ArchInv, CellsOnward, Tolerance = 0, archive'.cells \in [Cells -> Entry],
           NEW t, Told(t), Kept(t, archive.cells)
    PROVE  Kept(t, archive'.cells)
<1> SUFFICES ASSUME t.status = "VALIDATED", t.quality # 0
             PROVE  /\ archive'.cells[t.cell] # NoEntry
                    /\ ~Better(t.quality, archive'.cells[t.cell].quality)
  BY DEF Kept
<1> DEFINE k == t.cell
<1>1. k \in Cells /\ k \in Filled /\ ~Better(t.quality, archive.cells[k].quality)
  BY DEF Kept, Told, Filled
<1>2. archive'.cells[k] # NoEntry /\ archive'.cells[k].quality >= archive.cells[k].quality - Tolerance
  BY <1>1 DEF CellsOnward
<1>3. archive.cells[k].quality \in Int /\ archive'.cells[k].quality \in Int /\ t.quality \in Int
  BY <1>1, EntryNumbers, Qualified DEF ArchInv
<1> QED BY <1>1, <1>2, <1>3 DEF Better

\* What is in a lineage is kept.
LEMMA LineageKept ==
    ASSUME ArchInv, Peak, NEW e \in Events, NEW g \in Genomes, <<e, g>> \in Lineage
    PROVE  Kept(trials[e][g], archive.cells)
<1>1. PICK k \in Filled : <<e, g>> \in archive.cells[k].lineage
  BY DEF Lineage
<1>2. k \in Cells /\ archive.cells[k] # NoEntry /\ archive.cells[k] \in Entry
  BY DEF Filled, ArchInv
<1>3. trials[e][g].cell = k
  BY <1>1 DEF ArchInv, Backed
<1>4. trials[e][g].quality <= archive.cells[k].quality
  BY <1>1 DEF Peak
<1>5. archive.cells[k].quality \in Int /\ trials[e][g].quality \in Int
  BY <1>2, EntryNumbers, Qualified DEF ArchInv
<1>6. ~Better(trials[e][g].quality, archive.cells[k].quality)
  BY <1>4, <1>5, EvolutionAssumption DEF Better
<1> QED BY <1>2, <1>3, <1>6 DEF Kept

LEMMA LineageGrows ==
    ASSUME CellsOnward
    PROVE  Lineage \subseteq Lineage'
<1> SUFFICES ASSUME NEW k \in Filled, NEW past \in archive.cells[k].lineage
             PROVE  past \in Lineage'
  BY DEF Lineage
<1>1. k \in Filled' /\ past \in archive'.cells[k].lineage
  BY DEF CellsOnward, Filled
<1> QED BY <1>1 DEF Lineage

\* The others still have everything that was offered, or to be.
LEMMA OthersRebuild ==
    ASSUME LeaseInv, ArchInv, RebuildInv, Tolerance = 0, CellsOnward,
           archive'.cells \in [Cells -> Entry],
           NEW c \in Coordinators, Step(c) \/ Crash(c) \/ \E e \in Events : RunEvent(c, e),
           NEW d \in Coordinators, d # c
    PROVE  Rebuild(d)'
<1>1. pc'[d] = pc[d] /\ event'[d] = event[d] /\ genome'[d] = genome[d] /\ mem'[d] = mem[d]
  BY StepSteady, RunEventQuiet DEF Quiet, Settled, Steady
<1> SUFFICES ASSUME Rebuilding(d)
             PROVE  Rebuild(d)'
  BY <1>1 DEF Rebuild, Rebuilding
<1>2. mem'[d].known \subseteq Lineage'
  BY <1>1, LineageGrows DEF RebuildInv, Rebuild
<1>3. ASSUME Alone(d)', pc[d] \notin {"recoverArchive", "recoverTrials"}
      PROVE  Offered(d)'
  <2>1. pc[d] \notin Resting /\ event[d] \in Events
    BY WorkingHasEvent DEF Rebuilding, Recovering, Considering, Resting
  <2>2. Alone(d) /\ (event[c] # event[d] \/ UNCHANGED trials)
    <3>1. CASE Step(c) \/ Crash(c)
      BY <1>3, <2>1, <3>1, StepSettles, StepWorks DEF Settles, Alone, RebuildInv, Together
    <3>2. CASE \E e \in Events : RunEvent(c, e)
      BY <1>3, <3>2, RunEventIs DEF Alone
    <3> QED BY <3>1, <3>2
  <2>3. trials'[event[d]] = trials[event[d]]
    BY <2>1, <2>2, StepWrites, RunEventIs
  <2>4. Offered(d)
    BY <1>3, <2>2 DEF RebuildInv, Rebuild
  <2>5. \A g \in Genomes : Told(trials[event[d]][g])
    BY <2>1 DEF ArchInv
  <2> QED BY <1>1, <2>3, <2>4, <2>5, KeptStays DEF Offered
<1> QED BY <1>1, <1>2, <1>3 DEF Rebuild, Rebuilding

\* Nothing changes in the archive.
LEMMA PeakStays ==
    ASSUME ArchInv, Peak, Forward, archive'.cells = archive.cells
    PROVE  Peak'
<1> SUFFICES ASSUME NEW k \in Filled, NEW past \in archive.cells[k].lineage
             PROVE  trials'[past[1]][past[2]].quality <= archive.cells[k].quality
  BY DEF Peak, Filled
<1>1. Paid(past[1], past[2]) /\ archive.cells[k] \in Entry
  BY DEF ArchInv, Backed, Filled
<1>2. past[1] \in Events /\ past[2] \in Genomes
  BY <1>1 DEF Entry
<1>3. trials'[past[1]][past[2]] = trials[past[1]][past[2]]
  BY <1>1, <1>2, PaidStays
<1> QED BY <1>3 DEF Peak

\* A cell is given a new best entry.
LEMMA PeakMoves ==
    ASSUME ArchInv, Peak, UNCHANGED trials, NEW k \in Cells, NEW new,
           archive'.cells = Index(k, new),
           \A past \in new.lineage : trials[past[1]][past[2]].quality <= new.quality
    PROVE  Peak'
<1>1. /\ archive'.cells[k] = new
      /\ \A j \in Cells : j # k => archive'.cells[j] = archive.cells[j]
  BY DEF Index, ArchInv
<1> SUFFICES ASSUME NEW j \in Filled', NEW past \in archive'.cells[j].lineage
             PROVE  trials[past[1]][past[2]].quality <= archive'.cells[j].quality
  BY DEF Peak
<1>2. CASE j = k
  BY <1>1, <1>2
<1>3. CASE j # k
  BY <1>1, <1>3 DEF Peak, Filled
<1> QED BY <1>2, <1>3

LEMMA MarkCommitPeak ==
    ASSUME LeaseInv, ArchInv, Peak, NEW c \in Coordinators, MarkCommit(c)
    PROVE  Peak'
<1> DEFINE m == mem[c]
           new == [m.entry EXCEPT !.used = @ + 1]
<1>1. UNCHANGED <<ops, trials>> /\ pc[c] = "markCommit" /\ Forward
  BY SameForward DEF MarkCommit, At
<1>2. m.cell \in Filled
  BY <1>1 DEF ArchInv, Offers, Choosing
<1>3. CASE UNCHANGED archive \/ \E cells : Orphan(cells, TRUE)
  <2>1. archive'.cells = archive.cells
    BY <1>3 DEF Orphan
  <2> QED BY <1>1, <2>1, PeakStays
<1>4. CASE Fresh(m.cell, m.entry, m.rev) /\ Publish(Index(m.cell, new))
  <2>1. m.cell \in Cells /\ archive.cells[m.cell] = m.entry /\ m.entry \in Entry
    BY <1>2, <1>4 DEF Fresh, Filled, ArchInv
  <2>2. new.quality = m.entry.quality /\ new.lineage = m.entry.lineage
    BY <2>1 DEF Entry
  <2> HIDE DEF new
  <2>3. \A past \in new.lineage : trials[past[1]][past[2]].quality <= new.quality
    BY <1>2, <2>1, <2>2 DEF Peak
  <2>4. archive'.cells = Index(m.cell, new)
    BY <1>4 DEF Publish
  <2> QED BY <1>1, <2>1, <2>3, <2>4, PeakMoves
<1> QED BY <1>3, <1>4, Zenon DEF MarkCommit

\* The two ways a commit of a trial ends, when it does not end its process.
LEMMA CommitIs ==
    ASSUME LeaseInv, ArchInv, Tolerance = 0, NEW c \in Coordinators, ConsiderCommit(c)
    PROVE  \/ archive'.cells = archive.cells
           \/ /\ mem[c].cell = Trial(c).cell /\ mem[c].cell \in Cells
              /\ Considered(c, TRUE)
              /\ \E new \in Entry :
                    /\ new # NoEntry /\ new.quality = Trial(c).quality
                    /\ new.lineage = mem[c].entry.lineage \cup {<<event[c], genome[c]>>}
                    /\ archive.cells[mem[c].cell] = mem[c].entry
                    /\ mem[c].entry.quality <= new.quality
                    /\ archive'.cells = Index(mem[c].cell, new)
<1> DEFINE m == mem[c]
           new == [event |-> event[c], genome |-> genome[c],
                   quality |-> Trial(c).quality, used |-> m.entry.used,
                   lineage |-> m.entry.lineage \cup {<<event[c], genome[c]>>}]
<1>1. pc[c] = "considerCommit"
  BY DEF ConsiderCommit, At
<1>2. /\ Paid(event[c], genome[c]) /\ m.cell = Trial(c).cell
      /\ Trial(c).quality >= m.entry.quality - Tolerance /\ pc[c] \notin Resting
  BY <1>1 DEF ArchInv, Offers, Considering, Resting
<1>3. event[c] \in Events /\ genome[c] \in Genomes /\ Told(Trial(c))
  BY <1>2, WorkingHasEvent DEF LeaseInv, Locals, ArchInv, Trial
<1>4. CASE UNCHANGED archive \/ \E cells : Orphan(cells, FALSE)
  <2>1. archive'.cells = archive.cells
    BY <1>4 DEF Orphan
  <2> QED BY <2>1
<1>5. CASE Fresh(m.cell, m.entry, m.rev) /\ Publish(Index(m.cell, new)) /\ Considered(c, TRUE)
  <2>1. m.cell \in Cells /\ archive.cells[m.cell] = m.entry /\ m.entry \in Entry
    BY <1>2, <1>3, <1>5 DEF Fresh, Paid, Told, Trial, ArchInv
  <2>2. new \in Entry
    <3>1. m.entry.used \in Nat /\ m.entry.lineage \subseteq Events \X Genomes
      BY <2>1 DEF Entry
    <3>2. Trial(c).quality \in Qualities \cup {0}
      BY <1>3 DEF Told, TrialSet
    <3>3. m.entry.lineage \cup {<<event[c], genome[c]>>} \in SUBSET (Events \X Genomes)
      BY <1>3, <3>1
    <3> QED BY <1>3, <3>1, <3>2, <3>3 DEF Entry
  <2>3. new.quality = Trial(c).quality /\ archive'.cells = Index(m.cell, new)
        /\ new.lineage = m.entry.lineage \cup {<<event[c], genome[c]>>}
    BY <1>5 DEF Publish
  <2> HIDE DEF new
  <2>4. new # NoEntry
    BY <1>2, <2>3 DEF Paid, Trial, NoEntry
  <2>5. m.entry.quality <= new.quality
    <3>1. m.entry.quality \in Int /\ Trial(c).quality \in Int
      BY <1>3, <2>1, EntryNumbers, Qualified
    <3> QED BY <1>2, <2>3, <3>1
  <2> QED BY <1>2, <1>5, <2>1, <2>2, <2>3, <2>4, <2>5
<1> QED BY <1>4, <1>5, Zenon DEF ConsiderCommit

LEMMA ConsiderCommitPeak ==
    ASSUME LeaseInv, ArchInv, Peak, Tolerance = 0, NEW c \in Coordinators, ConsiderCommit(c)
    PROVE  Peak'
<1>1. UNCHANGED <<ops, trials>> /\ Forward
  BY SameForward DEF ConsiderCommit
<1>2. CASE archive'.cells = archive.cells
  BY <1>1, <1>2, PeakStays
<1>3. ASSUME NEW new \in Entry, mem[c].cell \in Cells, new.quality = Trial(c).quality,
             new.lineage = mem[c].entry.lineage \cup {<<event[c], genome[c]>>},
             archive.cells[mem[c].cell] = mem[c].entry, mem[c].entry.quality <= new.quality,
             archive'.cells = Index(mem[c].cell, new)
      PROVE  Peak'
  <2>1. ASSUME NEW past \in new.lineage
        PROVE  trials[past[1]][past[2]].quality <= new.quality
    <3>1. CASE past = <<event[c], genome[c]>>
      <4>1. new.quality \in Int
        BY EntryNumbers
      <4> QED BY <1>3, <3>1, <4>1 DEF Trial
    <3>2. CASE past \in mem[c].entry.lineage
      <4>1. mem[c].cell \in Filled /\ mem[c].entry \in Entry
        BY <1>3, <3>2 DEF Filled, NoEntry, ArchInv
      <4>2. trials[past[1]][past[2]].quality <= mem[c].entry.quality
        BY <1>3, <3>2, <4>1 DEF Peak
      <4>3. past[1] \in Events /\ past[2] \in Genomes
        BY <3>2, <4>1 DEF Entry
      <4>4. /\ trials[past[1]][past[2]].quality \in Int
            /\ mem[c].entry.quality \in Int /\ new.quality \in Int
        BY <4>1, <4>3, EntryNumbers, Qualified DEF ArchInv
      <4> QED BY <1>3, <4>2, <4>4
    <3> QED BY <1>3, <3>1, <3>2
  <2> QED BY <1>1, <1>3, <2>1, PeakMoves
<1> QED BY <1>2, <1>3, CommitIs

LEMMA PeakNext ==
    ASSUME LeaseInv, ArchInv, Peak, Tolerance = 0, NEW c \in Coordinators,
           Step(c) \/ Crash(c) \/ \E e \in Events : RunEvent(c, e)
    PROVE  Peak'
<1>1. CASE Quiet(c)
  BY <1>1, PeakStays DEF Quiet
<1>2. Quiet(c) \/ MarkCommit(c) \/ ConsiderCommit(c)
  BY RecoveryQuiet, BatchQuiet, ChoiceQuiet, TrialQuiet, ConsiderQuiet, RunEventQuiet DEF Step
<1> QED BY <1>1, <1>2, MarkCommitPeak, ConsiderCommitPeak

\* Recall leaves the fields it does not name.
LEMMA Known ==
    ASSUME ArchInv, NEW c \in Coordinators
    PROVE  /\ \A x : [mem[c] EXCEPT !.left = x].known = mem[c].known /\ [mem[c] EXCEPT !.left = x].left = x
           /\ \A g : LET v == [mem[c] EXCEPT !.left = @ \ {g}, !.tries = 0]
                     IN  v.known = mem[c].known /\ v.left = mem[c].left \ {g}
           /\ \A x, y : LET v == [mem[c] EXCEPT !.cell = x, !.entry = y]
                        IN  v.known = mem[c].known /\ v.left = mem[c].left
           /\ \A x : LET v == [mem[c] EXCEPT !.rev = x]
                     IN  v.known = mem[c].known /\ v.left = mem[c].left
           /\ LET v == [mem[c] EXCEPT !.tries = @ + 1]
              IN  v.known = mem[c].known /\ v.left = mem[c].left
           /\ Forget(mem[c]).known = mem[c].known /\ Forget(mem[c]).left = mem[c].left
<1>1. DOMAIN mem[c] = DOMAIN Fresh0
  BY DEF ArchInv, Offers
<1> QED BY <1>1, FieldsOf DEF Forget

\* The recovery of c itself.  Where it goes, with the rest to be offered.
LEMMA RebuildGoesOn ==
    ASSUME LeaseInv, ArchInv, RebuildInv, NEW c \in Coordinators, UNCHANGED <<event, beside>>,
           CellsOnward, mem'[c].known \subseteq Lineage,
           Alone(c) /\ pc'[c] \notin {"recoverArchive", "recoverTrials"} => Offered(c)'
    PROVE  Rebuild(c)'
BY LineageGrows DEF Rebuild, Alone

LEMMA RecoverRebuilds ==
    ASSUME LeaseInv, ArchInv, RebuildInv, NEW c \in Coordinators, Rebuilding(c),
           RecoverArchive(c) \/ RecoverTrials(c) \/ Recover(c) \/ Recovered(c),
           CellsOnward, ~Elsewhere(c)
    PROVE  Rebuild(c)'
<1> USE DEF At
<1>1. Rebuild(c) /\ mem[c].known \subseteq Lineage
  BY DEF RebuildInv, Rebuild
<1>2. UNCHANGED <<trials, archive>>
  BY DEF RecoverArchive, RecoverTrials, Recover, Recovered, Reads, files
<1>3. \A p : Goto(c, p) => pc'[c] = p
  BY GotoIs
<1>4. CASE RecoverArchive(c)
  <2> DEFINE v == [mem[c] EXCEPT !.known = Lineage]
  <2>1. v.known = Lineage
    BY DEF ArchInv, Offers, Fresh0
  <2>2. Recall(c, v) /\ pc'[c] = "recoverTrials" /\ UNCHANGED <<event, beside>>
    BY <1>3, <1>4 DEF RecoverArchive, Reads, Stay, place
  <2> HIDE DEF v
  <2>3. mem'[c] = v
    BY <2>2, RecallIs
  <2> QED BY <2>1, <2>2, <2>3, RebuildGoesOn
<1>5. CASE RecoverTrials(c)
  <2> DEFINE found == {g \in Genomes : trials[event[c]][g].status = "VALIDATED"}
             v == [mem[c] EXCEPT !.left = found]
  <2>1. v.known = mem[c].known /\ v.left = found
    BY Known
  <2>2. Recall(c, v) /\ pc'[c] = "recover" /\ UNCHANGED <<event, beside>>
    BY <1>3, <1>5 DEF RecoverTrials, Reads, Stay, place
  <2> HIDE DEF v
  <2>3. mem'[c] = v
    BY <2>2, RecallIs
  <2>4. Offered(c)'
    BY <1>2, <2>1, <2>2, <2>3 DEF Offered, Kept
  <2> QED BY <1>1, <2>1, <2>2, <2>3, <2>4, RebuildGoesOn
<1>6. CASE Recover(c)
  <2>1. pc[c] = "recover" /\ event[c] \in Events
    BY <1>6, WorkingHasEvent DEF Recover, Resting
  <2>2. ASSUME Alone(c), NEW g \in Genomes, g \notin mem[c].left
        PROVE  Kept(trials[event[c]][g], archive.cells)
    BY <1>1, <2>1, <2>2 DEF Rebuild, Rebuilding, Offered, Considering, Recovering
  <2>3. CASE Goto(c, "entries")
    BY <1>3, <2>3 DEF Elsewhere, Recovering, Considering
  <2>4. CASE End(c, "BLOCKED")
    BY <1>3, <2>4 DEF End, Elsewhere, Recovering, Considering
  <2>5. ASSUME NEW g \in Genomes,
               LET e == event[c]
                   trial == trials[e][g] IN
               /\ genome' = [genome EXCEPT ![c] = g]
               /\ Recall(c, [mem[c] EXCEPT !.left = @ \ {g}, !.tries = 0])
               /\ Goto(c, IF trial.quality # 0 /\ <<e, g>> \notin mem[c].known
                          THEN "consider" ELSE "recovered")
               /\ UNCHANGED <<lease, event, batch, beside>>
        PROVE  Rebuild(c)'
    <3> DEFINE v == [mem[c] EXCEPT !.left = @ \ {g}, !.tries = 0]
               open == trials[event[c]][g].quality # 0 /\ <<event[c], g>> \notin mem[c].known
    <3>1. v.known = mem[c].known /\ v.left = mem[c].left \ {g}
      BY Known
    <3>2. Recall(c, v) /\ pc'[c] = (IF open THEN "consider" ELSE "recovered")
      BY <1>3, <2>5
    <3>3. genome'[c] = g
      BY <2>5 DEF LeaseInv, Locals
    <3> HIDE DEF v
    <3>4. mem'[c] = v
      BY <3>2, RecallIs
    <3>5. ~open => Kept(trials[event[c]][g], archive.cells)
      <4>1. <<event[c], g>> \in mem[c].known => <<event[c], g>> \in Lineage
        BY <1>1
      <4>2. <<event[c], g>> \in Lineage => Kept(trials[event[c]][g], archive.cells)
        BY <2>1, LineageKept DEF RebuildInv
      <4> QED BY <4>1, <4>2 DEF Kept
    <3> HIDE DEF open
    <3>6. ASSUME Alone(c)
          PROVE  Offered(c)'
      <4>1. \A h \in Genomes \ {g} :
               h \in mem'[c].left \/ Kept(trials[event[c]][h], archive.cells)
        BY <2>2, <3>1, <3>4, <3>6
      <4>2. pc'[c] \in Considering \/ Kept(trials[event[c]][g], archive.cells)
        BY <3>2, <3>5 DEF Considering
      <4> QED BY <1>2, <2>5, <3>3, <4>1, <4>2 DEF Offered
    <3> QED BY <1>1, <2>5, <3>1, <3>4, <3>6, RebuildGoesOn
  <2> QED BY <1>6, <2>3, <2>4, <2>5 DEF Recover
<1>7. CASE Recovered(c)
  <2>1. CASE End(c, "SOLVED")
    BY <1>3, <2>1 DEF End, Elsewhere, Recovering, Considering
  <2>2. CASE Goto(c, "recover") /\ UNCHANGED mem /\ Stay
    <3>1. pc[c] = "recovered" /\ pc'[c] = "recover" /\ UNCHANGED <<event, beside, genome>>
      BY <1>3, <1>7, <2>2 DEF Recovered, Stay, place
    <3>2. Alone(c) => Offered(c)
      BY <1>1, <3>1 DEF Rebuild
    <3>3. Offered(c) => Offered(c)'
      BY <1>2, <2>2, <3>1 DEF Offered, Considering
    <3> QED BY <1>1, <2>2, <3>1, <3>2, <3>3, RebuildGoesOn
  <2> QED BY <1>7, <2>1, <2>2 DEF Recovered
<1> QED BY <1>4, <1>5, <1>6, <1>7

LEMMA ConsiderRebuilds ==
    ASSUME LeaseInv, ArchInv, RebuildInv, Tolerance = 0, NEW c \in Coordinators, Rebuilding(c),
           Consider(c) \/ ConsiderRevision(c) \/ ConsiderCommit(c),
           ArchInv', CellsOnward, ~Elsewhere(c)
    PROVE  Rebuild(c)'
<1> USE DEF At
<1>1. /\ Rebuild(c) /\ mem[c].known \subseteq Lineage /\ mem[c].phase = "recover"
      /\ pc[c] \in Considering /\ pc[c] \notin {"recoverArchive", "recoverTrials"}
  BY DEF RebuildInv, Rebuild, Rebuilding, Consider, ConsiderRevision, ConsiderCommit, Considering
<1>2. UNCHANGED trials
  BY DEF Consider, ConsiderRevision, ConsiderCommit, Reads, files
<1>3. \A p : Goto(c, p) => pc'[c] = p
  BY GotoIs
<1>4. /\ event[c] \in Events /\ genome[c] \in Genomes
      /\ Paid(event[c], genome[c]) /\ Told(Trial(c))
  BY <1>1, WorkingHasEvent DEF Considering, Resting, LeaseInv, Locals, ArchInv, Offers, Trial
<1>5. archive'.cells \in [Cells -> Entry]
  BY DEF ArchInv
\* The other trials were offered before, or are to be.
<1>6. ASSUME Alone(c), NEW g \in Genomes \ {genome[c]}, g \notin mem[c].left
      PROVE  Kept(trials'[event[c]][g], archive'.cells)
  <2>1. Kept(trials[event[c]][g], archive.cells)
    BY <1>1, <1>6 DEF Rebuild, Offered
  <2>2. Told(trials[event[c]][g])
    BY <1>4 DEF ArchInv
  <2> QED BY <1>2, <1>5, <2>1, <2>2, KeptStays
\* On with the offer, or to its end.
<1>7. ASSUME NEW v, Recall(c, v), v.known = mem[c].known, v.left = mem[c].left, Stay,
             NEW p, Goto(c, p), p \notin {"recoverArchive", "recoverTrials"},
             p \in Considering \/ Kept(Trial(c), archive'.cells)
      PROVE  Rebuild(c)'
  <2>1. mem'[c] = v /\ pc'[c] = p /\ UNCHANGED <<event, beside, genome>>
    BY <1>3, <1>7, RecallIs DEF Stay, place
  <2>2. Alone(c) => Offered(c)'
    BY <1>2, <1>6, <1>7, <2>1 DEF Offered, Trial
  <2> QED BY <1>1, <1>7, <2>1, <2>2, RebuildGoesOn
<1>8. ASSUME NEW accepted, Considered(c, accepted), Kept(Trial(c), archive'.cells)
      PROVE  Rebuild(c)'
  <2>1. Recall(c, Forget(mem[c])) /\ Stay /\ Goto(c, "recovered")
    BY <1>1, <1>8 DEF Considered
  <2> QED BY <1>7, <1>8, <2>1, Known
<1>9. CASE Consider(c)
  <2>1. UNCHANGED archive
    BY <1>9 DEF Consider, files
  <2>2. CASE /\ archive.cells[Trial(c).cell] # NoEntry
             /\ ~Better(Trial(c).quality, archive.cells[Trial(c).cell].quality)
             /\ Considered(c, FALSE)
    BY <1>8, <2>1, <2>2 DEF Kept
  <2>3. CASE /\ Recall(c, [mem[c] EXCEPT !.cell = Trial(c).cell,
                                         !.entry = archive.cells[Trial(c).cell]])
             /\ Goto(c, "considerRevision")
             /\ Stay
    <3> DEFINE v == [mem[c] EXCEPT !.cell = Trial(c).cell,
                                   !.entry = archive.cells[Trial(c).cell]]
    <3>1. v.known = mem[c].known /\ v.left = mem[c].left /\ Recall(c, v)
      BY <2>3, Known
    <3>2. "considerRevision" \in Considering
      BY DEF Considering
    <3> HIDE DEF v
    <3> QED BY <1>7, <2>3, <3>1, <3>2
  <2> QED BY <1>9, <2>2, <2>3 DEF Consider
<1>10. CASE ConsiderRevision(c)
  <2> DEFINE v == [mem[c] EXCEPT !.rev = archive.rev]
  <2>1. v.known = mem[c].known /\ v.left = mem[c].left /\ Recall(c, v)
    BY <1>10, Known DEF ConsiderRevision
  <2>2. "considerCommit" \in Considering /\ Stay /\ Goto(c, "considerCommit")
    BY <1>10 DEF ConsiderRevision, Considering, Reads
  <2> HIDE DEF v
  <2> QED BY <1>7, <2>1, <2>2
<1>11. CASE ConsiderCommit(c)
  <2>1. CASE End(c, "BLOCKED") \/ Die(c)
    BY <1>3, <2>1 DEF End, Die, Elsewhere, Recovering, Considering
  <2>2. CASE Recall(c, [mem[c] EXCEPT !.tries = @ + 1]) /\ Goto(c, "consider") /\ Stay
    <3> DEFINE v == [mem[c] EXCEPT !.tries = @ + 1]
    <3>1. v.known = mem[c].known /\ v.left = mem[c].left /\ Recall(c, v)
      BY <2>2, Known
    <3>2. "consider" \in Considering
      BY DEF Considering
    <3> HIDE DEF v
    <3> QED BY <1>7, <2>2, <3>1, <3>2
  <2>3. CASE Considered(c, TRUE) /\ Publish(Index(mem[c].cell,
                [event |-> event[c], genome |-> genome[c],
                 quality |-> Trial(c).quality, used |-> mem[c].entry.used,
                 lineage |-> mem[c].entry.lineage \cup {<<event[c], genome[c]>>}]))
    <3> DEFINE new == [event |-> event[c], genome |-> genome[c],
                       quality |-> Trial(c).quality, used |-> mem[c].entry.used,
                       lineage |-> mem[c].entry.lineage \cup {<<event[c], genome[c]>>}]
    <3>1. archive'.cells = Index(mem[c].cell, new) /\ new.quality = Trial(c).quality
      BY <2>3 DEF Publish
    <3>2. new # NoEntry
      BY <1>4, <3>1 DEF NoEntry, Paid, Trial
    <3> HIDE DEF new
    <3>3. mem[c].cell = Trial(c).cell /\ Trial(c).cell \in Cells
      <4>1. pc[c] = "considerCommit"
        BY <1>11 DEF ConsiderCommit
      <4> QED BY <1>4, <4>1 DEF ArchInv, Offers, Told, Paid, Trial
    <3>4. archive'.cells[Trial(c).cell] = new
      BY <3>1, <3>3 DEF Index, ArchInv
    <3>5. ~Better(Trial(c).quality, new.quality)
      BY <1>4, <3>1, Qualified, EvolutionAssumption DEF Better
    <3> QED BY <1>8, <2>3, <3>2, <3>4, <3>5 DEF Kept
  <2> QED BY <1>1, <1>11, <2>1, <2>2, <2>3 DEF ConsiderCommit
<1> QED BY <1>9, <1>10, <1>11

\* What a coordinator does next in its recovery.
LEMMA AtRecover ==
    ASSUME NEW c \in Coordinators, Step(c), pc[c] = "recover"
    PROVE  Recover(c)
<1> USE DEF At
<1>1. ~(RecoverArchive(c) \/ RecoverTrials(c) \/ Recovered(c) \/ Entries(c) \/ Seen(c) \/ Round(c))
  BY DEF RecoverArchive, RecoverTrials, Recovered, Entries, Seen, Round
<1>2. ~(BatchOperation(c) \/ BatchStored(c) \/ BatchRemaining(c) \/ BatchReserve(c)
        \/ Parents(c) \/ Begin(c) \/ MarkUsed(c) \/ MarkRevision(c) \/ MarkCommit(c))
  BY DEF BatchOperation, BatchStored, BatchRemaining, BatchReserve, Remaining, ReserveWithCap,
         Parents, Begin, MarkUsed, MarkRevision, MarkCommit
<1>3. ~(Proposed(c) \/ SaveBatch(c) \/ SettleBatch(c) \/ Proposals(c) \/ Proposal(c))
  BY DEF Proposed, SaveBatch, SettleBatch, Proposals, Proposal
<1>4. ~(TrialOperation(c) \/ TrialRemaining(c) \/ TrialReserve(c) \/ ReserveTrial(c)
        \/ TrialLease(c) \/ LeasedStart(c) \/ LeasedInterrupted(c) \/ LeasedFailed(c)
        \/ Execute(c) \/ Validate(c) \/ SettleTrial(c))
  BY DEF TrialOperation, TrialRemaining, TrialReserve, Remaining, ReserveWithCap,
         ReserveTrial, TrialLease, LeasedStart, LeasedInterrupted, LeasedFailed,
         Execute, Validate, SettleTrial
<1>5. ~(Consider(c) \/ ConsiderRevision(c) \/ ConsiderCommit(c) \/ Tried(c))
  BY DEF Consider, ConsiderRevision, ConsiderCommit, Tried
<1> QED BY <1>1, <1>2, <1>3, <1>4, <1>5 DEF Step

LEMMA RebuildInit == Init => RebuildInv
BY DEF Init, RebuildInv, Together, Peak, Filled, Rebuild, Rebuilding, Recovering, Considering, Resting

LEMMA RebuildNext ==
    ASSUME Tolerance = 0, LeaseInv, ArchInv, RebuildInv, [Next]_vars
    PROVE  RebuildInv'
<1>1. ArchInv' /\ CellsOnward
  BY ArchNext
<1>2. archive'.cells \in [Cells -> Entry]
  BY <1>1 DEF ArchInv
<1>3. CASE UNCHANGED vars
  BY <1>3 DEF vars, RebuildInv, Together, Peak, Filled, Rebuild, Rebuilding, Offered, Alone, Lineage
<1>4. ASSUME NEW c \in Coordinators, Step(c) \/ Crash(c) \/ \E e \in Events : RunEvent(c, e)
      PROVE  RebuildInv'
  <2>1. Together' /\ Peak'
    BY <1>4, TogetherNext, PeakNext DEF RebuildInv
  <2>2. \A d \in Coordinators \ {c} : Rebuild(d)'
    BY <1>1, <1>2, <1>4, OthersRebuild
  <2>3. Elsewhere(c) => Rebuild(c)'
    BY DEF Elsewhere, Rebuild, Rebuilding
  <2>4. CASE Step(c) \/ Crash(c)
    BY <1>1, <2>1, <2>2, <2>3, <2>4, StepsElsewhere, RecoverRebuilds, ConsiderRebuilds DEF RebuildInv
  <2>5. CASE \E e \in Events : RunEvent(c, e)
    <3>1. pc'[c] \in Resting => Elsewhere(c)
      BY DEF Elsewhere, Resting, Recovering, Considering
    <3>2. pc'[c] = "recoverArchive" /\ mem'[c] = Fresh0 => Rebuild(c)'
      BY DEF Rebuild, Fresh0
    <3> QED BY <2>1, <2>2, <2>3, <2>5, <3>1, <3>2, RunEventIs DEF RebuildInv
  <2> QED BY <1>4, <2>4, <2>5
<1> QED BY <1>3, <1>4 DEF Next

(* With no tolerance, as the workbench configures its events, a run that gets     *)
(* past the recovery alone has every qualified result of the earlier runs in    *)
(* the archive, or beaten there, whatever other events commit meanwhile         *)
(* (coordinator.py 505-540, application/qd_strategy.py 230).                  *)
THEOREM RecoveryIsComplete ==
    ASSUME Tolerance = 0
    PROVE  Spec => RecoveryRebuilds
<1>1. LeaseInv /\ ArchInv /\ RebuildInv /\ [Next]_vars =>
        [\A c \in Coordinators :
            pc[c] = "recover" /\ pc'[c] = "entries" /\ Alone(c) =>
              \A g \in Genomes : Kept(trials[event[c]][g], archive.cells)]_vars
  <2> SUFFICES ASSUME LeaseInv, ArchInv, RebuildInv, Next, NEW c \in Coordinators,
                      pc[c] = "recover", pc'[c] = "entries", Alone(c), NEW g \in Genomes
               PROVE  Kept(trials[event[c]][g], archive.cells)
    OBVIOUS
  <2>1. Rebuilding(c) /\ Offered(c)
    BY DEF RebuildInv, Rebuild, Rebuilding, Recovering, ArchInv, Offers
  <2>2. mem[c].left = {}
    <3>1. PICK d \in Coordinators : Step(d) \/ Crash(d) \/ \E e \in Events : RunEvent(d, e)
      BY DEF Next
    <3>2. d = c
      BY <3>1, StepSteady, RunEventQuiet DEF Quiet, Settled, Steady
    <3>3. ~Crash(c) /\ \A e \in Events : ~RunEvent(c, e)
      BY GotoIs DEF RunEvent, Crash, Die
    <3>4. Recover(c)
      BY <3>1, <3>2, <3>3, AtRecover
    <3>5. \A p : Goto(c, p) => p = "entries"
      BY GotoIs
    <3>6. CASE End(c, "BLOCKED")
      BY <3>5, <3>6 DEF End
    <3>7. ASSUME NEW open \in BOOLEAN, Goto(c, IF open THEN "consider" ELSE "recovered")
          PROVE  FALSE
      <4>1. (IF open THEN "consider" ELSE "recovered") # "entries"
        OBVIOUS
      <4> QED BY <3>5, <3>7, <4>1
    <3>8. CASE \E h \in Genomes :
                  Goto(c, IF trials[event[c]][h].quality # 0 /\ <<event[c], h>> \notin mem[c].known
                          THEN "consider" ELSE "recovered")
      BY <3>7, <3>8
    <3> QED BY <3>4, <3>6, <3>8 DEF Recover
  <2> QED BY <2>1, <2>2 DEF Offered, Considering
<1>2. Init => LeaseInv /\ ArchInv /\ RebuildInv
  BY LeaseInit, ArchInit, RebuildInit
<1>3. LeaseInv /\ ArchInv /\ RebuildInv /\ [Next]_vars => (LeaseInv /\ ArchInv /\ RebuildInv)'
  BY LeaseNext, ArchNext, RebuildNext
<1> QED BY <1>1, <1>2, <1>3, PTL DEF Spec, RecoveryRebuilds
=============================================================================
