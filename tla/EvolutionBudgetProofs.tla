--------------------------- MODULE EvolutionBudgetProofs ---------------------------
(***************************************************************************)
(* Theorem about EvolutionEvents for every set of events, coordinators,    *)
(* genomes and costs and every budget: what an event uses and reserves     *)
(* never exceeds its caps.  Tokens is a sum over the operations of an      *)
(* event; the first part is about such sums over finite sets.              *)
(***************************************************************************)
EXTENDS EvolutionProofs, FiniteSetTheorems, NaturalsInduction, WellFoundedInduction

-----------------------------------------------------------------------------
(* Sums.  Tokens folds the charges of the operations into their sum in some     *)
(* order; whatever the order, a charge that changes changes the sum by as     *)
(* much.  Induction on finite sets is the choice of a smallest counterexample. *)

Pick(s) == CHOOSE x \in s : TRUE

Folds(h, f, S) == h = [s \in SUBSET S |-> IF s = {} THEN 0 ELSE f[Pick(s)] + h[s \ {Pick(s)}]]
Fold(f, S) == CHOOSE h : Folds(h, f, S)

LEMMA PickIn == ASSUME NEW s, s # {} PROVE Pick(s) \in s
BY DEF Pick

LEMMA SmallestSubset ==
    ASSUME NEW S, IsFiniteSet(S), NEW T, T \subseteq SUBSET S, T # {}
    PROVE  \E x \in T : \A y \in T : y \subseteq x => y = x
<1>1. IsWellFoundedOn(StrictSubsetOrdering(S), SUBSET S)
  BY FS_StrictSubsetOrderingWellFounded, FS_FiniteSubsetsOfFinite
<1>2. PICK x \in T : \A y \in T : ~ (<<y, x>> \in StrictSubsetOrdering(S))
  BY <1>1, WFMin, Zenon
<1>3. ASSUME NEW y \in T, y \subseteq x
      PROVE  y = x
  BY <1>2, <1>3 DEF StrictSubsetOrdering
<1> QED BY <1>3

LEMMA SmallestNumber ==
    ASSUME NEW T, T \subseteq Nat, T # {}
    PROVE  \E x \in T : \A y \in T : x <= y
<1>1. PICK x \in T : \A y \in T : ~ (<<y, x>> \in OpToRel(<, Nat))
  BY NatLessThanWellFounded, WFMin, Zenon
<1>2. \A y \in T : ~(y < x)
  BY <1>1 DEF OpToRel
<1> QED BY <1>2

\* The recursion of the fold has a solution.
LEMMA FoldExists ==
    ASSUME NEW S, IsFiniteSet(S), NEW f
    PROVE  \E h : Folds(h, f, S)
<1> DEFINE Upto(n) == {s \in SUBSET S : Cardinality(s) <= n}
           Solves(h, n) == h = [s \in Upto(n) |->
                                   IF s = {} THEN 0 ELSE f[Pick(s)] + h[s \ {Pick(s)}]]
           Bad == {n \in Nat : ~ \E h : Solves(h, n)}
<1>1. \A s \in SUBSET S : Cardinality(s) \in Nat /\ IsFiniteSet(s)
  BY FS_Subset, FS_CardinalityType
<1>2. \E h : Solves(h, 0)
  <2> DEFINE h == [s \in Upto(0) |-> 0]
  <2>1. \A s \in Upto(0) : s = {}
    BY <1>1, FS_EmptySet
  <2>2. Solves(h, 0)
    BY <2>1
  <2> QED BY <2>2
<1>3. ASSUME NEW n \in Nat, NEW g, Solves(g, n)
      PROVE  \E h : Solves(h, n + 1)
  <2> DEFINE h == [s \in Upto(n + 1) |-> IF s = {} THEN 0 ELSE f[Pick(s)] + g[s \ {Pick(s)}]]
  <2>1. ASSUME NEW s \in Upto(n + 1), s # {}
        PROVE  s \ {Pick(s)} \in Upto(n) /\ s \ {Pick(s)} \in Upto(n + 1)
    <3>1. Pick(s) \in s
      BY <2>1, PickIn
    <3>2. Cardinality(s \ {Pick(s)}) = Cardinality(s) - 1
      BY <1>1, <3>1, FS_RemoveElement
    <3> QED BY <1>1, <3>2
  <2>2. ASSUME NEW t \in Upto(n), t \in Upto(n + 1)
        PROVE  g[t] = h[t]
    BY <1>3, <2>2
  <2>3. Solves(h, n + 1)
    BY <2>1, <2>2
  <2> QED BY <2>3
<1>4. Bad = {}
  <2> SUFFICES ASSUME Bad # {} PROVE FALSE
    OBVIOUS
  <2> HIDE DEF Solves
  <2>1. PICK n \in Bad : \A m \in Bad : n <= m
    <3>1. Bad \subseteq Nat
      OBVIOUS
    <3> HIDE DEF Bad
    <3> QED BY <3>1, SmallestNumber
  <2>2. n \in Nat /\ n # 0 /\ n - 1 \in Nat /\ n - 1 \notin Bad
    BY <1>2, <2>1
  <2>3. PICK g : Solves(g, n - 1)
    BY <2>2
  <2>4. \E h : Solves(h, (n - 1) + 1)
    BY <1>3, <2>2, <2>3
  <2>5. (n - 1) + 1 = n
    BY <2>2
  <2> QED BY <2>1, <2>4, <2>5
<1>5. Upto(Cardinality(S)) = SUBSET S /\ Cardinality(S) \in Nat
  BY FS_Subset, FS_CardinalityType
<1>6. \E h : Solves(h, Cardinality(S))
  BY <1>4, <1>5
<1> QED BY <1>5, <1>6 DEF Folds

LEMMA FoldStep ==
    ASSUME NEW S, IsFiniteSet(S), NEW f
    PROVE  /\ Fold(f, S)[{}] = 0
           /\ \A s \in SUBSET S :
                 s # {} => /\ Pick(s) \in s
                           /\ Fold(f, S)[s] = f[Pick(s)] + Fold(f, S)[s \ {Pick(s)}]
<1> DEFINE h == Fold(f, S)
<1>1. h = [s \in SUBSET S |-> IF s = {} THEN 0 ELSE f[Pick(s)] + h[s \ {Pick(s)}]]
  <2>1. Folds(h, f, S)
    BY FoldExists, Zenon DEF Fold
  <2> QED BY <2>1 DEF Folds
<1> HIDE DEF h
<1>2. \A s \in SUBSET S : h[s] = IF s = {} THEN 0 ELSE f[Pick(s)] + h[s \ {Pick(s)}]
  BY <1>1
<1>3. h[{}] = 0 /\ \A s \in SUBSET S :
        s # {} => Pick(s) \in s /\ h[s] = f[Pick(s)] + h[s \ {Pick(s)}]
  BY <1>2, PickIn
<1> QED BY <1>3 DEF h

LEMMA FoldIsNat ==
    ASSUME NEW S, IsFiniteSet(S), NEW f, \A x \in S : f[x] \in Nat
    PROVE  \A s \in SUBSET S : Fold(f, S)[s] \in Nat
<1> DEFINE h == Fold(f, S)
           Bad == {s \in SUBSET S : h[s] \notin Nat}
<1>1. h[{}] = 0 /\ \A s \in SUBSET S :
        s # {} => Pick(s) \in s /\ h[s] = f[Pick(s)] + h[s \ {Pick(s)}]
  BY FoldStep
<1> HIDE DEF h
<1>2. ASSUME Bad # {}
      PROVE  FALSE
  <2>1. PICK s \in Bad : \A t \in Bad : t \subseteq s => t = s
    <3>1. Bad \subseteq SUBSET S
      OBVIOUS
    <3> HIDE DEF Bad
    <3> QED BY <1>2, <3>1, SmallestSubset
  <2>2. s # {} /\ s \subseteq S
    <3>1. s \in SUBSET S /\ h[s] \notin Nat
      BY <2>1
    <3>2. h[{}] \in Nat
      BY <1>1
    <3> QED BY <3>1, <3>2, Zenon
  <2>3. Pick(s) \in s /\ h[s] = f[Pick(s)] + h[s \ {Pick(s)}]
    BY <1>1, <2>2
  <2>4. h[s \ {Pick(s)}] \in Nat
    <3>1. s \ {Pick(s)} \subseteq s /\ s \ {Pick(s)} # s
      BY <2>3
    <3> QED BY <2>1, <2>2, <3>1
  <2>5. f[Pick(s)] \in Nat
    BY <2>2, <2>3
  <2>6. h[s] \in Nat
    BY <2>3, <2>4, <2>5
  <2> QED BY <2>1, <2>6
<1> QED BY <1>2 DEF h

\* Two functions that differ in one place.
LEMMA FoldChanges ==
    ASSUME NEW S, IsFiniteSet(S), NEW f, NEW g, NEW o \in S,
           \A x \in S : f[x] \in Nat /\ g[x] \in Nat,
           \A x \in S \ {o} : g[x] = f[x]
    PROVE  Fold(g, S)[S] = Fold(f, S)[S] + (g[o] - f[o])
<1> DEFINE h == Fold(f, S)
           k == Fold(g, S)
           Bad == {s \in SUBSET S : k[s] # h[s] + (IF o \in s THEN g[o] - f[o] ELSE 0)}
<1>1. /\ h[{}] = 0 /\ k[{}] = 0
      /\ \A s \in SUBSET S :
            s # {} => /\ Pick(s) \in s /\ h[s] = f[Pick(s)] + h[s \ {Pick(s)}]
                      /\ k[s] = g[Pick(s)] + k[s \ {Pick(s)}]
  BY FoldStep
<1>2. \A s \in SUBSET S : h[s] \in Nat /\ k[s] \in Nat
  BY FoldIsNat
<1> HIDE DEF h, k
<1>3. ASSUME Bad # {}
      PROVE  FALSE
  <2>1. PICK s \in Bad : \A t \in Bad : t \subseteq s => t = s
    <3>1. Bad \subseteq SUBSET S
      OBVIOUS
    <3> HIDE DEF Bad
    <3> QED BY <1>3, <3>1, SmallestSubset
  <2>2. s # {} /\ s \subseteq S
    <3>1. s \in SUBSET S /\ k[s] # h[s] + (IF o \in s THEN g[o] - f[o] ELSE 0)
      BY <2>1
    <3>2. s = {} => k[s] = h[s] + (IF o \in s THEN g[o] - f[o] ELSE 0)
      BY <1>1
    <3> QED BY <3>1, <3>2
  <2> DEFINE p == Pick(s)
             t == s \ {p}
  <2>3. p \in s /\ p \in S /\ h[s] = f[p] + h[t] /\ k[s] = g[p] + k[t]
    BY <1>1, <2>2
  <2> HIDE DEF p
  <2>4. t \subseteq s /\ t # s /\ t \in SUBSET S
    BY <2>2, <2>3
  <2>5. k[t] = h[t] + (IF o \in t THEN g[o] - f[o] ELSE 0)
    BY <2>1, <2>4
  <2>6. /\ h[t] \in Nat /\ k[t] \in Nat /\ f[p] \in Nat /\ g[p] \in Nat
        /\ f[o] \in Nat /\ g[o] \in Nat
    BY <1>2, <2>3, <2>4
  <2>7. CASE p = o
    <3>1. o \notin t /\ o \in s
      BY <2>3, <2>7
    <3> HIDE DEF t
    <3>2. k[s] = h[s] + (g[o] - f[o])
      BY <2>3, <2>5, <2>6, <2>7, <3>1
    <3> QED BY <2>1, <3>1, <3>2
  <2>8. CASE p # o
    <3>1. g[p] = f[p] /\ (o \in t <=> o \in s)
      BY <2>3, <2>8
    <3> HIDE DEF t
    <3>2. k[s] = h[s] + (IF o \in s THEN g[o] - f[o] ELSE 0)
      BY <2>3, <2>5, <2>6, <3>1
    <3> QED BY <2>1, <3>2
  <2> QED BY <2>7, <2>8
<1>4. k[S] = h[S] + (g[o] - f[o])
  BY <1>3
<1> QED BY <1>4 DEF h, k

LEMMA FoldOfZeros ==
    ASSUME NEW S, IsFiniteSet(S), NEW f, \A x \in S : f[x] = 0
    PROVE  Fold(f, S)[S] = 0
<1> DEFINE h == Fold(f, S)
           Bad == {s \in SUBSET S : h[s] # 0}
<1>1. h[{}] = 0 /\ \A s \in SUBSET S :
        s # {} => Pick(s) \in s /\ h[s] = f[Pick(s)] + h[s \ {Pick(s)}]
  BY FoldStep
<1> HIDE DEF h
<1>2. ASSUME Bad # {}
      PROVE  FALSE
  <2>1. PICK s \in Bad : \A t \in Bad : t \subseteq s => t = s
    <3>1. Bad \subseteq SUBSET S
      OBVIOUS
    <3> HIDE DEF Bad
    <3> QED BY <1>2, <3>1, SmallestSubset
  <2>2. s # {} /\ s \subseteq S
    BY <1>1, <2>1
  <2>3. Pick(s) \in s /\ h[s] = f[Pick(s)] + h[s \ {Pick(s)}]
    BY <1>1, <2>2
  <2>4. h[s \ {Pick(s)}] = 0 /\ f[Pick(s)] = 0
    BY <2>1, <2>2, <2>3
  <2> QED BY <2>1, <2>3, <2>4
<1> QED BY <1>2 DEF h

-----------------------------------------------------------------------------
(* The budget.  The rest of it is read in one call of the ledger and reserved   *)
(* in another; what keeps the cap is that every change of an operation keeps  *)
(* the sum within it, and the number of trials.                             *)

Charges(e) == [o \in Operations |-> Charge(ops[e][o])]

LEMMA TokensIsFold ==
    ASSUME NEW e
    PROVE  Tokens(e) = Fold(Charges(e), Operations)[Operations]
<1> DEFINE f == Charges(e)
           F(h) == [s \in SUBSET Operations |->
                       IF s = {} THEN 0
                       ELSE Charge(ops[e][CHOOSE x \in s : TRUE]) + h[s \ {CHOOSE x \in s : TRUE}]]
           G(h) == [s \in SUBSET Operations |->
                       IF s = {} THEN 0 ELSE f[Pick(s)] + h[s \ {Pick(s)}]]
<1>1. Tokens(e) = (CHOOSE h : h = F(h))[Operations]
  BY DEF Tokens, MapThenSumSet, MapThenFoldSet
<1>2. \A h : F(h) = G(h)
  <2>1. ASSUME NEW s \in SUBSET Operations, s # {}
        PROVE  f[Pick(s)] = Charge(ops[e][CHOOSE x \in s : TRUE])
    <3>1. Pick(s) \in Operations
      BY <2>1, PickIn
    <3> QED BY <3>1 DEF Charges, Pick
  <2> HIDE DEF f
  <2> QED BY <2>1 DEF Pick
<1> HIDE DEF F
<1>3. \A h : h = F(h) <=> Folds(h, f, Operations)
  BY <1>2 DEF Folds
<1> HIDE DEF f
<1>4. (CHOOSE h : h = F(h)) = (CHOOSE h : Folds(h, f, Operations))
  BY <1>3, Zenon
<1> QED BY <1>1, <1>4 DEF Fold, f

\* An operation as the ledger keeps it: what it used is within what it reserved.
OpSound(op) ==
    /\ op.reserved \in Amounts \cup {None}
    /\ op.actual \in -1 .. op.reserved
    /\ op.started \in BOOLEAN
    /\ op.reserved = None => op = NoOperation

Capped(e) == Tokens(e) <= TokenCap /\ Trials(e) <= TrialCap

LedgerSound ==
    /\ \A e \in Events : \A o \in Operations : OpSound(ops[e][o])
    /\ \A e \in Events : Capped(e)

LEMMA ChargeIsNat == ASSUME NEW op, OpSound(op) PROVE Charge(op) \in Nat
BY EvolutionAssumption DEF OpSound, Charge, Amounts, None

LEMMA OperationsFinite == IsFiniteSet(Operations) /\ IsFiniteSet(Genomes)
<1>1. IsFiniteSet({Baseline}) /\ IsFiniteSet(Children)
  BY FS_Singleton, EvolutionAssumption
<1>2. IsFiniteSet(Genomes)
  BY <1>1, FS_Union DEF Genomes
<1>3. IsFiniteSet(Batches)
  <2>1. MaxBatches - 1 \in Int
    BY EvolutionAssumption
  <2> QED BY <2>1, FS_Interval DEF Batches
<1> QED BY <1>2, <1>3, FS_Union DEF Operations

LEMMA TokensNat ==
    ASSUME LedgerSound, NEW e \in Events
    PROVE  Tokens(e) \in Nat
<1>1. \A o \in Operations : Charges(e)[o] \in Nat
  BY ChargeIsNat DEF Charges, LedgerSound
<1>2. Fold(Charges(e), Operations)[Operations] \in Nat
  BY <1>1, OperationsFinite, FoldIsNat
<1> QED BY <1>2, TokensIsFold

LEMMA TrialsNat == ASSUME NEW e PROVE Trials(e) \in Nat
<1>1. IsFiniteSet({g \in Genomes : ops[e][g].reserved # None})
  BY OperationsFinite, FS_Subset
<1> QED BY <1>1, FS_CardinalityType DEF Trials

\* What a change of one operation does to the sums.
LEMMA TokensIsFoldNext ==
    ASSUME NEW e
    PROVE  Tokens(e)' = Fold(Charges(e)', Operations)[Operations]
<1>1. (Tokens(e) = Fold(Charges(e), Operations)[Operations])'
  BY TokensIsFold, PTL
<1> QED BY <1>1

LEMMA TokensChange ==
    ASSUME LedgerShape, LedgerSound, NEW e \in Events, NEW o \in Operations, NEW op, OpSound(op),
           ops' = [ops EXCEPT ![e][o] = op]
    PROVE  /\ Tokens(e)' = Tokens(e) + (Charge(op) - Charge(ops[e][o]))
           /\ \A f \in Events \ {e} : Tokens(f)' = Tokens(f)
<1>1. ASSUME NEW f \in Events
      PROVE  /\ ops'[f] = IF f = e THEN [ops[e] EXCEPT ![o] = op] ELSE ops[f]
             /\ DOMAIN ops[f] = Operations
  BY DEF LedgerShape
<1> DEFINE old == Charges(e)
           new == [p \in Operations |-> Charge(ops'[e][p])]
<1>2. /\ Tokens(e) = Fold(old, Operations)[Operations]
      /\ Tokens(e)' = Fold(new, Operations)[Operations]
  <2>1. (Tokens(e) = Fold(Charges(e), Operations)[Operations])'
    BY TokensIsFold, PTL
  <2> QED BY <2>1, TokensIsFold DEF Charges
<1>3. /\ \A p \in Operations \ {o} : new[p] = old[p]
      /\ new[o] = Charge(op) /\ old[o] = Charge(ops[e][o])
  BY <1>1 DEF Charges
<1>4. \A p \in Operations : old[p] \in Nat /\ new[p] \in Nat
  <2>1. \A p \in Operations : old[p] \in Nat
    BY ChargeIsNat DEF Charges, LedgerSound
  <2>2. new[o] \in Nat
    BY <1>3, ChargeIsNat
  <2> HIDE DEF old, new
  <2> QED BY <1>3, <2>1, <2>2
<1>5. Fold(new, Operations)[Operations] = Fold(old, Operations)[Operations] + (new[o] - old[o])
  <2> HIDE DEF old, new
  <2> QED BY <1>3, <1>4, OperationsFinite, FoldChanges
<1>6. ASSUME NEW f \in Events, f # e
      PROVE  Tokens(f)' = Tokens(f)
  <2>1. Tokens(f)' = Fold(Charges(f)', Operations)[Operations]
    BY TokensIsFoldNext
  <2>2. Charges(f)' = Charges(f)
    BY <1>1, <1>6 DEF Charges
  <2> QED BY <2>1, <2>2, TokensIsFold
<1> QED BY <1>2, <1>3, <1>5, <1>6

LEMMA TrialsChange ==
    ASSUME LedgerShape, NEW e \in Events, NEW o \in Operations, NEW op,
           ops' = [ops EXCEPT ![e][o] = op],
           ops[e][o].reserved # None => op.reserved # None
    PROVE  /\ Trials(e)' <= Trials(e) + (IF o \in Genomes THEN 1 ELSE 0)
           /\ ops[e][o].reserved # None \/ op.reserved = None => Trials(e)' = Trials(e)
           /\ \A f \in Events \ {e} : Trials(f)' = Trials(f)
<1>1. ASSUME NEW f \in Events, NEW g \in Operations
      PROVE  ops'[f][g] = IF f = e /\ g = o THEN op ELSE ops[f][g]
  BY DEF LedgerShape
<1>2. Genomes \subseteq Operations
  BY DEF Operations
<1> DEFINE T(f) == {g \in Genomes : ops[f][g].reserved # None}
           U(f) == {g \in Genomes : ops'[f][g].reserved # None}
<1>3. \A f \in Events \ {e} : U(f) = T(f)
  BY <1>1, <1>2
<1>4. ops[e][o].reserved # None \/ op.reserved = None => U(e) = T(e)
  BY <1>1, <1>2
<1>5. U(e) \subseteq T(e) \cup {o}
  BY <1>1, <1>2
<1>6. o \notin Genomes => U(e) = T(e)
  BY <1>1, <1>2
<1>7. IsFiniteSet(T(e)) /\ Cardinality(T(e)) \in Nat
  BY OperationsFinite, FS_Subset, FS_CardinalityType
<1>8. \A f : Trials(f) = Cardinality(T(f)) /\ Trials(f)' = Cardinality(U(f))
  BY DEF Trials
<1> HIDE DEF T, U
<1>9. IsFiniteSet(T(e) \cup {o}) /\ Cardinality(T(e) \cup {o}) <= Cardinality(T(e)) + 1
  <2>1. /\ IsFiniteSet(T(e) \cup {o})
        /\ \/ Cardinality(T(e) \cup {o}) = Cardinality(T(e))
           \/ Cardinality(T(e) \cup {o}) = Cardinality(T(e)) + 1
    BY <1>7, FS_AddElement, Zenon
  <2> QED BY <1>7, <2>1
<1>10. Cardinality(U(e)) <= Cardinality(T(e)) + 1
  <2>1. Cardinality(U(e)) <= Cardinality(T(e) \cup {o}) /\ Cardinality(U(e)) \in Nat
        /\ Cardinality(T(e) \cup {o}) \in Nat
    BY <1>5, <1>9, FS_Subset, FS_CardinalityType
  <2> QED BY <1>7, <1>9, <2>1
<1> QED BY <1>3, <1>4, <1>6, <1>7, <1>8, <1>10

\* What every step does to the ledger.
LedgerFollows ==
    /\ LedgerSound'
    /\ \A e \in Events : \A o \in Operations : ops[e][o].started => ops'[e][o].started

LEMMA LedgerStays ==
    ASSUME LedgerSound, \A e \in Events : \A o \in Operations : ops'[e][o] = ops[e][o]
    PROVE  LedgerFollows
<1>1. ASSUME NEW e \in Events
      PROVE  Capped(e)'
  <2>1. (Tokens(e) = Fold(Charges(e), Operations)[Operations])'
    BY TokensIsFold, PTL
  <2>2. Charges(e)' = Charges(e)
    BY DEF Charges
  <2>3. Trials(e)' = Trials(e)
    <3>1. Genomes \subseteq Operations
      BY DEF Operations
    <3>2. {g \in Genomes : ops'[e][g].reserved # None} = {g \in Genomes : ops[e][g].reserved # None}
      BY <3>1
    <3> QED BY <3>2 DEF Trials
  <2>4. Capped(e)
    BY DEF LedgerSound
  <2> QED BY <2>1, <2>2, <2>3, <2>4, TokensIsFold DEF Capped
<1>2. \A e \in Events : \A o \in Operations : OpSound(ops'[e][o])
  BY DEF LedgerSound
<1> QED BY <1>1, <1>2 DEF LedgerFollows, LedgerSound, OpSound

LEMMA LedgerChanges ==
    ASSUME LedgerShape, LedgerSound, NEW e \in Events, NEW o \in Operations, NEW op, OpSound(op),
           ops' = [ops EXCEPT ![e][o] = op],
           ops[e][o].started => op.started,
           ops[e][o].reserved # None => op.reserved # None,
           \/ Charge(op) <= Charge(ops[e][o])
           \/ Tokens(e) + Charge(op) - Charge(ops[e][o]) <= TokenCap,
           \/ ops[e][o].reserved # None \/ op.reserved = None
           \/ Trials(e) + (IF o \in Genomes THEN 1 ELSE 0) <= TrialCap
    PROVE  LedgerFollows
<1>1. ASSUME NEW f \in Events, NEW p \in Operations
      PROVE  OpSound(ops'[f][p]) /\ (ops[f][p].started => ops'[f][p].started)
  <2>1. CASE f = e /\ p = o
    <3>1. ops'[f][p] = op
      BY <2>1 DEF LedgerShape
    <3> QED BY <2>1, <3>1
  <2>2. CASE f # e \/ p # o
    <3>1. ops'[f][p] = ops[f][p]
      BY <2>2 DEF LedgerShape
    <3> QED BY <3>1 DEF LedgerSound
  <2> QED BY <2>1, <2>2
<1>2. /\ Tokens(e)' = Tokens(e) + (Charge(op) - Charge(ops[e][o]))
      /\ \A f \in Events \ {e} : Tokens(f)' = Tokens(f)
  BY TokensChange
<1>3. /\ Trials(e)' <= Trials(e) + (IF o \in Genomes THEN 1 ELSE 0)
      /\ ops[e][o].reserved # None \/ op.reserved = None => Trials(e)' = Trials(e)
      /\ \A f \in Events \ {e} : Trials(f)' = Trials(f)
  BY TrialsChange
<1>4. Charge(op) \in Nat /\ Charge(ops[e][o]) \in Nat /\ Tokens(e) \in Nat
  BY ChargeIsNat, TokensNat DEF LedgerSound
<1>5. Tokens(e)' <= TokenCap
  <2>1. Tokens(e) <= TokenCap /\ TokenCap \in Nat
    BY EvolutionAssumption DEF LedgerSound, Capped
  <2> QED BY <1>2, <1>4, <2>1
<1>6. Trials(e)' <= TrialCap
  <2>1. Trials(e) <= TrialCap /\ Trials(e) \in Nat /\ TrialCap \in Nat
    BY TrialsNat, EvolutionAssumption DEF LedgerSound, Capped
  <2>2. Trials(e)' \in Nat
    <3>1. (Trials(e) \in Nat)'
      BY TrialsNat, PTL
    <3> QED BY <3>1
  <2> QED BY <1>3, <2>1, <2>2
<1>7. ASSUME NEW f \in Events
      PROVE  Capped(f)'
  <2>1. CASE f = e
    BY <1>5, <1>6, <2>1 DEF Capped
  <2>2. CASE f # e
    BY <1>2, <1>3, <2>2 DEF LedgerSound, Capped
  <2> QED BY <2>1, <2>2
<1> QED BY <1>1, <1>7 DEF LedgerFollows, LedgerSound, OpSound

-----------------------------------------------------------------------------
(* What a coordinator knows of its batch and of the budget where it is.      *)

BatchPlaces == {"batch", "batchStored", "batchRemaining", "batchReserve", "parents", "begin",
                "mark", "markRevision", "markCommit", "proposing", "save", "saved",
                "proposals", "proposal"}
TrialPlaces == {"trial", "trialRemaining", "trialReserve", "trialRecord", "trialLease", "leased",
                "executing", "validate", "settle", "tried"}
Reserving == {"batchReserve", "trialReserve"}
Asking == Marking \cup {"proposing", "save", "saved"}

\* Where its batch_index is one of a batch.
InBatch(p, phase) ==
    \/ p \in BatchPlaces
    \/ p \in TrialPlaces /\ phase # "baseline"
    \/ p \in Considering /\ phase \notin {"baseline", "recover"}

Ours(c) ==
    LET m == mem[c] IN
    /\ batch[c] \in 0 .. MaxBatches
    /\ InBatch(pc[c], m.phase) => batch[c] \in Batches
    /\ m.tokens \in Amounts \cup {None}
    /\ pc[c] \in Reserving => m.tokens # None
    /\ m.tries \in 0 .. Attempts - 1
    /\ m.cost \in Nat
    /\ pc[c] \in Asking => ops[event[c]][batch[c]].started

\* Only a batch that was begun is stored.
Stored(e, b) ==
    /\ batches[e][b].cost \in Nat
    /\ batches[e][b].stored => ops[e][b].started

Stores ==
    /\ DOMAIN batches = Events /\ \A e \in Events : DOMAIN batches[e] = Batches
    /\ \A e \in Events : \A b \in Batches : Stored(e, b)
    /\ archive.rev \in Nat
    /\ runs \in 0 .. MaxRuns

BudgetInv ==
    /\ LedgerSound
    /\ Stores
    /\ \A c \in Coordinators : Ours(c)

OthersBatch(c) == \A d \in Coordinators \ {c} : batch'[d] = batch[d]

\* What a step of c does to the budget, and what it leaves c with.
Calm == LedgerFollows /\ Stores'
Budgets(c) == Calm /\ Ours(c)' /\ OthersBatch(c)

LEMMA OthersOurs ==
    ASSUME LeaseInv, BudgetInv, NEW c \in Coordinators, Steady(c), Budgets(c),
           NEW d \in Coordinators \ {c}
    PROVE  Ours(d)'
<1>1. pc'[d] = pc[d] /\ event'[d] = event[d] /\ batch'[d] = batch[d] /\ mem'[d] = mem[d]
  BY DEF Steady, Budgets, OthersBatch
<1>2. Ours(d)
  BY DEF BudgetInv
<1>3. ASSUME pc[d] \in Asking
      PROVE  ops'[event[d]][batch[d]].started
  <2>1. event[d] \in Events
    BY <1>3 DEF LeaseInv, Holds, Resting, Asking, Marking
  <2>2. batch[d] \in Operations
    BY <1>2, <1>3 DEF Ours, InBatch, BatchPlaces, Asking, Marking, Operations
  <2>3. ops[event[d]][batch[d]].started
    BY <1>2, <1>3 DEF Ours
  <2> QED BY <2>1, <2>2, <2>3 DEF Budgets, Calm, LedgerFollows
<1> QED BY <1>1, <1>2, <1>3 DEF Ours

LEMMA BudgetFollows ==
    ASSUME LeaseInv, BudgetInv, NEW c \in Coordinators, Steady(c), Budgets(c)
    PROVE  BudgetInv'
<1>1. \A d \in Coordinators : Ours(d)'
  BY OthersOurs DEF Budgets
<1> QED BY <1>1 DEF BudgetInv, Budgets, Calm, LedgerFollows

\* The ledger moves on, and the stored batches stay.
LEMMA LedgerCalm ==
    ASSUME BudgetInv, LedgerFollows, UNCHANGED <<batches, archive, runs>>
    PROVE  Calm
<1>1. Batches \subseteq Operations
  BY DEF Operations
<1>2. \A e \in Events : \A b \in Batches : Stored(e, b)'
  BY <1>1 DEF BudgetInv, Stores, Stored, LedgerFollows
<1> QED BY <1>2 DEF Calm, BudgetInv, Stores

LEMMA SameCalm ==
    ASSUME BudgetInv, UNCHANGED <<ops, batches, archive, runs>>
    PROVE  Calm
<1>1. LedgerFollows
  BY LedgerStays DEF BudgetInv
<1> QED BY <1>1, LedgerCalm

LEMMA SettleFollows ==
    ASSUME LeaseInv, BudgetInv, NEW e \in Events, NEW o \in Operations, NEW used \in Nat,
           CanSettle(e, o, used), Settle(e, o, used)
    PROVE  LedgerFollows
<1> DEFINE op == [reserved |-> ops[e][o].reserved, actual |-> used, started |-> TRUE]
<1>1. OpSound(ops[e][o])
  BY DEF BudgetInv, LedgerSound
<1>2. op.reserved = ops[e][o].reserved /\ op.actual = used /\ op.started = TRUE
  OBVIOUS
<1>3. ops[e][o].reserved \in Amounts /\ used <= ops[e][o].reserved /\ ops[e][o].reserved # None
  BY <1>1 DEF CanSettle, OpSound
<1>4. OpSound(op)
  BY <1>2, <1>3 DEF OpSound, Amounts
<1>5. Charge(op) <= Charge(ops[e][o])
  BY <1>2, <1>3, EvolutionAssumption DEF CanSettle, Charge, Amounts, None
<1>6. ops' = [ops EXCEPT ![e][o] = op]
  BY DEF Settle
<1>7. LedgerShape /\ LedgerSound
  BY DEF LeaseInv, Tables, BudgetInv
<1> HIDE DEF op
<1> QED BY <1>2, <1>3, <1>4, <1>5, <1>6, <1>7, LedgerChanges

-----------------------------------------------------------------------------
(* Building blocks: where a step leads its coordinator.                     *)

LEMMA WhereIs ==
    ASSUME LeaseInv, BudgetInv, NEW c \in Coordinators, pc[c] \notin Resting
    PROVE  /\ event[c] \in Events /\ genome[c] \in Genomes /\ genome[c] \in Operations
           /\ Ours(c)
           /\ InBatch(pc[c], mem[c].phase) => batch[c] \in Batches /\ batch[c] \in Operations
BY DEF LeaseInv, Holds, Locals, BudgetInv, Ours, Operations

LEMMA RecallOurs ==
    ASSUME LeaseInv, ArchInv, BudgetInv, Calm, NEW c \in Coordinators, pc[c] \notin Resting,
           NEW p, Goto(c, p), UNCHANGED <<event, batch>>,
           NEW v, Recall(c, v),
           v.tokens \in Amounts \cup {None}, v.tries \in 0 .. Attempts - 1, v.cost \in Nat,
           p \in Reserving => v.tokens # None,
           p \in Asking => pc[c] \in Asking \/ ops'[event[c]][batch[c]].started,
           InBatch(p, v.phase) => InBatch(pc[c], mem[c].phase)
    PROVE  Budgets(c)
<1>1. mem'[c] = v /\ pc'[c] = p
  BY RecallIs, GotoIs
<1>2. /\ event[c] \in Events /\ Ours(c)
      /\ InBatch(pc[c], mem[c].phase) => batch[c] \in Batches /\ batch[c] \in Operations
  BY WhereIs
<1>3. pc[c] \in Asking => InBatch(pc[c], mem[c].phase)
  BY DEF InBatch, Asking, Marking, BatchPlaces
<1>4. p \in Asking => ops'[event[c]][batch[c]].started
  BY <1>2, <1>3 DEF Ours, Calm, LedgerFollows
<1>5. Ours(c)'
  BY <1>1, <1>2, <1>4 DEF Ours
<1> QED BY <1>5 DEF Budgets, OthersBatch

LEMMA WalkOurs ==
    ASSUME LeaseInv, ArchInv, BudgetInv, Calm, NEW c \in Coordinators, pc[c] \notin Resting,
           NEW p, Goto(c, p), UNCHANGED <<event, batch, mem>>, p \notin Reserving,
           p \in Asking => pc[c] \in Asking \/ ops'[event[c]][batch[c]].started,
           InBatch(p, mem[c].phase) => InBatch(pc[c], mem[c].phase)
    PROVE  Budgets(c)
<1>1. mem'[c] = mem[c] /\ pc'[c] = p
  BY GotoIs
<1>2. /\ event[c] \in Events /\ Ours(c)
      /\ InBatch(pc[c], mem[c].phase) => batch[c] \in Batches /\ batch[c] \in Operations
  BY WhereIs
<1>3. pc[c] \in Asking => InBatch(pc[c], mem[c].phase)
  BY DEF InBatch, Asking, Marking, BatchPlaces
<1>4. p \in Asking => ops'[event[c]][batch[c]].started
  BY <1>2, <1>3 DEF Ours, Calm, LedgerFollows
<1>5. Ours(c)'
  BY <1>1, <1>2, <1>4 DEF Ours
<1> QED BY <1>5 DEF Budgets, OthersBatch

LEMMA GoneOurs ==
    ASSUME LeaseInv, ArchInv, BudgetInv, Calm, NEW c \in Coordinators, NEW p \in Resting,
           Goto(c, p), Gone(c), NEW v, Recall(c, v), v.tokens = None, v.tries = 0, v.cost = 0
    PROVE  Budgets(c)
<1>1. mem'[c] = v /\ pc'[c] = p
  BY RecallIs, GotoIs
<1>2. batch'[c] = 0 /\ OthersBatch(c)
  BY DEF Gone, LeaseInv, Locals, OthersBatch
<1>3. p \notin Reserving /\ p \notin Asking /\ ~InBatch(p, v.phase)
  BY DEF Resting, Reserving, Asking, Marking, InBatch, BatchPlaces, TrialPlaces, Considering
<1>4. 0 \in 0 .. MaxBatches /\ 0 \in 0 .. Attempts - 1 /\ 0 \in Nat
  BY EvolutionAssumption DEF Attempts
<1>5. Ours(c)'
  BY <1>1, <1>2, <1>3, <1>4 DEF Ours
<1> QED BY <1>2, <1>5 DEF Budgets

LEMMA EndOurs ==
    ASSUME LeaseInv, ArchInv, BudgetInv, Calm, NEW c \in Coordinators, NEW outcome,
           End(c, outcome)
    PROVE  Budgets(c)
<1> DEFINE v == [Fresh0 EXCEPT !.outcome = outcome]
<1>1. v.tokens = None /\ v.tries = 0 /\ v.cost = 0
  BY DEF Fresh0
<1>2. Recall(c, v) /\ Goto(c, "ended") /\ Gone(c)
  BY DEF End
<1> HIDE DEF v
<1> QED BY <1>1, <1>2, GoneOurs DEF Resting

LEMMA DieOurs ==
    ASSUME LeaseInv, ArchInv, BudgetInv, Calm, NEW c \in Coordinators, Die(c)
    PROVE  Budgets(c)
<1>1. Fresh0.tokens = None /\ Fresh0.tries = 0 /\ Fresh0.cost = 0
  BY DEF Fresh0
<1> QED BY <1>1, GoneOurs DEF Die, Resting

LEMMA ForgetTokens ==
    ASSUME NEW m, DOMAIN m = DOMAIN Fresh0, NEW accepted
    PROVE  LET v == [Forget(m) EXCEPT !.accepted = accepted] IN
           /\ Forget(m).tokens = None /\ Forget(m).tries = 0 /\ Forget(m).cost = m.cost
           /\ v.tokens = None /\ v.tries = 0 /\ v.cost = m.cost
BY FieldsOf DEF Forget

LEMMA FinishOurs ==
    ASSUME LeaseInv, ArchInv, BudgetInv, Calm, NEW c \in Coordinators,
           \/ pc[c] \in TrialPlaces
           \/ pc[c] \in Considering /\ mem[c].phase # "recover",
           NEW accepted, Finish(c, accepted)
    PROVE  Budgets(c)
<1> DEFINE v == [Forget(mem[c]) EXCEPT !.accepted = accepted]
<1>1. DOMAIN mem[c] = DOMAIN Fresh0
  BY DEF ArchInv, Offers
<1>2. v.tokens = None /\ v.tries = 0 /\ v.cost = mem[c].cost /\ v.phase = mem[c].phase
  BY <1>1, ForgetTokens, ForgetIs
<1>3. Recall(c, v) /\ Goto(c, "tried") /\ UNCHANGED <<event, batch>>
  BY DEF Finish
<1> HIDE DEF v
<1>4. pc[c] \notin Resting
  BY DEF Resting, TrialPlaces, Considering
<1>5. mem[c].cost \in Nat /\ 0 \in 0 .. Attempts - 1
  BY DEF BudgetInv, Ours, Attempts
<1>6. "tried" \notin Reserving /\ "tried" \notin Asking
      /\ (InBatch("tried", v.phase) => InBatch(pc[c], mem[c].phase))
  BY <1>2 DEF Reserving, Asking, Marking, InBatch, BatchPlaces, TrialPlaces, Considering
<1> QED BY <1>2, <1>3, <1>4, <1>5, <1>6, RecallOurs

LEMMA ConsideredOurs ==
    ASSUME LeaseInv, ArchInv, BudgetInv, Calm, NEW c \in Coordinators, pc[c] \in Considering,
           NEW accepted, Considered(c, accepted)
    PROVE  Budgets(c)
<1>1. CASE mem[c].phase = "recover"
  <2> DEFINE v == Forget(mem[c])
  <2>1. DOMAIN mem[c] = DOMAIN Fresh0
    BY DEF ArchInv, Offers
  <2>2. v.tokens = None /\ v.tries = 0 /\ v.cost = mem[c].cost
    BY <2>1, ForgetTokens
  <2>3. Recall(c, v) /\ Goto(c, "recovered") /\ UNCHANGED <<event, batch>>
    BY <1>1 DEF Considered, Stay, place
  <2> HIDE DEF v
  <2>4. pc[c] \notin Resting
    BY DEF Resting, Considering
  <2>5. mem[c].cost \in Nat /\ 0 \in 0 .. Attempts - 1
    BY DEF BudgetInv, Ours, Attempts
  <2>6. "recovered" \notin Reserving /\ "recovered" \notin Asking /\ ~InBatch("recovered", v.phase)
    BY DEF Reserving, Asking, Marking, InBatch, BatchPlaces, TrialPlaces, Considering
  <2> QED BY <2>2, <2>3, <2>4, <2>5, <2>6, RecallOurs
<1>2. CASE mem[c].phase # "recover"
  BY <1>2, FinishOurs DEF Considered
<1> QED BY <1>1, <1>2

LEMMA CostIsNat ==
    ASSUME ArchInv, NEW e \in Events, NEW g \in Genomes
    PROVE  trials[e][g].cost \in Nat
<1>1. trials[e][g].cost \in Costs \/ trials[e][g].cost = 0
  BY DEF ArchInv, Told, TrialSet
<1>2. \A n \in Costs : n \in Nat
  BY EvolutionAssumption
<1>3. 0 \in Nat
  OBVIOUS
<1> QED BY <1>1, <1>2, <1>3, Zenon

-----------------------------------------------------------------------------
(* The steps and the budget.                                                *)

LEMMA RecoveryBudgets ==
    ASSUME LeaseInv, ArchInv, BudgetInv, NEW c \in Coordinators,
           \/ RecoverArchive(c) \/ RecoverTrials(c) \/ Recover(c) \/ Recovered(c)
           \/ Entries(c) \/ Seen(c) \/ Round(c)
    PROVE  Budgets(c)
<1> USE DEF At
<1>1. UNCHANGED <<batches, archive, runs>>
  BY DEF RecoverArchive, RecoverTrials, Recover, Recovered, Entries, Seen, Round, Reads, files,
         Leave, history
<1>2. /\ \A p \in {"recoverTrials", "recover", "recovered", "consider", "entries", "trial", "seen",
                   "round", "batch"} : p \notin Reserving /\ p \notin Asking
      /\ \A p \in {"recoverTrials", "recover", "recovered", "entries", "seen", "round"} :
            \A phase : ~InBatch(p, phase)
      /\ ~InBatch("trial", "baseline") /\ ~InBatch("consider", "recover")
  BY DEF Reserving, Asking, Marking, InBatch, BatchPlaces, TrialPlaces, Considering
<1>3. Ours(c)
  BY DEF BudgetInv
<1>4. CASE RecoverArchive(c)
  <2>1. UNCHANGED <<ops, event, batch>> /\ Calm /\ pc[c] \notin Resting
    BY <1>1, <1>4, SameCalm DEF RecoverArchive, Reads, files, Stay, place, Resting
  <2> DEFINE v == [mem[c] EXCEPT !.known = Lineage]
  <2>2. v.tokens = mem[c].tokens /\ v.tries = mem[c].tries /\ v.cost = mem[c].cost
    BY Fields
  <2>3. Goto(c, "recoverTrials") /\ Recall(c, v)
    BY <1>4 DEF RecoverArchive
  <2> HIDE DEF v
  <2> QED BY <1>2, <1>3, <2>1, <2>2, <2>3, RecallOurs DEF Ours
<1>5. CASE RecoverTrials(c)
  <2>1. UNCHANGED <<ops, event, batch>> /\ Calm /\ pc[c] \notin Resting
    BY <1>1, <1>5, SameCalm DEF RecoverTrials, Reads, files, Stay, place, Resting
  <2> DEFINE v == [mem[c] EXCEPT !.left = {g \in Genomes : trials[event[c]][g].status = "VALIDATED"}]
  <2>2. v.tokens = mem[c].tokens /\ v.tries = mem[c].tries /\ v.cost = mem[c].cost
    BY Fields
  <2>3. Goto(c, "recover") /\ Recall(c, v)
    BY <1>5 DEF RecoverTrials
  <2> HIDE DEF v
  <2> QED BY <1>2, <1>3, <2>1, <2>2, <2>3, RecallOurs DEF Ours
<1>6. CASE Recover(c)
  <2>1. pc[c] = "recover" /\ event[c] \in Events /\ pc[c] \notin Resting
    BY <1>6, WorkingHasEvent DEF Recover, Resting
  <2>2. CASE mem[c].left = {} /\ Goto(c, "entries") /\ UNCHANGED <<ops, mem>> /\ Stay
    BY <1>1, <1>2, <2>1, <2>2, SameCalm, WalkOurs DEF Stay, place
  <2>3. CASE End(c, "BLOCKED") /\ UNCHANGED ops
    BY <1>1, <2>3, SameCalm, EndOurs
  <2>4. ASSUME NEW g \in Genomes,
               LET e == event[c]
                   trial == trials[e][g] IN
               /\ g \in mem[c].left
               /\ CanSettle(e, g, trial.cost)
               /\ Settle(e, g, trial.cost)
               /\ genome' = [genome EXCEPT ![c] = g]
               /\ Recall(c, [mem[c] EXCEPT !.left = @ \ {g}, !.tries = 0])
               /\ Goto(c, IF trial.quality # 0 /\ <<e, g>> \notin mem[c].known
                          THEN "consider" ELSE "recovered")
               /\ UNCHANGED <<lease, event, batch, beside>>
        PROVE  Budgets(c)
    <3>1. trials[event[c]][g].cost \in Nat /\ g \in Operations
      BY <2>1, CostIsNat DEF Operations
    <3>2. Calm
      BY <1>1, <2>1, <2>4, <3>1, SettleFollows, LedgerCalm
    <3> DEFINE v == [mem[c] EXCEPT !.left = @ \ {g}, !.tries = 0]
               p == IF trials[event[c]][g].quality # 0 /\ <<event[c], g>> \notin mem[c].known
                    THEN "consider" ELSE "recovered"
    <3>3. v.tokens = mem[c].tokens /\ v.tries = 0 /\ v.cost = mem[c].cost /\ v.phase = mem[c].phase
      BY Fields
    <3>4. Recall(c, v) /\ Goto(c, p) /\ UNCHANGED <<event, batch>>
      BY <2>4
    <3>5. p \in {"recovered", "consider"}
      OBVIOUS
    <3> HIDE DEF v, p
    <3>6. mem[c].phase = "recover"
      BY <2>1 DEF ArchInv, Offers, Recovering
    <3>7. 0 \in 0 .. Attempts - 1
      BY DEF Attempts
    <3> QED BY <1>2, <1>3, <2>1, <3>2, <3>3, <3>4, <3>5, <3>6, <3>7, RecallOurs DEF Ours
  <2> QED BY <1>6, <2>2, <2>3, <2>4 DEF Recover
<1>7. CASE Recovered(c)
  <2>1. UNCHANGED ops /\ Calm /\ pc[c] \notin Resting
    BY <1>1, <1>7, SameCalm DEF Recovered, files, Resting
  <2> QED BY <1>2, <1>7, <2>1, WalkOurs, EndOurs DEF Recovered, Stay, place
<1>8. CASE Entries(c)
  <2>1. UNCHANGED <<ops, event, batch>> /\ Calm /\ pc[c] \notin Resting
    BY <1>1, <1>8, SameCalm DEF Entries, files, Resting
  <2>2. CASE Goto(c, "seen") /\ UNCHANGED <<genome, mem>>
    BY <1>2, <2>1, <2>2, WalkOurs
  <2>3. CASE Goto(c, "trial") /\ Recall(c, [mem[c] EXCEPT !.phase = "baseline"])
    <3> DEFINE v == [mem[c] EXCEPT !.phase = "baseline"]
    <3>1. /\ v.tokens = mem[c].tokens /\ v.tries = mem[c].tries /\ v.cost = mem[c].cost
          /\ v.phase = "baseline"
      BY Fields
    <3>2. Recall(c, v)
      BY <2>3
    <3> HIDE DEF v
    <3> QED BY <1>2, <1>3, <2>1, <2>3, <3>1, <3>2, RecallOurs DEF Ours
  <2> QED BY <1>8, <2>2, <2>3 DEF Entries
<1>9. CASE Seen(c)
  <2>1. UNCHANGED <<ops, event, batch>> /\ Calm /\ pc[c] \notin Resting /\ Goto(c, "round")
    BY <1>1, <1>9, SameCalm DEF Seen, Reads, files, Stay, place, Resting
  <2> DEFINE v == [mem[c] EXCEPT !.phase = "batch",
                     !.seen = {Baseline} \cup {archive.cells[k].genome : k \in Filled}]
  <2>2. v.tokens = mem[c].tokens /\ v.tries = mem[c].tries /\ v.cost = mem[c].cost
    BY Fields
  <2>3. Recall(c, v)
    BY <1>9 DEF Seen
  <2> HIDE DEF v
  <2> QED BY <1>2, <1>3, <2>1, <2>2, <2>3, RecallOurs DEF Ours
<1>10. CASE Round(c)
  <2>1. UNCHANGED ops /\ Calm /\ pc[c] \notin Resting
    BY <1>1, <1>10, SameCalm DEF Round, files, Resting
  <2>2. CASE \E outcome : End(c, outcome)
    BY <2>1, <2>2, EndOurs
  <2>3. CASE /\ batch[c] < MaxBatches
             /\ Goto(c, "batch")
             /\ UNCHANGED mem /\ Stay
    <3>1. pc'[c] = "batch" /\ mem' = mem /\ batch' = batch
      BY <2>3, GotoIs DEF Stay, place
    <3>2. batch[c] \in Batches
      BY <1>3, <2>3, EvolutionAssumption DEF Ours, Batches
    <3>3. Ours(c)'
      BY <1>2, <1>3, <3>1, <3>2 DEF Ours
    <3> QED BY <2>1, <3>1, <3>3 DEF Budgets, OthersBatch
  <2> QED BY <1>10, <2>2, <2>3 DEF Round
<1> QED BY <1>4, <1>5, <1>6, <1>7, <1>8, <1>9, <1>10

LEMMA RemainingBudgets ==
    ASSUME LeaseInv, ArchInv, BudgetInv, NEW c \in Coordinators, NEW here, here \notin Resting,
           NEW next \in Reserving, InBatch(next, mem[c].phase) => InBatch(here, mem[c].phase),
           Remaining(c, here, next)
    PROVE  Budgets(c)
<1>1. UNCHANGED <<ops, batches, archive, runs>> /\ Calm /\ pc[c] = here
  BY SameCalm DEF Remaining, files, At, Leave, history
<1>2. CASE End(c, "BUDGET_EXHAUSTED")
  BY <1>1, <1>2, EndOurs
<1>3. CASE /\ ~(Trials(event[c]) >= TrialCap \/ Tokens(event[c]) >= TokenCap)
           /\ Recall(c, [mem[c] EXCEPT !.tokens = TokenCap - Tokens(event[c])])
           /\ Goto(c, next)
           /\ Stay
  <2>1. Tokens(event[c]) \in Nat
    BY <1>1, WhereIs, TokensNat DEF BudgetInv
  <2>2. TokenCap - Tokens(event[c]) \in Amounts /\ TokenCap - Tokens(event[c]) # None
    BY <1>3, <2>1, EvolutionAssumption DEF Amounts, None
  <2> DEFINE v == [mem[c] EXCEPT !.tokens = TokenCap - Tokens(event[c])]
  <2>3. /\ v.tokens = TokenCap - Tokens(event[c]) /\ v.tries = mem[c].tries /\ v.cost = mem[c].cost
        /\ v.phase = mem[c].phase /\ Recall(c, v)
    BY <1>3, Fields
  <2> HIDE DEF v
  <2>4. Ours(c)
    BY DEF BudgetInv
  <2>5. next \notin Asking
    BY DEF Reserving, Asking, Marking
  <2> QED BY <1>1, <1>3, <2>2, <2>3, <2>4, <2>5, RecallOurs DEF Ours, Stay, place
<1> QED BY <1>2, <1>3 DEF Remaining

LEMMA ReserveBudgets ==
    ASSUME LeaseInv, ArchInv, BudgetInv, NEW c \in Coordinators, NEW here \in Reserving,
           NEW o \in Operations, NEW next, next \notin Reserving, next \notin Asking,
           InBatch(next, mem[c].phase) => InBatch(here, mem[c].phase),
           ReserveWithCap(c, here, o, next)
    PROVE  Budgets(c)
<1>1. UNCHANGED <<batches, archive, runs>> /\ pc[c] = here /\ pc[c] \notin Resting
  BY DEF ReserveWithCap, At, Leave, history, Reserving, Resting
<1>2. event[c] \in Events /\ Ours(c)
  BY <1>1, WhereIs
<1>3. Calm
  <2>1. CASE UNCHANGED ops
    BY <1>1, <2>1, SameCalm
  <2>2. CASE /\ ops[event[c]][o].reserved = None /\ Fits(event[c], o, mem[c].tokens)
             /\ ops' = [ops EXCEPT ![event[c]][o] = [reserved |-> mem[c].tokens, actual |-> None,
                                                     started |-> FALSE]]
    <3> DEFINE op == [reserved |-> mem[c].tokens, actual |-> None, started |-> FALSE]
    <3>1. op.reserved = mem[c].tokens /\ op.actual = None /\ op.started = FALSE
      OBVIOUS
    <3>2. mem[c].tokens \in Amounts /\ mem[c].tokens # None
      BY <1>1, <1>2 DEF Ours
    <3>3. OpSound(op) /\ Charge(op) = mem[c].tokens
      BY <3>1, <3>2 DEF OpSound, Charge, Amounts, None
    <3>4. ops' = [ops EXCEPT ![event[c]][o] = op]
      BY <2>2
    <3> HIDE DEF op
    <3>5. OpSound(ops[event[c]][o]) /\ LedgerSound
      BY <1>2 DEF BudgetInv, LedgerSound
    <3>6. ops[event[c]][o] = NoOperation
      BY <2>2, <3>5 DEF OpSound
    <3>7. Charge(ops[event[c]][o]) = 0 /\ ~ops[event[c]][o].started
      BY <3>6 DEF Charge, NoOperation, None
    <3>8. Tokens(event[c]) \in Nat
      BY <1>2, <3>5, TokensNat
    <3>9. Tokens(event[c]) + Charge(op) - Charge(ops[event[c]][o]) <= TokenCap
          /\ Trials(event[c]) + (IF o \in Genomes THEN 1 ELSE 0) <= TrialCap
      BY <2>2, <3>2, <3>3, <3>7, <3>8, EvolutionAssumption DEF Fits, Amounts
    <3>10. LedgerShape
      BY DEF LeaseInv, Tables
    <3>11. LedgerFollows
      BY <1>2, <2>2, <3>3, <3>4, <3>5, <3>7, <3>9, <3>10, LedgerChanges
    <3> QED BY <1>1, <3>11, LedgerCalm
  <2> QED BY <2>1, <2>2, Zenon DEF ReserveWithCap
<1>4. End(c, "BUDGET_EXHAUSTED") \/ (Goto(c, next) /\ UNCHANGED mem /\ Stay)
  BY Zenon DEF ReserveWithCap
<1> QED BY <1>1, <1>3, <1>4, EndOurs, WalkOurs DEF Stay, place

LEMMA ArchiveCalm ==
    ASSUME BudgetInv, UNCHANGED <<ops, batches, runs>>,
           \/ UNCHANGED archive
           \/ \E cells : Publish(cells)
           \/ \E cells, parentUse : Orphan(cells, parentUse)
    PROVE  Calm
<1>1. archive'.rev \in Nat
  BY DEF Publish, Orphan, BudgetInv, Stores
<1>2. LedgerFollows
  BY LedgerStays DEF BudgetInv
<1>3. Batches \subseteq Operations
  BY DEF Operations
<1>4. \A e \in Events : \A b \in Batches : Stored(e, b)'
  BY <1>2, <1>3 DEF BudgetInv, Stores, Stored, LedgerFollows
<1> QED BY <1>1, <1>2, <1>4 DEF Calm, BudgetInv, Stores

LEMMA BatchBudgets ==
    ASSUME LeaseInv, ArchInv, BudgetInv, NEW c \in Coordinators,
           \/ BatchOperation(c) \/ BatchStored(c) \/ BatchRemaining(c) \/ BatchReserve(c)
           \/ Parents(c) \/ Begin(c)
    PROVE  Budgets(c)
<1> USE DEF At
<1>1. UNCHANGED <<batches, archive, runs>>
  BY DEF BatchOperation, BatchStored, BatchRemaining, BatchReserve, Remaining, ReserveWithCap,
         Parents, Begin, Reads, files, Leave, history
<1>2. pc[c] \in {"batch", "batchStored", "batchRemaining", "batchReserve", "parents", "begin"}
  BY DEF BatchOperation, BatchStored, BatchRemaining, BatchReserve, Remaining, ReserveWithCap,
         Parents, Begin
<1>3. /\ \A p \in {"batchStored", "batchRemaining", "parents", "begin", "proposals"} :
            p \notin Reserving /\ p \notin Asking
      /\ pc[c] \notin Resting /\ InBatch(pc[c], mem[c].phase)
      /\ "mark" \notin Reserving
  BY <1>2 DEF Reserving, Asking, Marking, InBatch, BatchPlaces, Resting
<1>4. /\ event[c] \in Events /\ Ours(c) /\ batch[c] \in Batches /\ batch[c] \in Operations
      /\ OpSound(ops[event[c]][batch[c]])
  BY <1>3, WhereIs DEF BudgetInv, LedgerSound
<1>5. CASE BatchOperation(c)
  <2>1. UNCHANGED <<ops, event, batch>> /\ Calm /\ Goto(c, "batchStored")
    BY <1>1, <1>5, SameCalm DEF BatchOperation, Reads, files, Stay, place
  <2> DEFINE v == [mem[c] EXCEPT !.tokens = ops[event[c]][batch[c]].reserved]
  <2>2. /\ v.tokens = ops[event[c]][batch[c]].reserved /\ v.tries = mem[c].tries
        /\ v.cost = mem[c].cost /\ v.phase = mem[c].phase
    BY Fields
  <2>3. Recall(c, v)
    BY <1>5 DEF BatchOperation
  <2> HIDE DEF v
  <2> QED BY <1>3, <1>4, <2>1, <2>2, <2>3, RecallOurs DEF Ours, OpSound
<1>6. CASE BatchStored(c)
  <2>1. CASE End(c, "BLOCKED") /\ UNCHANGED ops
    BY <1>1, <2>1, SameCalm, EndOurs
  <2>2. CASE UNCHANGED <<ops, mem>> /\ Stay /\ (Goto(c, "batchRemaining") \/ Goto(c, "parents"))
    BY <1>1, <1>3, <2>2, SameCalm, WalkOurs DEF Stay, place
  <2>3. ASSUME LET stored == batches[event[c]][batch[c]] IN
               /\ CanSettle(event[c], batch[c], stored.cost)
               /\ Settle(event[c], batch[c], stored.cost)
               /\ Recall(c, [mem[c] EXCEPT !.todo = stored.genomes, !.tokens = None])
               /\ Goto(c, "proposals")
               /\ Stay
        PROVE  Budgets(c)
    <3>1. batches[event[c]][batch[c]].cost \in Nat
      BY <1>4 DEF BudgetInv, Stores, Stored
    <3>2. Calm
      BY <1>1, <1>4, <2>3, <3>1, SettleFollows, LedgerCalm
    <3> DEFINE v == [mem[c] EXCEPT !.todo = batches[event[c]][batch[c]].genomes, !.tokens = None]
    <3>3. v.tokens = None /\ v.tries = mem[c].tries /\ v.cost = mem[c].cost
      BY Fields
    <3>4. Recall(c, v)
      BY <2>3
    <3> HIDE DEF v
    <3> QED BY <1>3, <1>4, <2>3, <3>2, <3>3, <3>4, RecallOurs DEF Ours, Stay, place
  <2> QED BY <1>6, <2>1, <2>2, <2>3 DEF BatchStored
<1>7. CASE BatchRemaining(c)
  <2>1. "batchRemaining" \notin Resting /\ "batchReserve" \in Reserving
        /\ InBatch("batchRemaining", mem[c].phase)
    BY DEF Resting, Reserving, InBatch, BatchPlaces
  <2> QED BY <1>7, <2>1, RemainingBudgets DEF BatchRemaining
<1>8. CASE BatchReserve(c)
  <2>1. "batchReserve" \in Reserving /\ InBatch("batchReserve", mem[c].phase)
    BY DEF Reserving, InBatch, BatchPlaces
  <2> QED BY <1>3, <1>4, <1>8, <2>1, ReserveBudgets DEF BatchReserve
<1>9. CASE Parents(c)
  <2>1. UNCHANGED <<ops, event, batch>> /\ Calm /\ Goto(c, "begin")
    BY <1>1, <1>9, SameCalm DEF Parents, Reads, files, Stay, place
  <2>2. PICK parents \in SUBSET Filled : Recall(c, [mem[c] EXCEPT !.left = parents, !.tries = 0])
    BY <1>9 DEF Parents
  <2> DEFINE v == [mem[c] EXCEPT !.left = parents, !.tries = 0]
  <2>3. v.tokens = mem[c].tokens /\ v.tries = 0 /\ v.cost = mem[c].cost /\ Recall(c, v)
    BY <2>2, Fields
  <2> HIDE DEF v
  <2>4. 0 \in 0 .. Attempts - 1
    BY DEF Attempts
  <2> QED BY <1>3, <1>4, <2>1, <2>3, <2>4, RecallOurs DEF Ours
<1>10. CASE Begin(c)
  <2>1. CASE End(c, "BLOCKED") /\ UNCHANGED ops
    BY <1>1, <2>1, SameCalm, EndOurs
  <2>2. CASE /\ ops[event[c]][batch[c]].reserved # None
             /\ ops' = [ops EXCEPT ![event[c]][batch[c]] =
                           [reserved |-> ops[event[c]][batch[c]].reserved,
                            actual |-> ops[event[c]][batch[c]].actual, started |-> TRUE]]
             /\ Goto(c, "mark")
             /\ UNCHANGED mem /\ Stay
    <3> DEFINE old == ops[event[c]][batch[c]]
               op == [reserved |-> old.reserved, actual |-> old.actual, started |-> TRUE]
    <3>1. op.reserved = old.reserved /\ op.actual = old.actual /\ op.started = TRUE
      OBVIOUS
    <3>2. ops' = [ops EXCEPT ![event[c]][batch[c]] = op] /\ old.reserved # None
      BY <2>2
    <3>3. OpSound(old)
      BY <1>4
    <3> HIDE DEF op
    <3>4. OpSound(op) /\ Charge(op) = Charge(old)
      BY <3>1, <3>2, <3>3 DEF OpSound, Charge
    <3>5. Charge(op) <= Charge(old)
      BY <3>3, <3>4, ChargeIsNat
    <3>6. LedgerShape /\ LedgerSound
      BY DEF LeaseInv, Tables, BudgetInv
    <3>7. LedgerFollows
      BY <1>4, <3>1, <3>2, <3>4, <3>5, <3>6, LedgerChanges
    <3>8. ops'[event[c]][batch[c]].started
      BY <1>4, <3>1, <3>2, <3>6 DEF LedgerShape
    <3>9. Calm
      BY <1>1, <3>7, LedgerCalm
    <3> QED BY <1>3, <2>2, <3>8, <3>9, WalkOurs DEF Stay, place
  <2> QED BY <1>10, <2>1, <2>2, Zenon DEF Begin
<1> QED BY <1>5, <1>6, <1>7, <1>8, <1>9, <1>10

LEMMA MarkBudgets ==
    ASSUME LeaseInv, ArchInv, BudgetInv, NEW c \in Coordinators,
           MarkUsed(c) \/ MarkRevision(c) \/ MarkCommit(c)
    PROVE  Budgets(c)
<1> USE DEF At
<1>1. UNCHANGED <<ops, batches, runs>> /\ pc[c] \in Marking
  BY DEF MarkUsed, MarkRevision, MarkCommit, Reads, files, Leave, history, Marking
<1>2. /\ \A p \in {"mark", "markRevision", "markCommit", "proposing"} : p \notin Reserving
      /\ pc[c] \notin Resting /\ pc[c] \in Asking /\ InBatch(pc[c], mem[c].phase)
  BY <1>1 DEF Reserving, Asking, Marking, InBatch, BatchPlaces, Resting
<1>3. Ours(c) /\ 0 \in 0 .. Attempts - 1
  BY DEF BudgetInv, Attempts
<1>4. CASE MarkUsed(c)
  <2>1. UNCHANGED <<archive, event, batch>> /\ Calm
    BY <1>1, <1>4, SameCalm DEF MarkUsed, files, place
  <2>2. CASE Goto(c, "proposing") /\ UNCHANGED mem
    BY <1>2, <2>1, <2>2, WalkOurs
  <2>3. ASSUME NEW k \in mem[c].left,
               Recall(c, [mem[c] EXCEPT !.cell = k, !.entry = archive.cells[k]]),
               Goto(c, "markRevision")
        PROVE  Budgets(c)
    <3> DEFINE v == [mem[c] EXCEPT !.cell = k, !.entry = archive.cells[k]]
    <3>1. v.tokens = mem[c].tokens /\ v.tries = mem[c].tries /\ v.cost = mem[c].cost
      BY Fields
    <3>2. Recall(c, v)
      BY <2>3
    <3> HIDE DEF v
    <3> QED BY <1>2, <1>3, <2>1, <2>3, <3>1, <3>2, RecallOurs DEF Ours
  <2> QED BY <1>4, <2>2, <2>3 DEF MarkUsed
<1>5. CASE MarkRevision(c)
  <2>1. UNCHANGED <<archive, event, batch>> /\ Calm /\ Goto(c, "markCommit")
    BY <1>1, <1>5, SameCalm DEF MarkRevision, Reads, files, Stay, place
  <2> DEFINE v == [mem[c] EXCEPT !.rev = archive.rev]
  <2>2. v.tokens = mem[c].tokens /\ v.tries = mem[c].tries /\ v.cost = mem[c].cost
    BY Fields
  <2>3. Recall(c, v)
    BY <1>5 DEF MarkRevision
  <2> HIDE DEF v
  <2> QED BY <1>2, <1>3, <2>1, <2>2, <2>3, RecallOurs DEF Ours
<1>6. CASE MarkCommit(c)
  <2> DEFINE m == mem[c]
             done == [m EXCEPT !.left = @ \ {m.cell}, !.cell = "none", !.entry = NoEntry,
                               !.rev = 0, !.tries = 0]
             again == [m EXCEPT !.tries = @ + 1]
  <2>1. /\ done.tokens = m.tokens /\ done.tries = 0 /\ done.cost = m.cost
        /\ again.tokens = m.tokens /\ again.tries = m.tries + 1 /\ again.cost = m.cost
    BY Fields
  <2>2. \/ Die(c) /\ \E cells, parentUse : Orphan(cells, parentUse)
        \/ /\ Recall(c, done) \/ (m.tries + 1 # Attempts /\ Recall(c, again))
           /\ Goto(c, "mark") /\ Stay
           /\ UNCHANGED archive \/ \E cells : Publish(cells)
    BY <1>6 DEF MarkCommit
  <2>3. Calm
    BY <1>1, <2>2, ArchiveCalm
  <2> HIDE DEF done, again, m
  <2>4. m.tries + 1 # Attempts => m.tries + 1 \in 0 .. Attempts - 1
    BY <1>3 DEF Ours, Attempts, m
  <2>5. m.tokens \in Amounts \cup {None} /\ m.cost \in Nat
    BY <1>3 DEF Ours, m
  <2>6. CASE Recall(c, done) /\ Goto(c, "mark") /\ Stay
    BY <1>2, <1>3, <2>1, <2>3, <2>5, <2>6, RecallOurs DEF Stay, place
  <2>7. CASE m.tries + 1 # Attempts /\ Recall(c, again) /\ Goto(c, "mark") /\ Stay
    BY <1>2, <2>1, <2>3, <2>4, <2>5, <2>7, RecallOurs DEF Stay, place
  <2> QED BY <2>2, <2>3, <2>6, <2>7, DieOurs
<1> QED BY <1>4, <1>5, <1>6

LEMMA ProposalBudgets ==
    ASSUME LeaseInv, ArchInv, BudgetInv, NEW c \in Coordinators,
           Proposed(c) \/ SaveBatch(c) \/ SettleBatch(c) \/ Proposals(c) \/ Proposal(c)
    PROVE  Budgets(c)
<1> USE DEF At
<1>1. UNCHANGED <<archive, runs>>
  BY DEF Proposed, SaveBatch, SettleBatch, Proposals, Proposal, files, Leave, history
<1>2. pc[c] \in {"proposing", "save", "saved", "proposals", "proposal"}
  BY DEF Proposed, SaveBatch, SettleBatch, Proposals, Proposal
<1>3. /\ \A p \in {"proposals", "proposal", "round", "trial"} : p \notin Reserving /\ p \notin Asking
      /\ \A p \in {"save", "saved"} : p \notin Reserving
      /\ pc[c] \notin Resting /\ InBatch(pc[c], mem[c].phase)
      /\ pc[c] \in {"proposing", "save", "saved"} => pc[c] \in Asking
  BY <1>2 DEF Reserving, Asking, Marking, InBatch, BatchPlaces, Resting
<1>4. event[c] \in Events /\ Ours(c) /\ batch[c] \in Batches /\ batch[c] \in Operations
  BY <1>3, WhereIs
<1>5. CASE Proposed(c)
  <2>1. UNCHANGED <<ops, batches>> /\ Calm /\ pc[c] = "proposing"
    BY <1>1, <1>5, SameCalm DEF Proposed, files
  <2>2. CASE \E outcome : End(c, outcome)
    BY <2>1, <2>2, EndOurs
  <2>3. ASSUME NEW cost \in Costs, NEW genomes,
               Recall(c, [mem[c] EXCEPT !.todo = genomes, !.cost = cost]),
               Goto(c, "save"), Stay
        PROVE  Budgets(c)
    <3> DEFINE v == [mem[c] EXCEPT !.todo = genomes, !.cost = cost]
    <3>1. v.tokens = mem[c].tokens /\ v.tries = mem[c].tries /\ v.cost = cost
      BY Fields
    <3>2. Recall(c, v)
      BY <2>3
    <3>3. cost \in Nat
      BY EvolutionAssumption
    <3> HIDE DEF v
    <3> QED BY <1>3, <1>4, <2>1, <2>3, <3>1, <3>2, <3>3, RecallOurs DEF Ours, Stay, place
  <2> QED BY <1>5, <2>2, <2>3, Zenon DEF Proposed
<1>6. CASE SaveBatch(c)
  <2> DEFINE stored == [stored |-> TRUE, genomes |-> mem[c].todo, cost |-> mem[c].cost]
  <2>1. /\ pc[c] = "save" /\ UNCHANGED <<ops, mem, event, batch>> /\ Goto(c, "saved")
        /\ batches' = [batches EXCEPT ![event[c]][batch[c]] = stored]
    BY <1>6 DEF SaveBatch, Stay, place
  <2>2. stored.cost \in Nat
    BY <1>4 DEF Ours
  <2> HIDE DEF stored
  <2>3. ops[event[c]][batch[c]].started
    BY <1>3, <1>4, <2>1 DEF Ours
  <2>4. LedgerFollows
    BY <2>1, LedgerStays DEF BudgetInv
  <2>5. DOMAIN batches = Events /\ \A e \in Events : DOMAIN batches[e] = Batches
    BY DEF BudgetInv, Stores
  <2>6. DOMAIN batches' = Events /\ \A e \in Events : DOMAIN batches'[e] = Batches
    BY <2>1, <2>5
  <2>7. ASSUME NEW e \in Events, NEW b \in Batches
        PROVE  Stored(e, b)'
    <3>1. CASE e = event[c] /\ b = batch[c]
      <4>1. batches'[e][b] = stored
        BY <2>1, <2>5, <3>1
      <4> QED BY <2>1, <2>2, <2>3, <3>1, <4>1 DEF Stored
    <3>2. CASE e # event[c] \/ b # batch[c]
      <4>1. batches'[e][b] = batches[e][b]
        BY <2>1, <2>5, <3>2
      <4> QED BY <2>1, <4>1 DEF BudgetInv, Stores, Stored
    <3> QED BY <3>1, <3>2
  <2>8. Calm
    BY <1>1, <2>4, <2>6, <2>7 DEF Calm, BudgetInv, Stores
  <2> QED BY <1>3, <2>1, <2>8, WalkOurs
<1>7. CASE SettleBatch(c)
  <2>1. UNCHANGED batches
    BY <1>7 DEF SettleBatch
  <2>2. CASE End(c, "BLOCKED") /\ UNCHANGED ops
    BY <1>1, <2>1, <2>2, SameCalm, EndOurs
  <2>3. CASE /\ CanSettle(event[c], batch[c], mem[c].cost)
             /\ Settle(event[c], batch[c], mem[c].cost)
             /\ Recall(c, [mem[c] EXCEPT !.tokens = None, !.cost = 0])
             /\ Goto(c, "proposals")
             /\ Stay
    <3>1. mem[c].cost \in Nat
      BY <1>4 DEF Ours
    <3>2. Calm
      BY <1>1, <1>4, <2>1, <2>3, <3>1, SettleFollows, LedgerCalm
    <3> DEFINE v == [mem[c] EXCEPT !.tokens = None, !.cost = 0]
    <3>3. v.tokens = None /\ v.tries = mem[c].tries /\ v.cost = 0
      BY Fields
    <3>4. Recall(c, v)
      BY <2>3
    <3> HIDE DEF v
    <3> QED BY <1>3, <1>4, <2>3, <3>2, <3>3, <3>4, RecallOurs DEF Ours, Stay, place
  <2> QED BY <1>7, <2>2, <2>3 DEF SettleBatch
<1>8. CASE Proposals(c)
  <2>1. UNCHANGED <<ops, batches>> /\ Calm
    BY <1>1, <1>8, SameCalm DEF Proposals, files
  <2>2. CASE \E outcome : End(c, outcome)
    BY <2>1, <2>2, EndOurs
  <2>3. CASE Recall(c, [mem[c] EXCEPT !.improved = FALSE]) /\ Goto(c, "proposal") /\ Stay
    <3> DEFINE v == [mem[c] EXCEPT !.improved = FALSE]
    <3>1. v.tokens = mem[c].tokens /\ v.tries = mem[c].tries /\ v.cost = mem[c].cost
      BY Fields
    <3>2. Recall(c, v)
      BY <2>3
    <3> HIDE DEF v
    <3> QED BY <1>3, <1>4, <2>1, <2>3, <3>1, <3>2, RecallOurs DEF Ours, Stay, place
  <2> QED BY <1>8, <2>2, <2>3 DEF Proposals
<1>9. CASE Proposal(c)
  <2>1. UNCHANGED <<ops, batches>> /\ Calm /\ pc[c] = "proposal"
    BY <1>1, <1>9, SameCalm DEF Proposal, files
  <2>2. CASE /\ Recall(c, [mem[c] EXCEPT !.stalled = IF mem[c].improved THEN 0 ELSE @ + 1])
             /\ batch' = [batch EXCEPT ![c] = @ + 1]
             /\ Goto(c, "round")
    <3> DEFINE v == [mem[c] EXCEPT !.stalled = IF mem[c].improved THEN 0 ELSE @ + 1]
    <3>1. v.tokens = mem[c].tokens /\ v.tries = mem[c].tries /\ v.cost = mem[c].cost
      BY Fields
    <3>2. Recall(c, v)
      BY <2>2
    <3> HIDE DEF v
    <3>3. mem'[c] = v /\ pc'[c] = "round"
      BY <2>2, <3>2, RecallIs, GotoIs
    <3>4. batch'[c] = batch[c] + 1 /\ OthersBatch(c)
      BY <2>2 DEF LeaseInv, Locals, OthersBatch
    <3>5. batch[c] + 1 \in 0 .. MaxBatches
      BY <1>4, EvolutionAssumption DEF Batches
    <3>6. ~InBatch("round", v.phase)
      BY DEF InBatch, BatchPlaces, TrialPlaces, Considering
    <3>7. Ours(c)'
      BY <1>3, <1>4, <3>1, <3>3, <3>4, <3>5, <3>6 DEF Ours
    <3> QED BY <2>1, <3>4, <3>7 DEF Budgets
  <2>3. CASE End(c, "CANCELLED")
    BY <2>1, <2>3, EndOurs
  <2>4. CASE /\ Recall(c, [mem[c] EXCEPT !.todo = Tail(@), !.seen = @ \cup {Head(mem[c].todo)}])
             /\ UNCHANGED pc \/ Goto(c, "trial")
             /\ UNCHANGED <<event, batch>>
    <3> DEFINE v == [mem[c] EXCEPT !.todo = Tail(@), !.seen = @ \cup {Head(mem[c].todo)}]
    <3>1. /\ v.tokens = mem[c].tokens /\ v.tries = mem[c].tries /\ v.cost = mem[c].cost
      BY Fields
    <3>2. Recall(c, v)
      BY <2>4
    <3> HIDE DEF v
    <3>3. CASE Goto(c, "trial")
      BY <1>3, <1>4, <2>1, <2>4, <3>1, <3>2, <3>3, RecallOurs DEF Ours
    <3>4. CASE UNCHANGED pc
      <4>1. mem'[c] = v
        BY <3>2, RecallIs
      <4>2. Ours(c)'
        BY <1>3, <1>4, <2>1, <2>4, <3>1, <3>4, <4>1 DEF Ours
      <4> QED BY <2>1, <2>4, <4>2 DEF Budgets, OthersBatch
    <3> QED BY <2>4, <3>3, <3>4
  <2> QED BY <1>9, <2>2, <2>3, <2>4, Zenon DEF Proposal
<1> QED BY <1>5, <1>6, <1>7, <1>8, <1>9

LEMMA TrialBudgets ==
    ASSUME LeaseInv, ArchInv, BudgetInv, NEW c \in Coordinators,
           \/ TrialOperation(c) \/ TrialRemaining(c) \/ TrialReserve(c) \/ ReserveTrial(c)
           \/ TrialLease(c) \/ LeasedStart(c)
           \/ LeasedInterrupted(c) \/ LeasedFailed(c) \/ Execute(c) \/ Validate(c)
           \/ SettleTrial(c)
    PROVE  Budgets(c)
<1> USE DEF At
<1>1. UNCHANGED <<batches, archive, runs>>
  BY DEF TrialOperation, TrialRemaining, TrialReserve, Remaining, ReserveWithCap, ReserveTrial,
         TrialLease, LeasedStart, LeasedInterrupted, LeasedFailed, Execute, Validate, SettleTrial,
         Reads, files, Leave, history
<1>2. pc[c] \in {"trial", "trialRemaining", "trialReserve", "trialRecord", "trialLease", "leased",
                 "executing", "validate", "settle"}
  BY DEF TrialOperation, TrialRemaining, TrialReserve, Remaining, ReserveWithCap, ReserveTrial,
         TrialLease, LeasedStart, LeasedInterrupted, LeasedFailed, Execute, Validate, SettleTrial
<1>3. /\ \A p \in {"trialRemaining", "trialRecord", "trialLease", "leased", "executing", "validate",
                   "settle", "consider"} :
            /\ p \notin Reserving /\ p \notin Asking
            /\ InBatch(p, mem[c].phase) => InBatch(pc[c], mem[c].phase)
      /\ pc[c] \notin Resting /\ pc[c] \in TrialPlaces
  BY <1>2 DEF Reserving, Asking, Marking, InBatch, BatchPlaces, TrialPlaces, Considering, Resting
<1>4. event[c] \in Events /\ genome[c] \in Genomes /\ Ours(c) /\ genome[c] \in Operations
  BY <1>3, WhereIs
<1>5. Trial(c).cost \in Nat /\ 0 \in 0 .. Attempts - 1
  BY <1>4, CostIsNat DEF Trial, Attempts
<1>6. ASSUME NEW used \in Nat, CanSettle(event[c], genome[c], used), Settle(event[c], genome[c], used)
      PROVE  Calm
  BY <1>1, <1>4, <1>6, SettleFollows, LedgerCalm
<1>7. CASE TrialOperation(c)
  <2>1. UNCHANGED <<ops, event, batch>> /\ Calm
    BY <1>1, <1>7, SameCalm DEF TrialOperation, Reads, files, Stay, place
  <2> DEFINE v == [mem[c] EXCEPT !.tokens = ops[event[c]][genome[c]].reserved, !.accepted = FALSE]
  <2>2. /\ v.tokens = ops[event[c]][genome[c]].reserved /\ v.tries = mem[c].tries
        /\ v.cost = mem[c].cost /\ v.phase = mem[c].phase
    BY Fields
  <2>3. Recall(c, v) /\ (Goto(c, "trialRemaining") \/ Goto(c, "trialRecord"))
    BY <1>7 DEF TrialOperation
  <2> HIDE DEF v
  <2>4. OpSound(ops[event[c]][genome[c]])
    BY <1>4 DEF BudgetInv, LedgerSound
  <2> QED BY <1>3, <1>4, <2>1, <2>2, <2>3, <2>4, RecallOurs DEF Ours, OpSound
<1>8. CASE TrialRemaining(c)
  <2>1. "trialRemaining" \notin Resting /\ "trialReserve" \in Reserving
        /\ (InBatch("trialReserve", mem[c].phase) => InBatch("trialRemaining", mem[c].phase))
    BY DEF Resting, Reserving, InBatch, BatchPlaces, TrialPlaces, Considering
  <2> QED BY <1>8, <2>1, RemainingBudgets DEF TrialRemaining
<1>9. CASE TrialReserve(c)
  <2>1. "trialReserve" \in Reserving
        /\ (InBatch("trialRecord", mem[c].phase) => InBatch("trialReserve", mem[c].phase))
    BY DEF Reserving, InBatch, BatchPlaces, TrialPlaces, Considering
  <2> QED BY <1>3, <1>4, <1>9, <2>1, ReserveBudgets DEF TrialReserve
<1>10. CASE ReserveTrial(c)
  <2>1. Calm
    BY <1>1, <1>10, SameCalm DEF ReserveTrial
  <2>2. CASE End(c, "BLOCKED")
    BY <2>1, <2>2, EndOurs
  <2>3. ASSUME NEW status, Recall(c, [mem[c] EXCEPT !.status = status]), Goto(c, "trialLease"), Stay
        PROVE  Budgets(c)
    <3> DEFINE v == [mem[c] EXCEPT !.status = status]
    <3>1. /\ v.tokens = mem[c].tokens /\ v.tries = mem[c].tries /\ v.cost = mem[c].cost
          /\ v.phase = mem[c].phase
      BY Fields
    <3>2. Recall(c, v)
      BY <2>3
    <3> HIDE DEF v
    <3> QED BY <1>3, <1>4, <2>1, <2>3, <3>1, <3>2, RecallOurs DEF Ours, Stay, place
  <2> QED BY <1>10, <2>2, <2>3 DEF ReserveTrial
<1>11. CASE TrialLease(c)
  <2>1. Calm
    BY <1>1, <1>11, SameCalm DEF TrialLease, files
  <2> QED BY <1>3, <1>11, <2>1, EndOurs, WalkOurs DEF TrialLease
<1>12. CASE LeasedStart(c)
  <2>1. Calm
    BY <1>1, <1>12, SameCalm DEF LeasedStart
  <2> QED BY <1>3, <1>12, <2>1, EndOurs, WalkOurs DEF LeasedStart, Stay, place
<1>13. CASE LeasedInterrupted(c)
  <2>1. Calm
    BY <1>1, <1>13, SameCalm DEF LeasedInterrupted
  <2> QED BY <1>13, <2>1, EndOurs DEF LeasedInterrupted
<1>14. CASE LeasedFailed(c)
  <2>1. CASE End(c, "BLOCKED") /\ UNCHANGED ops
    BY <1>1, <2>1, SameCalm, EndOurs
  <2>2. CASE /\ CanSettle(event[c], genome[c], 0) /\ Settle(event[c], genome[c], 0)
             /\ Finish(c, FALSE)
    <3>1. 0 \in Nat
      OBVIOUS
    <3>2. Calm
      BY <1>6, <2>2, <3>1
    <3> QED BY <1>3, <2>2, <3>2, FinishOurs
  <2> QED BY <1>14, <2>1, <2>2 DEF LeasedFailed
<1>15. CASE Execute(c)
  <2>1. Calm
    BY <1>1, <1>15, SameCalm DEF Execute
  <2>2. \E t : Outcome(c, t)
    BY <1>15 DEF Execute
  <2>3. (\E outcome : End(c, outcome))
        \/ (UNCHANGED mem /\ Stay /\ (Goto(c, "validate") \/ Goto(c, "settle")))
    BY <2>2 DEF Outcome
  <2> QED BY <1>3, <2>1, <2>3, EndOurs, WalkOurs DEF Stay, place
<1>16. CASE Validate(c)
  <2>1. Calm
    BY <1>1, <1>16, SameCalm DEF Validate
  <2> QED BY <1>3, <1>16, <2>1, EndOurs, WalkOurs DEF Validate, Stay, place
<1>17. CASE SettleTrial(c)
  <2>1. CASE End(c, "BLOCKED") /\ UNCHANGED ops
    BY <1>1, <2>1, SameCalm, EndOurs
  <2>2. CASE CanSettle(event[c], genome[c], Trial(c).cost) /\ Settle(event[c], genome[c], Trial(c).cost)
    <3>1. Calm
      BY <1>5, <1>6, <2>2
    <3>2. CASE Finish(c, FALSE)
      BY <1>3, <3>1, <3>2, FinishOurs
    <3>3. CASE Recall(c, [mem[c] EXCEPT !.tries = 0]) /\ Goto(c, "consider") /\ Stay
      <4> DEFINE v == [mem[c] EXCEPT !.tries = 0]
      <4>1. /\ v.tokens = mem[c].tokens /\ v.tries = 0 /\ v.cost = mem[c].cost
            /\ v.phase = mem[c].phase
        BY Fields
      <4>2. Recall(c, v)
        BY <3>3
      <4> HIDE DEF v
      <4> QED BY <1>3, <1>4, <1>5, <3>1, <3>3, <4>1, <4>2, RecallOurs DEF Ours, Stay, place
    <3> QED BY <1>17, <2>2, <3>2, <3>3 DEF SettleTrial
  <2> QED BY <1>17, <2>1, <2>2 DEF SettleTrial
<1> QED BY <1>7, <1>8, <1>9, <1>10, <1>11, <1>12, <1>13, <1>14, <1>15, <1>16, <1>17

LEMMA ConsiderBudgets ==
    ASSUME LeaseInv, ArchInv, BudgetInv, NEW c \in Coordinators,
           \/ Consider(c) \/ ConsiderRevision(c) \/ ConsiderCommit(c) \/ Tried(c)
           \/ Crash(c)
    PROVE  Budgets(c)
<1> USE DEF At
<1>1. UNCHANGED <<ops, batches, runs>>
  BY DEF Consider, ConsiderRevision, ConsiderCommit, Tried, Crash, files, Leave, history, Reads
<1>2. CASE Crash(c)
  BY <1>1, <1>2, SameCalm, DieOurs DEF Crash, files
<1> SUFFICES ASSUME ~Crash(c)
             PROVE  Budgets(c)
  BY <1>2
<1>3. pc[c] \in Considering \cup {"tried"}
  BY DEF Consider, ConsiderRevision, ConsiderCommit, Tried, Considering
<1>4. /\ \A p \in {"consider", "considerRevision", "considerCommit"} :
            /\ p \notin Reserving /\ p \notin Asking
            /\ pc[c] \in Considering /\ InBatch(p, mem[c].phase) => InBatch(pc[c], mem[c].phase)
      /\ \A p \in {"seen", "proposal"} : p \notin Reserving /\ p \notin Asking
      /\ \A phase : ~InBatch("seen", phase)
      /\ pc[c] \notin Resting
      /\ pc[c] = "tried" /\ mem[c].phase # "baseline" => InBatch(pc[c], mem[c].phase)
  BY <1>3 DEF Reserving, Asking, Marking, InBatch, BatchPlaces, TrialPlaces, Considering, Resting
<1>5. Ours(c) /\ Attempts \in Nat
  BY DEF BudgetInv, Attempts
<1>6. CASE Consider(c)
  <2>1. Calm /\ pc[c] \in Considering
    BY <1>1, <1>6, SameCalm DEF Consider, files, Considering
  <2>2. CASE \E accepted : Considered(c, accepted)
    BY <2>1, <2>2, ConsideredOurs
  <2>3. ASSUME NEW k, NEW old, Recall(c, [mem[c] EXCEPT !.cell = k, !.entry = old]),
               Goto(c, "considerRevision"), Stay
        PROVE  Budgets(c)
    <3> DEFINE v == [mem[c] EXCEPT !.cell = k, !.entry = old]
    <3>1. /\ v.tokens = mem[c].tokens /\ v.tries = mem[c].tries /\ v.cost = mem[c].cost
          /\ v.phase = mem[c].phase
      BY Fields
    <3>2. Recall(c, v)
      BY <2>3
    <3> HIDE DEF v
    <3> QED BY <1>4, <1>5, <2>1, <2>3, <3>1, <3>2, RecallOurs DEF Ours, Stay, place
  <2> QED BY <1>6, <2>2, <2>3 DEF Consider
<1>7. CASE ConsiderRevision(c)
  <2>1. Calm /\ pc[c] \in Considering /\ Goto(c, "considerCommit") /\ UNCHANGED <<event, batch>>
    BY <1>1, <1>7, SameCalm DEF ConsiderRevision, Reads, files, Considering, Stay, place
  <2> DEFINE v == [mem[c] EXCEPT !.rev = archive.rev]
  <2>2. /\ v.tokens = mem[c].tokens /\ v.tries = mem[c].tries /\ v.cost = mem[c].cost
        /\ v.phase = mem[c].phase
    BY Fields
  <2>3. Recall(c, v)
    BY <1>7 DEF ConsiderRevision
  <2> HIDE DEF v
  <2> QED BY <1>4, <1>5, <2>1, <2>2, <2>3, RecallOurs DEF Ours
<1>8. CASE ConsiderCommit(c)
  <2> DEFINE again == [mem[c] EXCEPT !.tries = @ + 1]
  <2>1. /\ again.tokens = mem[c].tokens /\ again.tries = mem[c].tries + 1
        /\ again.cost = mem[c].cost /\ again.phase = mem[c].phase
    BY Fields
  <2>2. pc[c] \in Considering
    BY <1>8 DEF ConsiderCommit, Considering
  <2>3. \/ (\E cells : Publish(cells)) /\ Considered(c, TRUE)
        \/ (\E cells, parentUse : Orphan(cells, parentUse)) /\ Die(c)
        \/ /\ UNCHANGED archive
           /\ \/ mem[c].tries + 1 < Attempts /\ Recall(c, again) /\ Goto(c, "consider") /\ Stay
              \/ \E outcome : End(c, outcome)
              \/ mem[c].phase # "recover" /\ Finish(c, FALSE)
    BY <1>8 DEF ConsiderCommit
  <2> HIDE DEF again
  <2>4. Calm
    BY <1>1, <2>3, ArchiveCalm
  <2>5. CASE mem[c].tries + 1 < Attempts /\ Recall(c, again) /\ Goto(c, "consider") /\ Stay
    <3>1. again.tries \in 0 .. Attempts - 1
      BY <1>5, <2>1, <2>5 DEF Ours
    <3> QED BY <1>4, <1>5, <2>1, <2>2, <2>4, <2>5, <3>1, RecallOurs DEF Ours, Stay, place
  <2> QED BY <2>2, <2>3, <2>4, <2>5, ConsideredOurs, DieOurs, EndOurs, FinishOurs
<1>9. CASE Tried(c)
  <2>1. Calm /\ pc[c] = "tried"
    BY <1>1, <1>9, SameCalm DEF Tried, files
  <2>2. CASE \E outcome : End(c, outcome)
    BY <2>1, <2>2, EndOurs
  <2>3. CASE Goto(c, "seen") /\ UNCHANGED mem /\ Stay
    BY <1>4, <2>1, <2>3, WalkOurs DEF Stay, place
  <2>4. CASE /\ mem[c].phase # "baseline"
             /\ Goto(c, "proposal")
             /\ Recall(c, [mem[c] EXCEPT !.improved = @ \/ mem[c].accepted])
             /\ Stay
    <3> DEFINE v == [mem[c] EXCEPT !.improved = @ \/ mem[c].accepted]
    <3>1. v.tokens = mem[c].tokens /\ v.tries = mem[c].tries /\ v.cost = mem[c].cost
      BY Fields
    <3>2. Recall(c, v)
      BY <2>4
    <3> HIDE DEF v
    <3> QED BY <1>4, <1>5, <2>1, <2>4, <3>1, <3>2, RecallOurs DEF Ours, Stay, place
  <2> QED BY <1>9, <2>2, <2>3, <2>4 DEF Tried
<1> QED BY <1>6, <1>7, <1>8, <1>9

LEMMA RunEventBudgets ==
    ASSUME LeaseInv, ArchInv, BudgetInv, NEW c \in Coordinators, NEW e \in Events, RunEvent(c, e)
    PROVE  BudgetInv'
<1>1. UNCHANGED <<ops, trials, batches, archive>> /\ runs < MaxRuns /\ runs' = runs + 1
      /\ pc[c] \in Resting
  BY DEF RunEvent, files, Resting
<1>2. LedgerFollows
  BY <1>1, LedgerStays DEF BudgetInv
<1>3. Calm
  <2>1. runs' \in 0 .. MaxRuns
    BY <1>1, EvolutionAssumption DEF BudgetInv, Stores
  <2> QED BY <1>1, <1>2, <2>1 DEF Calm, BudgetInv, Stores, Stored
<1>4. Steady(c)
  BY RunEventQuiet DEF Quiet, Settled
<1>5. CASE End(c, "CANCELLED")
  BY <1>3, <1>4, <1>5, EndOurs, BudgetFollows
<1>6. CASE Goto(c, "recoverArchive") /\ Recall(c, Fresh0) /\ UNCHANGED batch
  <2>1. pc'[c] = "recoverArchive" /\ mem'[c] = Fresh0 /\ batch'[c] = batch[c]
    BY <1>6, RecallIs, GotoIs
  <2>2. Fresh0.tokens = None /\ Fresh0.tries = 0 /\ Fresh0.cost = 0
    BY DEF Fresh0
  <2>3. "recoverArchive" \notin Reserving /\ "recoverArchive" \notin Asking
        /\ \A phase : ~InBatch("recoverArchive", phase)
    BY DEF Reserving, Asking, Marking, InBatch, BatchPlaces, TrialPlaces, Considering
  <2>4. 0 \in 0 .. Attempts - 1 /\ 0 \in Nat /\ batch[c] \in 0 .. MaxBatches
    BY DEF Attempts, BudgetInv, Ours
  <2>5. Ours(c)'
    BY <2>1, <2>2, <2>3, <2>4 DEF Ours
  <2>6. OthersBatch(c)
    BY <1>6 DEF OthersBatch
  <2> QED BY <1>3, <1>4, <2>5, <2>6, BudgetFollows DEF Budgets
<1> QED BY <1>5, <1>6 DEF RunEvent

LEMMA PlaceSteady ==
    ASSUME LeaseInv, ArchInv, NEW c \in Coordinators, NEW p, Goto(c, p), NEW v, Recall(c, v),
           Gone(c) \/ UNCHANGED <<event, genome>>
    PROVE  Steady(c)
BY RecallIs, GotoIs DEF Steady, Gone, LeaseInv, Locals

LEMMA CommitSteady ==
    ASSUME LeaseInv, ArchInv, NEW c \in Coordinators, MarkCommit(c) \/ ConsiderCommit(c)
    PROVE  Steady(c)
<1>1. CASE Die(c) \/ \E outcome : End(c, outcome)
  BY <1>1, PlaceSteady DEF Die, End
<1>2. CASE \E accepted : Considered(c, accepted) \/ Finish(c, accepted)
  BY <1>2, PlaceSteady DEF Considered, Finish, Stay, place
<1>3. CASE (\E v : Recall(c, v)) /\ (\E p : Goto(c, p)) /\ Stay
  BY <1>3, PlaceSteady DEF Stay, place
<1>4. CASE MarkCommit(c)
  BY <1>1, <1>3, <1>4 DEF MarkCommit
<1>5. CASE ConsiderCommit(c)
  BY <1>1, <1>2, <1>3, <1>5 DEF ConsiderCommit
<1> QED BY <1>4, <1>5

LEMMA BudgetInit == Init => BudgetInv
<1> SUFFICES ASSUME Init
             PROVE  BudgetInv
  OBVIOUS
<1>1. OpSound(NoOperation) /\ Charge(NoOperation) = 0
  BY DEF OpSound, NoOperation, None, Charge
<1>2. \A e \in Events : \A o \in Operations : ops[e][o] = NoOperation
  BY DEF Init
<1>3. ASSUME NEW e \in Events
      PROVE  Capped(e)
  <2>1. Tokens(e) = 0
    <3>1. \A o \in Operations : Charges(e)[o] = 0
      BY <1>1, <1>2 DEF Charges
    <3>2. Fold(Charges(e), Operations)[Operations] = 0
      BY <3>1, OperationsFinite, FoldOfZeros
    <3> QED BY <3>2, TokensIsFold
  <2>2. Trials(e) = 0
    <3>1. {g \in Genomes : ops[e][g].reserved # None} = {}
      BY <1>2 DEF NoOperation, Operations
    <3> QED BY <3>1, FS_EmptySet DEF Trials
  <2> QED BY <2>1, <2>2, EvolutionAssumption DEF Capped
<1>4. LedgerSound
  BY <1>1, <1>2, <1>3 DEF LedgerSound
<1>5. Stores
  BY EvolutionAssumption DEF Init, Stores, Stored, NoBatch
<1>6. ASSUME NEW c \in Coordinators
      PROVE  Ours(c)
  <2>1. pc[c] = "idle" /\ mem[c] = Fresh0 /\ batch[c] = 0
    BY <1>6 DEF Init
  <2>2. Fresh0.tokens = None /\ Fresh0.tries = 0 /\ Fresh0.cost = 0
    BY DEF Fresh0
  <2>3. "idle" \notin Reserving /\ "idle" \notin Asking /\ \A phase : ~InBatch("idle", phase)
    BY DEF Reserving, Asking, Marking, InBatch, BatchPlaces, TrialPlaces, Considering
  <2>4. 0 \in 0 .. Attempts - 1 /\ 0 \in Nat /\ 0 \in 0 .. MaxBatches
    BY EvolutionAssumption DEF Attempts
  <2> QED BY <2>1, <2>2, <2>3, <2>4 DEF Ours
<1> QED BY <1>4, <1>5, <1>6 DEF BudgetInv

LEMMA BudgetNext == LeaseInv /\ ArchInv /\ BudgetInv /\ [Next]_vars => BudgetInv'
<1> SUFFICES ASSUME LeaseInv, ArchInv, BudgetInv, [Next]_vars
             PROVE  BudgetInv'
  OBVIOUS
<1>1. CASE UNCHANGED vars
  <2>1. UNCHANGED <<ops, batches, archive, runs, pc, event, batch, mem>>
    BY <1>1 DEF vars
  <2>2. Calm
    BY <2>1, SameCalm
  <2>3. \A c \in Coordinators : Ours(c)'
    BY <2>1 DEF BudgetInv, Ours
  <2> QED BY <2>2, <2>3 DEF Calm, LedgerFollows, BudgetInv
<1>2. ASSUME NEW c \in Coordinators, Step(c) \/ Crash(c)
      PROVE  BudgetInv'
  <2>1. Budgets(c)
    BY <1>2, RecoveryBudgets, BatchBudgets, MarkBudgets, ProposalBudgets, TrialBudgets,
       ConsiderBudgets DEF Step
  <2>2. Steady(c)
    BY <1>2, RecoveryQuiet, BatchQuiet, ChoiceQuiet, TrialQuiet, ConsiderQuiet,
       CommitSteady DEF Step, Quiet, Settled
  <2> QED BY <2>1, <2>2, BudgetFollows
<1>3. ASSUME NEW c \in Coordinators, NEW e \in Events, RunEvent(c, e)
      PROVE  BudgetInv'
  BY <1>3, RunEventBudgets
<1> QED BY <1>1, <1>2, <1>3 DEF Next

(* The budget is kept, with the types of everything: the reservation is compared  *)
(* with the cap again under the lock, a settlement only lowers a charge, and    *)
(* every operation is reserved before it runs, so what an event uses and has     *)
(* reserved never exceeds its caps (coordinator.py 332-341, budget.py 60-119). *)
THEOREM BudgetKept == Spec => []CapKept
<1>1. LeaseInv /\ ArchInv /\ BudgetInv => CapKept
  <2> SUFFICES ASSUME LeaseInv, ArchInv, BudgetInv
               PROVE  CapKept
    OBVIOUS
  <2>1. \A e \in Events : \A o \in Operations : OpSound(ops[e][o])
    BY DEF BudgetInv, LedgerSound
  <2>2. ASSUME NEW e \in Events, NEW g \in Genomes
        PROVE  /\ trials[e][g].status \in Statuses
               /\ trials[e][g].cost \in Costs \cup {0}
               /\ trials[e][g].quality \in Qualities \cup {0}
               /\ (trials[e][g].cell = "none")
                     <=> (trials[e][g].status \notin {"COLLECTED", "VALIDATED"})
               /\ lease[e][g] \in Coordinators \cup {Nobody}
    <3>1. Told(trials[e][g])
      BY DEF ArchInv
    <3>2. lease[e][g] \in Coordinators \cup {Nobody}
      BY DEF LeaseInv, Tables
    <3> QED BY <3>1, <3>2, EvolutionAssumption DEF Told, TrialSet
  <2>3. \A e \in Events : \A b \in Batches : batches[e][b].stored => ops[e][b].started
    BY DEF BudgetInv, Stores, Stored
  <2>4. archive.rev \in Nat /\ archive.cells \in [Cells -> Entry] /\ runs \in 0 .. MaxRuns
    BY DEF BudgetInv, Stores, ArchInv
  <2>5. ASSUME NEW c \in Coordinators
        PROVE  /\ event[c] \in Events \cup {Nobody} /\ genome[c] \in Genomes
               /\ batch[c] \in 0 .. MaxBatches
               /\ mem[c].tokens \in Amounts \cup {None}
               /\ mem[c].tries < Attempts
    <3>1. event[c] \in Events \cup {Nobody} /\ genome[c] \in Genomes
      BY DEF LeaseInv, Locals
    <3>2. Ours(c)
      BY DEF BudgetInv
    <3> QED BY <3>1, <3>2 DEF Ours, Attempts
  <2>6. TypeOK
    BY <2>1, <2>2, <2>3, <2>4, <2>5 DEF TypeOK, OpSound
  <2>7. \A e \in Events : Tokens(e) <= TokenCap /\ Trials(e) <= TrialCap
    BY DEF BudgetInv, LedgerSound, Capped
  <2> QED BY <2>6, <2>7 DEF CapKept
<1>2. Init => LeaseInv /\ ArchInv /\ BudgetInv
  BY LeaseInit, ArchInit, BudgetInit
<1>3. LeaseInv /\ ArchInv /\ BudgetInv /\ [Next]_vars => (LeaseInv /\ ArchInv /\ BudgetInv)'
  BY LeaseNext, ArchNext, BudgetNext
<1> QED BY <1>1, <1>2, <1>3, PTL DEF Spec
=============================================================================
