----------------------------- MODULE AgentProofs ------------------------------
(***************************************************************************)
(* Theorems about AgentTranscript for every number of turns, calls,        *)
(* compactions, deaths and revisions: a history in which no call waits is  *)
(* a sequence of whole transactions, a compaction moves the cursor to the  *)
(* start of one, and the provider is sent whole ones only.                 *)
(***************************************************************************)
EXTENDS AgentTranscript, SequenceTheorems, FiniteSetTheorems, TLAPS

-----------------------------------------------------------------------------
(* Sets of numbers, listed in order.                                        *)

\* How many numbers of S come before i.
Rank(S, i) == Cardinality({j \in S : j < i})

\* In a finite set ranks are in the order of the numbers, from 0 on.
LEMMA RankFacts ==
    ASSUME NEW S, IsFiniteSet(S), S \subseteq Int
    PROVE  /\ Cardinality(S) \in Nat
           /\ \A i \in S : Rank(S, i) \in 0..(Cardinality(S) - 1)
           /\ \A i, j \in S : i < j <=> Rank(S, i) < Rank(S, j)
<1>1. Cardinality(S) \in Nat
  BY FS_CardinalityType
<1>2. ASSUME NEW A, NEW B, A \subseteq B, B \subseteq S, NEW x \in B, x \notin A
      PROVE  Cardinality(A) \in Nat /\ Cardinality(B) \in Nat /\ Cardinality(A) < Cardinality(B)
  <2>1. IsFiniteSet(B)
    BY <1>2, FS_Subset
  <2>2. IsFiniteSet(A) /\ Cardinality(A) <= Cardinality(B) /\ (Cardinality(B) = Cardinality(A) => B = A)
    BY <1>2, <2>1, FS_Subset
  <2>3. Cardinality(A) \in Nat /\ Cardinality(B) \in Nat
    BY <2>1, <2>2, FS_CardinalityType
  <2> QED BY <1>2, <2>2, <2>3
<1>3. ASSUME NEW i \in S
      PROVE  Rank(S, i) \in 0..(Cardinality(S) - 1)
  <2>1. i \notin {j \in S : j < i}
    OBVIOUS
  <2>2. Cardinality({j \in S : j < i}) \in Nat /\ Cardinality({j \in S : j < i}) < Cardinality(S)
    BY <1>2, <2>1, Zenon
  <2> QED BY <1>1, <2>2 DEF Rank
<1>4. ASSUME NEW i \in S, NEW j \in S, i < j
      PROVE  Rank(S, i) < Rank(S, j)
  <2>1. i \notin {k \in S : k < i} /\ i \in {k \in S : k < j}
    BY <1>4
  <2>2. {k \in S : k < i} \subseteq {k \in S : k < j}
    <3> SUFFICES ASSUME NEW k \in S, k < i
                 PROVE  k < j
      OBVIOUS
    <3>1. i \in Int /\ j \in Int /\ k \in Int
      OBVIOUS
    <3> QED BY <1>4, <3>1
  <2> QED BY <1>2, <2>1, <2>2, Zenon DEF Rank
<1>5. \A i, j \in S : i < j <=> Rank(S, i) < Rank(S, j)
  <2> SUFFICES ASSUME NEW i \in S, NEW j \in S, Rank(S, i) < Rank(S, j)
               PROVE  i < j
    BY <1>4
  <2>1. Rank(S, i) \in Int /\ Rank(S, j) \in Int
    BY <1>1, <1>3
  <2>2. i # j
    BY <2>1
  <2>3. ~(j < i)
    <3>1. j < i => Rank(S, j) < Rank(S, i)
      BY <1>4
    <3> QED BY <2>1, <3>1
  <2>4. i \in Int /\ j \in Int
    OBVIOUS
  <2> QED BY <2>2, <2>3, <2>4
<1> QED BY <1>1, <1>3, <1>5

\* Every rank below the size of the set is that of a member.
LEMMA RankTaken ==
    ASSUME NEW S, IsFiniteSet(S), S \subseteq Int
    PROVE  \A n \in 0..(Cardinality(S) - 1) : \E i \in S : Rank(S, i) = n
<1> DEFINE T == 0..(Cardinality(S) - 1)
           f == [i \in S |-> Rank(S, i)]
<1>1. /\ Cardinality(S) \in Nat
      /\ \A i \in S : Rank(S, i) \in 0..(Cardinality(S) - 1)
      /\ \A i, j \in S : i < j <=> Rank(S, i) < Rank(S, j)
  BY RankFacts
<1>2. IsFiniteSet(T) /\ Cardinality(T) = Cardinality(S)
  BY <1>1, FS_Interval
<1>3. f \in Injection(S, T)
  <2>1. f \in [S -> T]
    BY RankFacts
  <2>2. ASSUME NEW i \in S, NEW j \in S, f[i] = f[j]
        PROVE  i = j
    <3>1. Rank(S, i) = Rank(S, j) /\ Rank(S, i) \in Int
      BY <2>2, <1>1
    <3>2. ~(i < j) /\ ~(j < i)
      BY <3>1, <1>1
    <3>3. i \in Int /\ j \in Int
      OBVIOUS
    <3> QED BY <3>2, <3>3
  <2> QED BY <2>1, <2>2 DEF Injection, IsInjective
<1> HIDE DEF T, f
<1>4. f \in Surjection(S, T)
  BY <1>2, <1>3, FS_Injection
<1> QED BY <1>4 DEF Surjection, f, T

(* Ascending(S) lists S, each member once, smallest first. *)
LEMMA AscendingLists ==
    ASSUME NEW S, IsFiniteSet(S), S \subseteq Int
    PROVE  /\ Cardinality(S) \in Nat
           /\ Ascending(S) \in [1..Cardinality(S) -> S]
           /\ Ascending(S) \in Seq(S) /\ Len(Ascending(S)) = Cardinality(S)
           /\ \A i \in S : \E k \in 1..Cardinality(S) : Ascending(S)[k] = i
           /\ \A k, l \in 1..Cardinality(S) : k < l <=> Ascending(S)[k] < Ascending(S)[l]
<1> DEFINE N == Cardinality(S)
           q == Ascending(S)
<1>1. /\ N \in Nat
      /\ \A i \in S : Rank(S, i) \in 0..(N - 1)
      /\ \A i, j \in S : i < j <=> Rank(S, i) < Rank(S, j)
  BY RankFacts
<1>2. \A k \in 1..N : q[k] \in S /\ Rank(S, q[k]) = k - 1
  <2> SUFFICES ASSUME NEW k \in 1..N
               PROVE  q[k] \in S /\ Rank(S, q[k]) = k - 1
    OBVIOUS
  <2>1. k - 1 \in 0..(N - 1)
    BY <1>1
  <2>2. \E i \in S : Rank(S, i) = k - 1
    BY <2>1, RankTaken, Zenon
  <2>3. q[k] = CHOOSE i \in S : Rank(S, i) = k - 1
    BY Zenon DEF Ascending, Rank
  <2> QED BY <2>2, <2>3, Zenon
<1>3. q \in [1..N -> S]
  BY <1>2 DEF Ascending
<1>4. q \in Seq(S) /\ Len(q) = N
  BY <1>1, <1>3
<1>5. \A k, l \in 1..N : k < l <=> q[k] < q[l]
  <2> SUFFICES ASSUME NEW k \in 1..N, NEW l \in 1..N
               PROVE  k < l <=> q[k] < q[l]
    OBVIOUS
  <2> HIDE DEF q
  <2>1. q[k] < q[l] <=> Rank(S, q[k]) < Rank(S, q[l])
    BY <1>1, <1>2
  <2>2. Rank(S, q[k]) = k - 1 /\ Rank(S, q[l]) = l - 1
    BY <1>2
  <2> QED BY <1>1, <2>1, <2>2
<1>6. \A i \in S : \E k \in 1..N : q[k] = i
  <2> SUFFICES ASSUME NEW i \in S
               PROVE  \E k \in 1..N : q[k] = i
    OBVIOUS
  <2>1. Rank(S, i) \in 0..(N - 1)
    BY <1>1
  <2> HIDE DEF q, N
  <2> DEFINE k == Rank(S, i) + 1
  <2>2. k \in 1..N /\ k - 1 = Rank(S, i)
    BY <1>1, <2>1
  <2> HIDE DEF k
  <2>3. q[k] \in S /\ Rank(S, q[k]) = Rank(S, i)
    BY <1>2, <2>2
  <2>4. ~(q[k] < i) /\ ~(i < q[k])
    <3>1. q[k] < i <=> Rank(S, q[k]) < Rank(S, i)
      BY <2>3, <1>1
    <3>2. i < q[k] <=> Rank(S, i) < Rank(S, q[k])
      BY <2>3, <1>1
    <3> QED BY <2>1, <2>3, <3>1, <3>2, <1>1
  <2>5. q[k] = i
    <3>1. q[k] \in Int /\ i \in Int
      BY <2>3
    <3> QED BY <2>4, <3>1
  <2> QED BY <2>2, <2>5
<1> QED BY <1>1, <1>3, <1>4, <1>5, <1>6

-----------------------------------------------------------------------------
(* Histories of messages.                                                  *)

\* A message with any calls.
AnyMessage ==
    {User, Notice}
    \cup [kind : {"assistant"}, calls : Seq(Nat), text : BOOLEAN]
    \cup [kind : {"result"}, call : Nat,
          note : {"ran", "refused", "stopped", "withheld", "abandoned"}]
History == Seq(AnyMessage)

LEMMA Kinds ==
    ASSUME NEW m \in AnyMessage
    PROVE  /\ m.kind \in {"user", "notice", "assistant", "result"}
           /\ m.kind = "assistant" => m.calls \in Seq(Nat) /\ m.text \in BOOLEAN
           /\ m.kind = "result" => m.call \in Nat
           /\ IsUser(m) <=> m.kind \in {"user", "notice"}
BY DEF AnyMessage, User, Notice, IsUser

LEMMA MadeMessages ==
    /\ User \in AnyMessage /\ Notice \in AnyMessage
    /\ User.kind = "user" /\ Notice.kind = "notice"
    /\ \A calls \in Seq(Nat), text \in BOOLEAN :
          /\ Assistant(calls, text) \in AnyMessage /\ Assistant(calls, text).kind = "assistant"
          /\ Assistant(calls, text).calls = calls
    /\ \A call \in Nat, note \in {"ran", "refused", "stopped", "withheld", "abandoned"} :
          /\ Result(call, note) \in AnyMessage /\ Result(call, note).kind = "result"
          /\ Result(call, note).call = call
BY DEF AnyMessage, User, Notice, Assistant, Result

\* The results of the calls of the assistant message at i follow it.
Block(s, i) ==
    LET n == Len(s[i].calls)
        after == (i + 1)..(i + n)
    IN /\ i + n <= Len(s)
       /\ after \subseteq Results(s)
       /\ {s[j].call : j \in after} = ToSet(s[i].calls)
       /\ Cardinality(ToSet(s[i].calls)) = n

\* The result at i belongs to the assistant message at j.
Covers(s, j, i) == s[j].kind = "assistant" /\ i <= j + Len(s[j].calls)

\* A history of whole transactions, in the words of this module.
LEMMA PairedMeans ==
    \A s : Paired(s) <=>
        /\ \A i \in DOMAIN s : s[i].kind = "assistant" => Block(s, i)
        /\ \A i \in Results(s) : \E j \in 1..(i - 1) : Covers(s, j, i)
BY Zenon DEF Paired, Block, Covers

\* A block is where it is, wherever the messages around it are.
LEMMA BlockMoves ==
    ASSUME NEW s \in History, NEW t \in History, NEW d \in Int, NEW i \in DOMAIN s,
           s[i].kind = "assistant", Block(s, i),
           \A k \in i..(i + Len(s[i].calls)) : k + d \in DOMAIN t /\ t[k + d] = s[k]
    PROVE  Block(t, i + d)
<1> DEFINE n == Len(s[i].calls)
<1>1. n \in Nat /\ i \in 1..Len(s) /\ Len(s) \in Nat /\ Len(t) \in Nat
  <2>1. s[i] \in AnyMessage
    BY DEF History
  <2> QED BY <2>1, Kinds DEF History
<1>2. /\ i + n <= Len(s) /\ (i + 1)..(i + n) \subseteq Results(s)
      /\ {s[j].call : j \in (i + 1)..(i + n)} = ToSet(s[i].calls)
      /\ Cardinality(ToSet(s[i].calls)) = n
  BY DEF Block
<1>3. t[i + d] = s[i]
  BY <1>1
<1>4. i + d + n <= Len(t)
  <2>1. i + n \in i..(i + n)
    BY <1>1
  <2>2. (i + n) + d \in DOMAIN t
    BY <2>1
  <2> QED BY <1>1, <2>2 DEF History
<1>5. ASSUME NEW j \in (i + d + 1)..(i + d + n)
      PROVE  /\ j - d \in (i + 1)..(i + n) /\ j \in DOMAIN t
             /\ t[j] = s[j - d] /\ j \in Results(t)
  <2>1. j - d \in (i + 1)..(i + n) /\ (j - d) + d = j
    BY <1>1
  <2>2. j - d \in i..(i + n)
    BY <2>1, <1>1
  <2>3. j \in DOMAIN t /\ t[j] = s[j - d]
    BY <2>1, <2>2
  <2>4. s[j - d].kind = "result"
    BY <1>2, <2>1 DEF Results
  <2> QED BY <2>1, <2>3, <2>4 DEF Results
<1>6. {t[j].call : j \in (i + d + 1)..(i + d + n)} = {s[j].call : j \in (i + 1)..(i + n)}
  <2>1. ASSUME NEW j \in (i + 1)..(i + n)
        PROVE  j + d \in (i + d + 1)..(i + d + n) /\ t[j + d] = s[j]
    BY <1>1
  <2>2. {s[j].call : j \in (i + 1)..(i + n)} \subseteq {t[j].call : j \in (i + d + 1)..(i + d + n)}
    BY <2>1
  <2>3. {t[j].call : j \in (i + d + 1)..(i + d + n)} \subseteq {s[j].call : j \in (i + 1)..(i + n)}
    BY <1>5
  <2> QED BY <2>2, <2>3
<1> HIDE DEF n
<1>7. (i + d) + 1 = i + d + 1 /\ Len(t[i + d].calls) = n
  BY <1>3 DEF n
<1> QED BY <1>2, <1>3, <1>4, <1>5, <1>6, <1>7 DEF Block

\* What follows a history of whole transactions does not disturb it.
LEMMA PairedExtends ==
    ASSUME NEW s \in History, NEW t \in History, Paired(s), Len(s) <= Len(t),
           \A i \in 1..Len(s) : t[i] = s[i],
           \A i \in (Len(s) + 1)..Len(t) :
               /\ t[i].kind = "assistant" => Block(t, i)
               /\ t[i].kind = "result" => \E j \in 1..(i - 1) : Covers(t, j, i)
    PROVE  Paired(t)
<1>1. /\ Len(s) \in Nat /\ DOMAIN s = 1..Len(s) /\ Len(t) \in Nat /\ DOMAIN t = 1..Len(t)
      /\ \A i \in 1..Len(s) : s[i] \in AnyMessage
  BY DEF History
<1>2. ASSUME NEW i \in DOMAIN t, t[i].kind = "assistant"
      PROVE  Block(t, i)
  <2>1. CASE i \in 1..Len(s)
    <3>1. i \in DOMAIN s /\ s[i].kind = "assistant"
      BY <1>1, <1>2, <2>1
    <3>2. Block(s, i)
      BY <3>1, PairedMeans
    <3>3. i + Len(s[i].calls) <= Len(s) /\ Len(s[i].calls) \in Nat
      BY <1>1, <3>1, <3>2, Kinds DEF Block
    <3>4. \A k \in i..(i + Len(s[i].calls)) : k + 0 \in DOMAIN t /\ t[k + 0] = s[k]
      <4> SUFFICES ASSUME NEW k \in i..(i + Len(s[i].calls))
                   PROVE  k + 0 \in DOMAIN t /\ t[k + 0] = s[k]
        OBVIOUS
      <4>1. k \in 1..Len(s) /\ k + 0 = k /\ k \in DOMAIN t
        BY <1>1, <2>1, <3>3
      <4> QED BY <4>1
    <3>5. Block(t, i + 0)
      <4>1. 0 \in Int
        OBVIOUS
      <4> QED BY <4>1, <3>1, <3>2, <3>4, BlockMoves
    <3> QED BY <2>1, <3>5
  <2> QED BY <1>1, <1>2, <2>1
<1>3. ASSUME NEW i \in Results(t)
      PROVE  \E j \in 1..(i - 1) : Covers(t, j, i)
  <2>1. i \in DOMAIN t /\ t[i].kind = "result"
    BY DEF Results
  <2>2. CASE i \in 1..Len(s)
    <3>1. i \in Results(s)
      BY <1>1, <2>1, <2>2 DEF Results
    <3>2. PICK j \in 1..(i - 1) : Covers(s, j, i)
      BY <3>1, PairedMeans
    <3>3. j \in 1..Len(s)
      BY <1>1, <2>2
    <3> QED BY <3>2, <3>3 DEF Covers
  <2> QED BY <1>1, <2>1, <2>2
<1> QED BY <1>2, <1>3, PairedMeans

\* Among whole transactions nothing waits for a result.
LEMMA AnsweredIsRequested ==
    ASSUME NEW s \in History, Paired(s)
    PROVE  Answered(s) = Requested(s) /\ Pending(s) = {}
<1>0. \A i \in DOMAIN s : s[i] \in AnyMessage
  BY DEF History
<1>1. ASSUME NEW i \in Results(s)
      PROVE  s[i].call \in Requested(s)
  <2>1. PICK j \in 1..(i - 1) : s[j].kind = "assistant" /\ i <= j + Len(s[j].calls)
    BY PairedMeans DEF Covers
  <2>2. i \in 1..Len(s) /\ Len(s) \in Nat /\ j \in DOMAIN s
    BY DEF Results, History
  <2>3. i \in (j + 1)..(j + Len(s[j].calls))
    <3>1. Len(s[j].calls) \in Nat
      BY <1>0, <2>1, <2>2, Kinds
    <3> QED BY <2>1, <2>2, <3>1
  <2>4. {s[k].call : k \in (j + 1)..(j + Len(s[j].calls))} = ToSet(s[j].calls)
    BY <2>1, <2>2, PairedMeans DEF Block
  <2>5. s[i].call \in CallsOf(s[j])
    BY <2>1, <2>3, <2>4 DEF CallsOf
  <2> QED BY <2>2, <2>5 DEF Requested
<1>2. ASSUME NEW j \in DOMAIN s, NEW c \in CallsOf(s[j])
      PROVE  c \in Answered(s)
  <2>1. s[j].kind = "assistant" /\ c \in ToSet(s[j].calls)
    BY DEF CallsOf
  <2>2. /\ (j + 1)..(j + Len(s[j].calls)) \subseteq Results(s)
        /\ {s[k].call : k \in (j + 1)..(j + Len(s[j].calls))} = ToSet(s[j].calls)
    BY <2>1, PairedMeans DEF Block
  <2>3. PICK k \in (j + 1)..(j + Len(s[j].calls)) : c = s[k].call
    BY <2>1, <2>2
  <2> QED BY <2>2, <2>3 DEF Answered
<1> QED BY <1>1, <1>2 DEF Answered, Requested, Pending

-----------------------------------------------------------------------------
(* A history whose last assistant message still waits for results.          *)

Before(s, p) == SubSeq(s, 1, p - 1)
AnsweredAfter(s, p) == {s[j].call : j \in (p + 1)..Len(s)}

\* After whole transactions, the message at p has calls of its own and some of their results.
OpenAt(s, p) ==
    /\ p \in DOMAIN s /\ s[p].kind = "assistant"
    /\ Paired(Before(s, p))
    /\ Cardinality(ToSet(s[p].calls)) = Len(s[p].calls)
    /\ \A i \in 1..(p - 1) : CallsOf(s[i]) \cap CallsOf(s[p]) = {}
    /\ \A i \in (p + 1)..Len(s) : s[i].kind = "result" /\ s[i].call \in ToSet(s[p].calls)
    /\ \A i, j \in (p + 1)..Len(s) : s[i].call = s[j].call => i = j

LEMMA Lengths ==
    ASSUME NEW s \in History
    PROVE  /\ Len(s) \in Nat /\ DOMAIN s = 1..Len(s)
           /\ \A i \in 1..Len(s) : s[i] \in AnyMessage
BY DEF History

LEMMA BeforeIs ==
    ASSUME NEW s \in History, NEW p \in DOMAIN s
    PROVE  /\ Before(s, p) \in History /\ Len(Before(s, p)) = p - 1
           /\ DOMAIN Before(s, p) = 1..(p - 1)
           /\ \A i \in 1..(p - 1) : Before(s, p)[i] = s[i]
<1>1. p \in 1..Len(s) /\ Len(s) \in Nat
  BY Lengths
<1>2. 1 \in 1..(Len(s) + 1) /\ p - 1 \in 0..Len(s)
  BY <1>1
<1>3. \A i \in 1..(p - 1) : s[i] \in AnyMessage
  BY <1>1, Lengths
<1> QED BY <1>1, <1>2, <1>3 DEF Before, History

\* What is added behind the open message leaves the part before it as it was.
LEMMA SameBefore ==
    ASSUME NEW s \in History, NEW t \in History, NEW p \in DOMAIN s, p \in DOMAIN t,
           \A i \in 1..(p - 1) : s[i] = t[i]
    PROVE  Before(s, p) = Before(t, p)
<1>1. /\ Before(s, p) \in Seq(AnyMessage) /\ Before(t, p) \in Seq(AnyMessage)
      /\ Len(Before(s, p)) = Len(Before(t, p))
      /\ \A i \in 1..Len(Before(s, p)) : Before(s, p)[i] = Before(t, p)[i]
  BY BeforeIs DEF History
<1> QED BY <1>1, SeqEqual

\* What waits in such a history are the calls of its open message without a result.
LEMMA OpenPending ==
    ASSUME NEW s \in History, NEW p, OpenAt(s, p)
    PROVE  Pending(s) = ToSet(s[p].calls) \ AnsweredAfter(s, p)
<1>1. /\ p \in 1..Len(s) /\ Len(s) \in Nat /\ DOMAIN s = 1..Len(s)
      /\ s[p].kind = "assistant"
  BY Lengths DEF OpenAt
<1>2. CallsOf(s[p]) = ToSet(s[p].calls)
  BY <1>1 DEF CallsOf
<1>3. Answered(Before(s, p)) = Requested(Before(s, p))
  BY <1>1, BeforeIs, AnsweredIsRequested DEF OpenAt
<1>4. \A i \in 1..(p - 1) : i \in DOMAIN Before(s, p) /\ Before(s, p)[i] = s[i]
  BY <1>1, BeforeIs
<1>5. ASSUME NEW c \in Requested(s), c \notin ToSet(s[p].calls)
      PROVE  c \in Answered(s)
  <2>1. PICK i \in DOMAIN s : c \in CallsOf(s[i])
    BY DEF Requested
  <2>2. i # p
    BY <1>2, <1>5, <2>1
  <2>3. i \notin (p + 1)..Len(s)
    BY <2>1 DEF OpenAt, CallsOf
  <2>4. i \in 1..(p - 1)
    BY <1>1, <2>2, <2>3
  <2>5. c \in Requested(Before(s, p))
    BY <1>4, <2>1, <2>4 DEF Requested
  <2>6. PICK j \in Results(Before(s, p)) : c = Before(s, p)[j].call
    BY <1>3, <2>5 DEF Answered
  <2>7. j \in 1..(p - 1) /\ j \in DOMAIN s /\ s[j] = Before(s, p)[j] /\ s[j].kind = "result"
    <3>1. j \in DOMAIN Before(s, p) /\ Before(s, p)[j].kind = "result"
      BY DEF Results
    <3>2. j \in 1..(p - 1)
      BY <1>1, <3>1, BeforeIs
    <3> QED BY <1>1, <1>4, <3>1, <3>2
  <2> QED BY <2>6, <2>7 DEF Answered, Results
<1>6. ToSet(s[p].calls) \subseteq Requested(s)
  BY <1>1, <1>2 DEF Requested
<1>7. ASSUME NEW c \in ToSet(s[p].calls), c \in Answered(s)
      PROVE  c \in AnsweredAfter(s, p)
  <2>1. PICK j \in Results(s) : c = s[j].call
    BY <1>7 DEF Answered
  <2>2. j \in DOMAIN s /\ s[j].kind = "result"
    BY DEF Results
  <2>3. j # p
    BY <1>1, <2>2
  <2>4. j \notin 1..(p - 1)
    <3> SUFFICES ASSUME j \in 1..(p - 1)
                 PROVE  FALSE
      OBVIOUS
    <3>1. j \in Results(Before(s, p)) /\ c = Before(s, p)[j].call
      BY <1>4, <2>1, <2>2 DEF Results
    <3>2. c \in Requested(Before(s, p))
      BY <1>3, <3>1 DEF Answered
    <3>3. PICK i \in DOMAIN Before(s, p) : c \in CallsOf(Before(s, p)[i])
      BY <3>2 DEF Requested
    <3>4. i \in 1..(p - 1) /\ c \in CallsOf(s[i])
      BY <1>1, <1>4, <3>3, BeforeIs
    <3> QED BY <1>2, <1>7, <3>4 DEF OpenAt
  <2>5. j \in (p + 1)..Len(s)
    BY <1>1, <2>2, <2>3, <2>4
  <2> QED BY <2>1, <2>5 DEF AnsweredAfter
<1>8. AnsweredAfter(s, p) \subseteq Answered(s)
  <2>1. \A j \in (p + 1)..Len(s) : j \in Results(s)
    BY <1>1 DEF OpenAt, Results
  <2> QED BY <2>1 DEF Answered, AnsweredAfter
<1> QED BY <1>5, <1>6, <1>7, <1>8 DEF Pending

\* Once all its calls have a result the message is a transaction like the others.
LEMMA OpenDone ==
    ASSUME NEW s \in History, NEW p, OpenAt(s, p), Pending(s) = {}
    PROVE  Paired(s)
<1> DEFINE n == Len(s[p].calls)
           after == (p + 1)..Len(s)
           f == [j \in after |-> s[j].call]
<1>1. /\ p \in 1..Len(s) /\ Len(s) \in Nat /\ DOMAIN s = 1..Len(s)
      /\ s[p].kind = "assistant" /\ s[p] \in AnyMessage
  BY Lengths DEF OpenAt
<1>2. ToSet(s[p].calls) = {s[j].call : j \in after}
  <2>1. ToSet(s[p].calls) \subseteq {s[j].call : j \in after}
    BY OpenPending DEF AnsweredAfter
  <2> QED BY <2>1 DEF OpenAt
<1>3. n \in Nat /\ Cardinality(ToSet(s[p].calls)) = n
  BY <1>1, Kinds DEF OpenAt
<1>4. Len(s) = p + n
  <2>1. f \in Bijection(after, ToSet(s[p].calls))
    <3>1. f \in [after -> ToSet(s[p].calls)]
      BY <1>2
    <3>2. \A i, j \in after : f[i] = f[j] => i = j
      BY DEF OpenAt
    <3>3. \A c \in ToSet(s[p].calls) : \E j \in after : f[j] = c
      BY <1>2
    <3> HIDE DEF f, after
    <3> QED BY <3>1, <3>2, <3>3 DEF Bijection, Injection, Surjection, IsInjective
  <2>2. IsFiniteSet(after) /\ Cardinality(after) = Len(s) - p
    <3>1. p + 1 \in Int /\ Len(s) \in Int
      BY <1>1
    <3>2. /\ IsFiniteSet(after)
          /\ Cardinality(after) = IF p + 1 > Len(s) THEN 0 ELSE Len(s) - (p + 1) + 1
      BY <3>1, FS_Interval
    <3> QED BY <1>1, <3>2
  <2>3. Cardinality(ToSet(s[p].calls)) = Cardinality(after)
    <3> HIDE DEF after, f
    <3> QED BY <2>1, <2>2, FS_Bijection DEF ExistsBijection
  <2> QED BY <1>1, <1>3, <2>2, <2>3
<1>5. Block(s, p)
  <2>1. after \subseteq Results(s)
    BY <1>1 DEF OpenAt, Results
  <2>2. (p + 1)..Len(s) = (p + 1)..(p + n) /\ p + n <= Len(s)
    BY <1>1, <1>3, <1>4
  <2> QED BY <1>2, <1>3, <2>1, <2>2 DEF Block
<1>6. /\ Before(s, p) \in History /\ Len(Before(s, p)) = p - 1 /\ Paired(Before(s, p))
      /\ \A i \in 1..(p - 1) : s[i] = Before(s, p)[i]
  BY <1>1, BeforeIs DEF OpenAt
<1>7. ASSUME NEW i \in p..Len(s)
      PROVE  /\ s[i].kind = "assistant" => Block(s, i)
             /\ s[i].kind = "result" => \E j \in 1..(i - 1) : Covers(s, j, i)
  <2>1. CASE i = p
    BY <1>1, <1>5, <2>1
  <2>2. CASE i \in (p + 1)..Len(s)
    <3>1. p \in 1..(i - 1) /\ Covers(s, p, i)
      BY <1>1, <1>3, <1>4, <2>2 DEF Covers
    <3>2. s[i].kind = "result"
      BY <2>2 DEF OpenAt
    <3> QED BY <3>1, <3>2
  <2> QED BY <1>1, <2>1, <2>2
<1>8. p - 1 <= Len(s) /\ (p - 1) + 1 = p
  BY <1>1
<1> HIDE DEF n, after, f
<1> QED BY <1>6, <1>7, <1>8, PairedExtends

LEMMA Appended ==
    ASSUME NEW s \in History, NEW m \in AnyMessage
    PROVE  /\ Append(s, m) \in History /\ Len(Append(s, m)) = Len(s) + 1
           /\ DOMAIN Append(s, m) = 1..(Len(s) + 1)
           /\ \A i \in 1..Len(s) : Append(s, m)[i] = s[i]
           /\ Append(s, m)[Len(s) + 1] = m
BY AppendProperties DEF History

\* A user message or a notice after whole transactions.
LEMMA PairedAppended ==
    ASSUME NEW s \in History, Paired(s), NEW m \in {User, Notice}
    PROVE  Append(s, m) \in History /\ Paired(Append(s, m)) /\ Pending(Append(s, m)) = {}
<1> DEFINE t == Append(s, m)
<1>1. m \in AnyMessage /\ m.kind \in {"user", "notice"}
  BY MadeMessages
<1>2. /\ t \in History /\ Len(t) = Len(s) + 1 /\ \A i \in 1..Len(s) : t[i] = s[i]
      /\ t[Len(s) + 1] = m /\ Len(s) \in Nat
  BY <1>1, Appended, Lengths
<1> HIDE DEF t
<1>3. \A i \in (Len(s) + 1)..Len(t) : i = Len(s) + 1
  BY <1>2
<1>4. \A i \in (Len(s) + 1)..Len(t) : t[i].kind \notin {"assistant", "result"}
  BY <1>1, <1>2, <1>3
<1>5. Paired(t)
  BY <1>2, <1>4, PairedExtends
<1> QED BY <1>2, <1>5, AnsweredIsRequested DEF t

\* A response with new calls opens a transaction.
LEMMA ReplyOpens ==
    ASSUME NEW s \in History, Paired(s), NEW calls \in Seq(Nat), NEW text \in BOOLEAN,
           Cardinality(ToSet(calls)) = Len(calls),
           \A i \in DOMAIN s : CallsOf(s[i]) \cap ToSet(calls) = {}
    PROVE  LET t == Append(s, Assistant(calls, text))
           IN  t \in History /\ OpenAt(t, Len(s) + 1) /\ Pending(t) = ToSet(calls)
<1> DEFINE m == Assistant(calls, text)
           t == Append(s, m)
           p == Len(s) + 1
<1>1. m \in AnyMessage /\ m.kind = "assistant" /\ m.calls = calls
  BY MadeMessages
<1> HIDE DEF m
<1>2. /\ t \in History /\ Len(t) = Len(s) + 1 /\ \A i \in 1..Len(s) : t[i] = s[i]
      /\ t[p] = m /\ Len(s) \in Nat /\ DOMAIN s = 1..Len(s) /\ DOMAIN t = 1..p
  BY <1>1, Appended, Lengths
<1> HIDE DEF t
<1>3. p \in DOMAIN t /\ p - 1 = Len(s) /\ (p + 1)..Len(t) = {}
  BY <1>2
<1>4. Before(t, p) = s
  <2>1. /\ Before(t, p) \in Seq(AnyMessage) /\ s \in Seq(AnyMessage)
        /\ Len(Before(t, p)) = Len(s)
        /\ \A i \in 1..Len(Before(t, p)) : Before(t, p)[i] = s[i]
    BY <1>2, <1>3, BeforeIs DEF History
  <2> QED BY <2>1, SeqEqual
<1>5. CallsOf(t[p]) = ToSet(calls) /\ \A i \in 1..(p - 1) : CallsOf(t[i]) = CallsOf(s[i])
  BY <1>1, <1>2, <1>3 DEF CallsOf
<1>6. OpenAt(t, p)
  <2> HIDE DEF p
  <2> QED BY <1>1, <1>2, <1>3, <1>4, <1>5 DEF OpenAt
<1>7. Pending(t) = ToSet(calls)
  <2>1. AnsweredAfter(t, p) = {}
    BY <1>3 DEF AnsweredAfter
  <2>2. Pending(t) = ToSet(t[p].calls) \ AnsweredAfter(t, p)
    BY <1>2, <1>6, OpenPending
  <2> QED BY <1>1, <1>2, <2>1, <2>2
<1> QED BY <1>2, <1>6, <1>7 DEF t, m

LEMMA ResultFields ==
    \A c, note : Result(c, note).kind = "result" /\ Result(c, note).call = c
BY DEF Result

Notes == {"ran", "refused", "stopped", "withheld", "abandoned"}
WithResults(s, q, note) == s \o [i \in DOMAIN q |-> Result(q[i], note)]

\* Results behind a history that has an open message.
LEMMA ResultsFollow ==
    ASSUME NEW s \in History, NEW q \in Seq(Nat), NEW note \in Notes
    PROVE  LET t == WithResults(s, q, note)
           IN  /\ t \in History /\ Len(t) = Len(s) + Len(q)
               /\ \A i \in 1..Len(s) : t[i] = s[i]
               /\ \A i \in (Len(s) + 1)..Len(t) :
                     i - Len(s) \in DOMAIN q /\ t[i] = Result(q[i - Len(s)], note)
               /\ Requested(t) = Requested(s)
<1> DEFINE r == [i \in DOMAIN q |-> Result(q[i], note)]
           t == s \o r
<1>1. Len(q) \in Nat /\ DOMAIN q = 1..Len(q) /\ \A i \in DOMAIN q : q[i] \in Nat
  OBVIOUS
<1>2. \A i \in DOMAIN q : Result(q[i], note) \in AnyMessage
  BY <1>1, MadeMessages DEF Notes
<1>3. /\ r \in History /\ Len(r) = Len(q)
      /\ \A i \in DOMAIN q : r[i] = Result(q[i], note)
  BY <1>1, <1>2 DEF History
<1> HIDE DEF r
<1>4. Len(s) \in Nat /\ DOMAIN s = 1..Len(s)
  BY Lengths
<1>5. /\ t \in Seq(AnyMessage) /\ Len(t) = Len(s) + Len(r)
      /\ \A i \in 1..(Len(s) + Len(r)) : t[i] = IF i <= Len(s) THEN s[i] ELSE r[i - Len(s)]
  <2>1. s \in Seq(AnyMessage) /\ r \in Seq(AnyMessage)
    BY <1>3 DEF History
  <2> QED BY <2>1, ConcatProperties
<1> HIDE DEF t
<1>6. \A i \in 1..Len(s) : t[i] = s[i]
  BY <1>1, <1>3, <1>4, <1>5
<1>7. ASSUME NEW i \in (Len(s) + 1)..Len(t)
      PROVE  i - Len(s) \in DOMAIN q /\ t[i] = Result(q[i - Len(s)], note)
  <2>1. i - Len(s) \in DOMAIN q /\ t[i] = r[i - Len(s)]
    BY <1>1, <1>3, <1>4, <1>5
  <2> QED BY <1>3, <2>1
<1>8. DOMAIN t = 1..Len(t)
  BY <1>5
<1>9. ASSUME NEW i \in DOMAIN t, i \notin DOMAIN s
      PROVE  CallsOf(t[i]) = {}
  <2>1. i \in (Len(s) + 1)..Len(t)
    BY <1>1, <1>3, <1>4, <1>5, <1>8, <1>9
  <2>2. t[i].kind = "result"
    BY <1>7, <2>1, ResultFields
  <2> QED BY <2>2 DEF CallsOf
<1>10. \A i \in DOMAIN s : i \in DOMAIN t /\ t[i] = s[i]
  BY <1>1, <1>3, <1>4, <1>5, <1>6, <1>8
<1>11. Requested(t) = Requested(s)
  BY <1>9, <1>10 DEF Requested
<1> QED BY <1>3, <1>5, <1>6, <1>7, <1>11 DEF t, r, WithResults, History

\* The results of different calls that were waiting.
LEMMA ResultsAdded ==
    ASSUME NEW s \in History, NEW p, OpenAt(s, p), NEW q \in Seq(Pending(s)),
           \A i, j \in DOMAIN q : q[i] = q[j] => i = j,
           NEW note \in Notes
    PROVE  LET t == WithResults(s, q, note)
           IN  t \in History /\ OpenAt(t, p) /\ Pending(t) = Pending(s) \ ToSet(q)
<1> DEFINE t == WithResults(s, q, note)
<1>1. /\ p \in 1..Len(s) /\ Len(s) \in Nat /\ DOMAIN s = 1..Len(s)
      /\ s[p].kind = "assistant" /\ s[p] \in AnyMessage
  BY Lengths DEF OpenAt
<1>2. Pending(s) = ToSet(s[p].calls) \ AnsweredAfter(s, p)
  BY OpenPending
<1>3. s[p].calls \in Seq(Nat)
  BY <1>1, Kinds
<1>4. Pending(s) \subseteq Nat
  BY <1>2, <1>3 DEF ToSet
<1>5. Len(q) \in Nat /\ DOMAIN q = 1..Len(q) /\ \A i \in DOMAIN q : q[i] \in Pending(s)
  OBVIOUS
<1>6. q \in Seq(Nat)
  BY <1>4, <1>5
<1> HIDE DEF t
<1>9. /\ t \in History /\ Len(t) = Len(s) + Len(q)
      /\ \A i \in 1..Len(s) : t[i] = s[i]
      /\ \A i \in (Len(s) + 1)..Len(t) :
            i - Len(s) \in DOMAIN q /\ t[i] = Result(q[i - Len(s)], note)
  BY <1>6, ResultsFollow DEF t
<1>10. ASSUME NEW i \in (Len(s) + 1)..Len(t)
       PROVE  /\ i - Len(s) \in DOMAIN q /\ t[i].kind = "result" /\ t[i].call = q[i - Len(s)]
              /\ t[i].call \in Pending(s)
  <2>1. i - Len(s) \in DOMAIN q /\ t[i] = Result(q[i - Len(s)], note)
    BY <1>9
  <2>2. t[i].kind = "result" /\ t[i].call = q[i - Len(s)]
    BY <2>1, ResultFields
  <2> QED BY <1>5, <2>1, <2>2
<1>11. ASSUME NEW i \in (p + 1)..Len(t)
       PROVE  /\ t[i].kind = "result" /\ t[i].call \in ToSet(t[p].calls)
              /\ i \in (p + 1)..Len(s) => t[i].call \in AnsweredAfter(s, p) /\ t[i] = s[i]
              /\ i \notin (p + 1)..Len(s) => i \in (Len(s) + 1)..Len(t)
  <2>1. t[p] = s[p]
    BY <1>1, <1>9
  <2>2. CASE i \in (p + 1)..Len(s)
    <3>1. t[i] = s[i]
      BY <1>1, <1>9, <2>2
    <3> QED BY <2>1, <2>2, <3>1 DEF OpenAt, AnsweredAfter
  <2>3. CASE i \in (Len(s) + 1)..Len(t)
    BY <1>1, <1>2, <1>10, <2>1, <2>3
  <2> QED BY <1>1, <1>5, <1>9, <2>2, <2>3
<1>12. ASSUME NEW i \in (p + 1)..Len(t), NEW j \in (p + 1)..Len(t), t[i].call = t[j].call
       PROVE  i = j
  <2>1. CASE i \in (p + 1)..Len(s) /\ j \in (p + 1)..Len(s)
    BY <1>11, <1>12, <2>1 DEF OpenAt
  <2>2. CASE i \in (Len(s) + 1)..Len(t) /\ j \in (Len(s) + 1)..Len(t)
    <3>1. i - Len(s) = j - Len(s)
      BY <1>10, <1>12, <2>2
    <3> QED BY <1>1, <1>9, <3>1
  <2>3. (i \in (p + 1)..Len(s)) <=> (j \in (p + 1)..Len(s))
    BY <1>2, <1>10, <1>11, <1>12
  <2> QED BY <1>11, <2>1, <2>2, <2>3
<1>13. p \in DOMAIN t /\ t[p] = s[p] /\ \A i \in 1..(p - 1) : t[i] = s[i]
  BY <1>1, <1>5, <1>9, Lengths
<1>14. Before(t, p) = Before(s, p)
  <2>1. p \in DOMAIN s
    BY <1>1
  <2> QED BY <1>9, <1>13, <2>1, SameBefore
<1>15. OpenAt(t, p)
  BY <1>11, <1>12, <1>13, <1>14 DEF OpenAt
<1>16. AnsweredAfter(t, p) = AnsweredAfter(s, p) \cup ToSet(q)
  <2>1. ASSUME NEW i \in (p + 1)..Len(t)
        PROVE  t[i].call \in AnsweredAfter(s, p) \cup ToSet(q)
    BY <1>10, <1>11 DEF ToSet
  <2>2. ASSUME NEW c \in AnsweredAfter(s, p)
        PROVE  c \in AnsweredAfter(t, p)
    <3>1. PICK i \in (p + 1)..Len(s) : c = s[i].call
      BY DEF AnsweredAfter
    <3>2. i \in (p + 1)..Len(t) /\ t[i] = s[i]
      BY <1>1, <1>5, <1>9
    <3> QED BY <3>1, <3>2 DEF AnsweredAfter
  <2>3. ASSUME NEW k \in DOMAIN q
        PROVE  q[k] \in AnsweredAfter(t, p)
    <3> DEFINE i == Len(s) + k
    <3>1. i \in (Len(s) + 1)..Len(t) /\ i \in (p + 1)..Len(t) /\ i - Len(s) = k
      BY <1>1, <1>5, <1>9
    <3> HIDE DEF i
    <3> QED BY <1>10, <3>1 DEF AnsweredAfter
  <2> QED BY <2>1, <2>2, <2>3 DEF AnsweredAfter, ToSet
<1>17. Pending(t) = Pending(s) \ ToSet(q)
  <2>1. Pending(t) = ToSet(t[p].calls) \ AnsweredAfter(t, p)
    BY <1>9, <1>15, OpenPending
  <2> QED BY <1>2, <1>13, <1>16, <2>1
<1> QED BY <1>9, <1>15, <1>17 DEF t

-----------------------------------------------------------------------------
(* Lists of calls.                                                          *)

Distinct(q) == \A i, j \in DOMAIN q : q[i] = q[j] => i = j

\* A list without repetitions has as many members as places.
LEMMA DistinctCounts ==
    ASSUME NEW q \in Seq(Nat)
    PROVE  /\ IsFiniteSet(ToSet(q))
           /\ Distinct(q) <=> Cardinality(ToSet(q)) = Len(q)
<1> DEFINE D == 1..Len(q)
           T == ToSet(q)
<1>1. Len(q) \in Nat /\ DOMAIN q = D /\ q \in [D -> Nat]
  OBVIOUS
<1>2. T = {q[i] : i \in D}
  BY <1>1 DEF ToSet
<1>3. IsFiniteSet(D) /\ Cardinality(D) = Len(q)
  <2>1. 1 \in Int /\ Len(q) \in Int
    BY <1>1
  <2>2. IsFiniteSet(D) /\ Cardinality(D) = IF 1 > Len(q) THEN 0 ELSE Len(q) - 1 + 1
    BY <2>1, FS_Interval
  <2> QED BY <1>1, <2>2
<1>4. q \in Surjection(D, T)
  <2>1. q \in [D -> T]
    BY <1>1, <1>2
  <2>2. \A c \in T : \E i \in D : q[i] = c
    BY <1>2
  <2> HIDE DEF D, T
  <2> QED BY <2>1, <2>2 DEF Surjection
<1>5. Distinct(q) <=> q \in Injection(D, T)
  <2>1. q \in [D -> T]
    BY <1>1, <1>2
  <2> HIDE DEF D, T
  <2> QED BY <1>1, <2>1 DEF Distinct, Injection, IsInjective
<1> HIDE DEF D, T
<1>6. IsFiniteSet(T) /\ (Cardinality(T) = Cardinality(D) <=> q \in Injection(D, T))
  BY <1>3, <1>4, FS_Surjection
<1> QED BY <1>3, <1>5, <1>6 DEF T

LEMMA AscendingIsASeq ==
    ASSUME NEW S, IsFiniteSet(S), S \subseteq Nat
    PROVE  Ascending(S) \in Seq(S) /\ Distinct(Ascending(S)) /\ ToSet(Ascending(S)) = S
<1> DEFINE q == Ascending(S)
           N == Cardinality(S)
<1>1. S \subseteq Int
  OBVIOUS
<1>2. /\ N \in Nat /\ q \in [1..N -> S] /\ q \in Seq(S) /\ Len(q) = N
      /\ \A i \in S : \E k \in 1..N : q[k] = i
      /\ \A k, l \in 1..N : k < l <=> q[k] < q[l]
  BY <1>1, AscendingLists
<1> HIDE DEF q, N
<1>3. DOMAIN q = 1..N
  BY <1>2
<1>4. Distinct(q)
  <2> SUFFICES ASSUME NEW k \in 1..N, NEW l \in 1..N, q[k] = q[l]
               PROVE  k = l
    BY <1>3 DEF Distinct
  <2>1. q[k] \in Int /\ q[l] \in Int
    BY <1>1, <1>2
  <2>2. ~(k < l) /\ ~(l < k)
    BY <1>2, <2>1
  <2> QED BY <1>2, <2>2
<1>5. ToSet(q) = S
  BY <1>2, <1>3 DEF ToSet
<1> QED BY <1>2, <1>4, <1>5 DEF q

\* The rest of a list, without the members of C.
LEMMA WithoutKeeps ==
    ASSUME NEW s \in Seq(Nat), Distinct(s), NEW C
    PROVE  LET q == Without(s, C)
           IN  /\ q \in Seq(ToSet(s) \ C) /\ Distinct(q) /\ ToSet(q) = ToSet(s) \ C
<1> DEFINE S == {i \in DOMAIN s : s[i] \notin C}
           at == Ascending(S)
           q == Without(s, C)
<1>1. Len(s) \in Nat /\ DOMAIN s = 1..Len(s)
  OBVIOUS
<1>2. IsFiniteSet(S) /\ S \subseteq Nat
  <2>1. IsFiniteSet(1..Len(s))
    BY <1>1, FS_Interval
  <2>2. S \subseteq 1..Len(s)
    BY <1>1
  <2>3. IsFiniteSet(S)
    BY <2>1, <2>2, FS_Subset
  <2> QED BY <1>1, <2>2, <2>3
<1>3. at \in Seq(S) /\ Distinct(at) /\ ToSet(at) = S
  BY <1>2, AscendingIsASeq
<1>4. q = [k \in DOMAIN at |-> s[at[k]]]
  BY DEF Without
<1>5. S \subseteq DOMAIN s /\ \A i \in DOMAIN s : i \in S <=> s[i] \notin C
  OBVIOUS
<1> HIDE DEF S, at, q
<1>6. Len(at) \in Nat /\ DOMAIN at = 1..Len(at) /\ \A k \in DOMAIN at : at[k] \in S
  BY <1>3
<1>7. DOMAIN q = DOMAIN at /\ \A k \in DOMAIN q : q[k] = s[at[k]] /\ q[k] \in ToSet(s) \ C
  BY <1>4, <1>5, <1>6 DEF ToSet
<1>8. q \in Seq(ToSet(s) \ C)
  BY <1>4, <1>6, <1>7
<1>9. Distinct(q)
  <2> SUFFICES ASSUME NEW k \in DOMAIN at, NEW l \in DOMAIN at, q[k] = q[l]
               PROVE  k = l
    BY <1>7 DEF Distinct
  <2>1. s[at[k]] = s[at[l]] /\ at[k] \in DOMAIN s /\ at[l] \in DOMAIN s
    BY <1>5, <1>6, <1>7
  <2>2. at[k] = at[l]
    BY <2>1 DEF Distinct
  <2> QED BY <1>3, <2>2 DEF Distinct
<1>10. ToSet(q) = ToSet(s) \ C
  <2>1. ASSUME NEW c \in ToSet(s) \ C
        PROVE  c \in ToSet(q)
    <3>1. PICK i \in DOMAIN s : s[i] = c
      BY DEF ToSet
    <3>2. i \in ToSet(at)
      BY <1>3, <1>5, <3>1
    <3>3. PICK k \in DOMAIN at : at[k] = i
      BY <3>2 DEF ToSet
    <3> QED BY <1>7, <3>1, <3>3 DEF ToSet
  <2> QED BY <1>7, <2>1 DEF ToSet
<1> QED BY <1>8, <1>9, <1>10 DEF q

LEMMA NewCallsAre ==
    ASSUME NEW k \in Nat, NEW n \in Nat
    PROVE  /\ NewCallsFrom(k, n) \in Seq(Nat) /\ Len(NewCallsFrom(k, n)) = n
           /\ Distinct(NewCallsFrom(k, n)) /\ ToSet(NewCallsFrom(k, n)) = (k + 1)..(k + n)
<1> DEFINE q == NewCallsFrom(k, n)
<1>1. q \in Seq(Nat) /\ Len(q) = n /\ DOMAIN q = 1..n /\ \A i \in 1..n : q[i] = k + i
  BY DEF NewCallsFrom
<1> HIDE DEF q
<1>2. Distinct(q)
  BY <1>1 DEF Distinct
<1>3. ToSet(q) = (k + 1)..(k + n)
  <2>1. ASSUME NEW c \in (k + 1)..(k + n)
        PROVE  \E i \in 1..n : q[i] = c
    <3>1. c - k \in 1..n /\ k + (c - k) = c
      OBVIOUS
    <3> QED BY <1>1, <3>1
  <2>2. \A i \in 1..n : q[i] \in (k + 1)..(k + n)
    BY <1>1
  <2>3. ToSet(q) = {q[i] : i \in 1..n}
    BY <1>1 DEF ToSet
  <2> QED BY <2>1, <2>2, <2>3
<1> QED BY <1>1, <1>2, <1>3 DEF q

-----------------------------------------------------------------------------
(* What is true of every history, in memory or in the session file.         *)

\* A message whose calls are among the first k.
MessageUpTo(k) ==
    {User, Notice}
    \cup [kind : {"assistant"}, calls : {NewCallsFrom(j, n) : j \in 0..k, n \in 0..MaxCalls},
          text : BOOLEAN]
    \cup [kind : {"result"}, call : 1..k, note : Notes]

\* Whole transactions, but for the last one.
Tidy(s) == Paired(s) \/ \E p : OpenAt(s, p)

\* No call is issued twice.
Apart(s) == \A i, j \in DOMAIN s : i # j => CallsOf(s[i]) \cap CallsOf(s[j]) = {}

\* What a history is like when k calls have been issued.
Sound(s, k) ==
    /\ s \in History /\ Apart(s)
    /\ \A i \in DOMAIN s : s[i] \in MessageUpTo(k)
    /\ Requested(s) \subseteq 1..k
    /\ Tidy(s)

LEMMA SoundPaired ==
    ASSUME NEW k \in Nat, NEW s, Sound(s, k), Pending(s) = {}
    PROVE  Paired(s)
BY OpenDone DEF Sound, Tidy

LEMMA SoundGrows ==
    ASSUME NEW k \in Nat, NEW l \in Nat, k <= l, NEW s, Sound(s, k)
    PROVE  Sound(s, l)
<1>1. MessageUpTo(k) \subseteq MessageUpTo(l)
  <2>1. 0..k \subseteq 0..l /\ 1..k \subseteq 1..l
    OBVIOUS
  <2>2. {NewCallsFrom(j, n) : j \in 0..k, n \in 0..MaxCalls}
           \subseteq {NewCallsFrom(j, n) : j \in 0..l, n \in 0..MaxCalls}
    <3> SUFFICES ASSUME NEW j \in 0..k, NEW n \in 0..MaxCalls
                 PROVE  \E i \in 0..l, o \in 0..MaxCalls : NewCallsFrom(j, n) = NewCallsFrom(i, o)
      OBVIOUS
    <3>1. j \in 0..l
      BY <2>1
    <3> QED BY <3>1, Zenon
  <2> DEFINE A(m) == {NewCallsFrom(j, n) : j \in 0..m, n \in 0..MaxCalls}
  <2>3. \A m : MessageUpTo(m) = {User, Notice}
            \cup [kind : {"assistant"}, calls : A(m), text : BOOLEAN]
            \cup [kind : {"result"}, call : 1..m, note : Notes]
    BY DEF MessageUpTo
  <2>4. A(k) \subseteq A(l)
    BY <2>2
  <2> HIDE DEF A
  <2>5. [kind : {"assistant"}, calls : A(k), text : BOOLEAN]
           \subseteq [kind : {"assistant"}, calls : A(l), text : BOOLEAN]
    BY <2>4
  <2>6. [kind : {"result"}, call : 1..k, note : Notes]
           \subseteq [kind : {"result"}, call : 1..l, note : Notes]
    BY <2>1
  <2> QED BY <2>3, <2>5, <2>6
<1>2. 1..k \subseteq 1..l
  OBVIOUS
<1> QED BY <1>1, <1>2 DEF Sound

LEMMA PendingCalls ==
    ASSUME NEW k \in Nat, NEW s, Sound(s, k)
    PROVE  Pending(s) \subseteq 1..k /\ IsFiniteSet(Pending(s))
<1>1. Pending(s) \subseteq 1..k
  BY DEF Sound, Pending
<1>2. IsFiniteSet(1..k)
  BY FS_Interval
<1> QED BY <1>1, <1>2, FS_Subset

LEMMA SoundUser ==
    ASSUME NEW k \in Nat, NEW s, Sound(s, k), Pending(s) = {}, NEW m \in {User, Notice}
    PROVE  Sound(Append(s, m), k) /\ Pending(Append(s, m)) = {}
<1> DEFINE t == Append(s, m)
<1>1. s \in History /\ Paired(s) /\ m \in AnyMessage
  BY SoundPaired, MadeMessages DEF Sound
<1>2. t \in History /\ Paired(t) /\ Pending(t) = {}
  BY <1>1, PairedAppended
<1>3. /\ Len(s) \in Nat /\ DOMAIN s = 1..Len(s) /\ DOMAIN t = 1..(Len(s) + 1)
      /\ \A i \in 1..Len(s) : t[i] = s[i]
      /\ t[Len(s) + 1] = m
  BY <1>1, Appended, Lengths
<1> HIDE DEF t
<1>4. \A i \in DOMAIN t : t[i] \in MessageUpTo(k)
  <2>1. m \in MessageUpTo(k)
    BY DEF MessageUpTo
  <2> QED BY <1>3, <2>1 DEF Sound
<1>5. Requested(t) \subseteq 1..k
  <2>1. CallsOf(m) = {}
    BY DEF CallsOf, User, Notice
  <2>2. Requested(t) \subseteq Requested(s)
    BY <1>3, <2>1 DEF Requested
  <2> QED BY <2>2 DEF Sound
<1>6. Apart(t)
  <2>1. CallsOf(m) = {}
    BY DEF CallsOf, User, Notice
  <2> QED BY <1>3, <2>1 DEF Sound, Apart
<1> QED BY <1>2, <1>4, <1>5, <1>6 DEF Sound, Tidy, t

LEMMA ResultsSound ==
    ASSUME NEW k \in Nat, NEW s, Sound(s, k), NEW q \in Seq(Pending(s)), Distinct(q),
           NEW note \in Notes
    PROVE  LET t == WithResults(s, q, note)
           IN  /\ Sound(t, k) /\ Pending(t) = Pending(s) \ ToSet(q)
               /\ Requested(t) = Requested(s) /\ Len(s) <= Len(t)
<1> DEFINE t == WithResults(s, q, note)
<1>1. Pending(s) \subseteq 1..k /\ s \in History
  BY PendingCalls DEF Sound
<1>2. q \in Seq(Nat) /\ \A i \in DOMAIN q : q[i] \in 1..k
  BY <1>1
<1> HIDE DEF t
<1>3. /\ t \in History /\ Len(t) = Len(s) + Len(q)
      /\ \A i \in 1..Len(s) : t[i] = s[i]
      /\ \A i \in (Len(s) + 1)..Len(t) :
            i - Len(s) \in DOMAIN q /\ t[i] = Result(q[i - Len(s)], note)
      /\ Requested(t) = Requested(s)
  BY <1>1, <1>2, ResultsFollow DEF t
<1>4. \A i \in DOMAIN t : t[i] \in MessageUpTo(k)
  <2> SUFFICES ASSUME NEW i \in DOMAIN t
               PROVE  t[i] \in MessageUpTo(k)
    OBVIOUS
  <2>1. i \in 1..Len(t) /\ Len(s) \in Nat /\ DOMAIN s = 1..Len(s) /\ Len(t) \in Nat
    BY <1>1, <1>3, Lengths
  <2>2. CASE i \in 1..Len(s)
    BY <1>3, <2>1, <2>2 DEF Sound
  <2>3. CASE i \in (Len(s) + 1)..Len(t)
    <3>1. q[i - Len(s)] \in 1..k /\ t[i] = Result(q[i - Len(s)], note)
      BY <1>2, <1>3, <2>3
    <3>2. \A c \in 1..k : Result(c, note) \in [kind : {"result"}, call : 1..k, note : Notes]
      BY DEF Result
    <3> QED BY <3>1, <3>2 DEF MessageUpTo
  <2> QED BY <2>1, <2>2, <2>3
<1>5. Tidy(t) /\ Pending(t) = Pending(s) \ ToSet(q)
  <2>1. CASE \E p : OpenAt(s, p)
    <3>1. PICK p : OpenAt(s, p)
      BY <2>1
    <3>2. \A i, j \in DOMAIN q : q[i] = q[j] => i = j
      BY DEF Distinct
    <3>3. OpenAt(t, p) /\ Pending(t) = Pending(s) \ ToSet(q)
      BY <1>1, <3>1, <3>2, ResultsAdded DEF t
    <3> QED BY <3>3 DEF Tidy
  <2>2. CASE Paired(s)
    <3>1. Pending(s) = {}
      BY <1>1, <2>2, AnsweredIsRequested
    <3>2. q = <<>> /\ ToSet(q) = {}
      BY <3>1 DEF ToSet
    <3>3. t \in Seq(AnyMessage) /\ s \in Seq(AnyMessage) /\ Len(t) = Len(s)
      BY <1>1, <1>3, <3>2, Lengths DEF History
    <3>4. t = s
      BY <1>3, <3>3, SeqEqual
    <3> QED BY <2>2, <3>1, <3>2, <3>4 DEF Tidy
  <2> QED BY <2>1, <2>2 DEF Sound, Tidy
<1>6. Sound(t, k)
  <2>1. ASSUME NEW i \in DOMAIN t
        PROVE  \/ i \in DOMAIN s /\ t[i] = s[i]
               \/ CallsOf(t[i]) = {}
    <3>1. i \in 1..Len(t) /\ Len(s) \in Nat /\ DOMAIN s = 1..Len(s) /\ Len(t) \in Nat
      BY <1>1, <1>3, Lengths
    <3>2. CASE i \in (Len(s) + 1)..Len(t)
      <4>1. t[i].kind = "result"
        BY <1>3, <3>2, ResultFields
      <4> QED BY <4>1 DEF CallsOf
    <3> QED BY <1>3, <3>1, <3>2
  <2>2. Apart(t)
    BY <2>1 DEF Sound, Apart
  <2> QED BY <1>3, <1>4, <1>5, <2>2 DEF Sound
<1>7. Len(s) <= Len(t)
  <2>1. Len(s) \in Nat /\ Len(q) \in Nat
    BY <1>1, Lengths
  <2> QED BY <1>3, <2>1
<1> QED BY <1>3, <1>5, <1>6, <1>7 DEF t

\* Closing gives a result to every call that waits, and to no other.
LEMMA CallsClosed ==
    ASSUME NEW k \in Nat, NEW s, Sound(s, k), NEW calls \in Seq(Nat), Distinct(calls),
           ToSet(calls) \ Answered(s) = Pending(s), NEW note \in Notes
    PROVE  LET t == CloseCalls(s, calls, note)
           IN  /\ Sound(t, k) /\ Pending(t) = {} /\ Requested(t) = Requested(s)
               /\ Len(s) <= Len(t)
<1> DEFINE q == Without(calls, Answered(s))
<1>1. q \in Seq(Pending(s)) /\ Distinct(q) /\ ToSet(q) = Pending(s)
  BY WithoutKeeps
<1>2. CloseCalls(s, calls, note) = WithResults(s, q, note)
  BY DEF CloseCalls, WithResults
<1> HIDE DEF q
<1>3. Pending(s) \ ToSet(q) = {}
  BY <1>1
<1> QED BY <1>1, <1>2, <1>3, ResultsSound

LEMMA PendingClosed ==
    ASSUME NEW k \in Nat, NEW s, Sound(s, k)
    PROVE  /\ Sound(ClosePending(s), k) /\ Pending(ClosePending(s)) = {}
           /\ Len(s) <= Len(ClosePending(s))
<1> DEFINE calls == Ascending(Pending(s))
<1>1. Pending(s) \subseteq Nat /\ IsFiniteSet(Pending(s))
  BY PendingCalls
<1>2. calls \in Seq(Nat) /\ Distinct(calls) /\ ToSet(calls) = Pending(s)
  <2>1. calls \in Seq(Pending(s)) /\ Distinct(calls) /\ ToSet(calls) = Pending(s)
    BY <1>1, AscendingIsASeq
  <2> HIDE DEF calls
  <2> QED BY <1>1, <2>1
<1>3. ToSet(calls) \ Answered(s) = Pending(s)
  BY <1>2 DEF Pending
<1> HIDE DEF calls
<1>4. ClosePending(s) = CloseCalls(s, calls, "abandoned")
  BY DEF ClosePending, calls
<1> QED BY <1>2, <1>3, <1>4, CallsClosed DEF Notes

\* A response to whole transactions, its calls numbered from k on.
LEMMA SoundReply ==
    ASSUME NEW k \in Nat, NEW s, Sound(s, k), Pending(s) = {}, NEW n \in 0..MaxCalls,
           NEW text \in BOOLEAN
    PROVE  LET t == Append(s, Assistant(NewCallsFrom(k, n), text))
           IN  /\ Sound(t, k + n) /\ Pending(t) = ToSet(NewCallsFrom(k, n))
               /\ ToSet(NewCallsFrom(k, n)) \subseteq Requested(t)
<1> USE TranscriptAssumption
<1> DEFINE calls == NewCallsFrom(k, n)
           m == Assistant(calls, text)
           t == Append(s, m)
<1>1. n \in Nat /\ s \in History /\ Paired(s)
  BY SoundPaired DEF Sound
<1>2. /\ calls \in Seq(Nat) /\ Len(calls) = n /\ Distinct(calls)
      /\ ToSet(calls) = (k + 1)..(k + n)
  BY <1>1, NewCallsAre
<1>3. m \in MessageUpTo(k + n)
  <2>1. k \in 0..(k + n)
    BY <1>1
  <2>2. calls \in {NewCallsFrom(j, i) : j \in 0..(k + n), i \in 0..MaxCalls}
    BY <2>1
  <2> DEFINE A == {NewCallsFrom(j, i) : j \in 0..(k + n), i \in 0..MaxCalls}
  <2>3. MessageUpTo(k + n) = {User, Notice}
            \cup [kind : {"assistant"}, calls : A, text : BOOLEAN]
            \cup [kind : {"result"}, call : 1..(k + n), note : Notes]
    BY DEF MessageUpTo
  <2> HIDE DEF calls, A
  <2>4. m \in [kind : {"assistant"}, calls : A, text : BOOLEAN]
    BY <2>2 DEF Assistant, A
  <2> QED BY <2>3, <2>4
<1> HIDE DEF calls
<1>4. m \in AnyMessage /\ m.kind = "assistant" /\ m.calls = calls
  BY <1>2, MadeMessages
<1> HIDE DEF m
<1>5. /\ Len(s) \in Nat /\ DOMAIN s = 1..Len(s) /\ DOMAIN t = 1..(Len(s) + 1)
      /\ \A i \in 1..Len(s) : t[i] = s[i]
      /\ t[Len(s) + 1] = m
  BY <1>1, <1>4, Appended, Lengths
<1>6. \A i \in DOMAIN s : CallsOf(s[i]) \cap ToSet(calls) = {}
  <2>1. \A i \in DOMAIN s : CallsOf(s[i]) \subseteq 1..k
    BY DEF Sound, Requested
  <2>2. 1..k \cap (k + 1)..(k + n) = {}
    BY <1>1
  <2> QED BY <1>2, <2>1, <2>2
<1>7. t \in History /\ OpenAt(t, Len(s) + 1) /\ Pending(t) = ToSet(calls)
  <2>1. Cardinality(ToSet(calls)) = Len(calls)
    BY <1>2, DistinctCounts
  <2> QED BY <1>1, <1>2, <1>6, <2>1, ReplyOpens DEF m
<1> HIDE DEF t
<1>8. \A i \in DOMAIN t : t[i] \in MessageUpTo(k + n)
  <2>1. Sound(s, k + n)
    BY <1>1, SoundGrows
  <2> QED BY <1>3, <1>5, <2>1 DEF Sound
<1>9. CallsOf(m) = ToSet(calls)
  BY <1>4 DEF CallsOf
<1>10. Requested(t) \subseteq 1..(k + n) /\ ToSet(calls) \subseteq Requested(t)
  <2>1. Requested(t) = Requested(s) \cup ToSet(calls)
    BY <1>5, <1>9 DEF Requested
  <2>2. Requested(s) \subseteq 1..k
    BY DEF Sound
  <2> QED BY <1>1, <1>2, <2>1, <2>2
<1>11. Apart(t)
  BY <1>5, <1>6, <1>9 DEF Sound, Apart
<1> QED BY <1>7, <1>8, <1>10, <1>11 DEF Sound, Tidy, t, m, calls

\* The calls of a response that is not executed are closed at once, and only once.
LEMMA ReplyClosed ==
    ASSUME NEW k \in Nat, NEW s, Sound(s, k), Pending(s) = {}, NEW n \in 0..MaxCalls,
           NEW text \in BOOLEAN, NEW note \in Notes, NEW again \in Notes
    PROVE  LET calls == NewCallsFrom(k, n)
               t == CloseCalls(Append(s, Assistant(calls, text)), calls, note)
           IN  /\ Sound(t, k + n) /\ Pending(t) = {}
               /\ Sound(CloseCalls(t, calls, again), k + n)
               /\ Len(s) < Len(t) /\ Len(s) < Len(CloseCalls(t, calls, again))
<1> USE TranscriptAssumption
<1> DEFINE calls == NewCallsFrom(k, n)
           r == Append(s, Assistant(calls, text))
           t == CloseCalls(r, calls, note)
<1>1. Sound(r, k + n) /\ Pending(r) = ToSet(calls) /\ ToSet(calls) \subseteq Requested(r)
  BY SoundReply
<1>2. calls \in Seq(Nat) /\ Distinct(calls) /\ k + n \in Nat
  <2>1. n \in Nat
    OBVIOUS
  <2>2. k + n \in Nat
    BY <2>1
  <2>3. calls \in Seq(Nat) /\ Distinct(calls)
    BY <2>1, NewCallsAre
  <2> QED BY <2>2, <2>3
<1> HIDE DEF calls, r, t
<1>3. ToSet(calls) \ Answered(r) = Pending(r)
  BY <1>1 DEF Pending
<1>4. Sound(t, k + n) /\ Pending(t) = {} /\ Requested(t) = Requested(r) /\ Len(r) <= Len(t)
  BY <1>1, <1>2, <1>3, CallsClosed DEF t
<1>5. ToSet(calls) \ Answered(t) = Pending(t)
  BY <1>1, <1>4 DEF Pending
<1>6. Sound(CloseCalls(t, calls, again), k + n) /\ Len(t) <= Len(CloseCalls(t, calls, again))
  BY <1>2, <1>4, <1>5, CallsClosed
<1>7. Len(s) < Len(r)
  <2>1. s \in History /\ Assistant(calls, text) \in AnyMessage
    BY <1>2, MadeMessages DEF Sound
  <2> QED BY <2>1, Appended, Lengths DEF r
<1>8. /\ Len(s) \in Nat /\ Len(r) \in Nat /\ Len(t) \in Nat
      /\ Len(CloseCalls(t, calls, again)) \in Nat
  BY <1>1, <1>4, <1>6, Lengths DEF Sound
<1>9. Len(s) < Len(t) /\ Len(s) < Len(CloseCalls(t, calls, again))
  BY <1>4, <1>6, <1>7, <1>8
<1> QED BY <1>4, <1>6, <1>9 DEF t, r, calls

LEMMA ResultSound ==
    ASSUME NEW k \in Nat, NEW s, Sound(s, k), NEW c \in Pending(s), NEW note \in Notes
    PROVE  LET t == Append(s, Result(c, note))
           IN  Sound(t, k) /\ Pending(t) = Pending(s) \ {c}
<1> DEFINE q == <<c>>
<1>1. q \in Seq(Pending(s)) /\ Distinct(q) /\ ToSet(q) = {c} /\ DOMAIN q = 1..1 /\ q[1] = c
  BY DEF Distinct, ToSet
<1>2. s \in History /\ Result(c, note) \in AnyMessage
  <2>1. c \in Nat
    BY PendingCalls
  <2> QED BY <2>1, MadeMessages DEF Sound, Notes
<1>3. Append(s, Result(c, note)) = WithResults(s, q, note)
  <2>1. Append(s, Result(c, note)) = s \o <<Result(c, note)>>
    BY <1>2, AppendIsConcat DEF History
  <2>2. [i \in DOMAIN q |-> Result(q[i], note)] = <<Result(c, note)>>
    BY <1>1
  <2> HIDE DEF q
  <2> QED BY <2>1, <2>2 DEF WithResults
<1> HIDE DEF q
<1> QED BY <1>1, <1>3, ResultsSound

-----------------------------------------------------------------------------
(* The invariant.                                                           *)

\* What loop and counters may be in each phase.
Bounds ==
    /\ phase \in {"idle", "context", "model", "calls", "executing", "down"}
    /\ issued \in Nat /\ ran \subseteq 1..issued
    /\ iteration \in 0..MaxIterations /\ recoveries \in 0..Recoveries
    /\ phase \in {"context", "calls", "executing"} => iteration < MaxIterations
    /\ phase \in {"idle", "down"} => iteration = 0

\* The history in memory and the one of the session file.
Files ==
    /\ Sound(messages, issued) /\ Sound(saved.messages, issued)
    /\ cursor \in 0..Len(messages) /\ saved.cursor \in 0..Len(saved.messages)
    /\ saved = Snapshot(saved.messages, saved.cursor)

\* The calls still to be handled are those without a result.
Waiting ==
    /\ todo \in Seq(1..issued) /\ Distinct(todo)
    /\ phase \in {"context", "model"} => Pending(messages) = {}
    /\ phase \in {"calls", "executing"} => ToSet(todo) = Pending(messages)
    /\ phase = "executing" => todo # <<>>

TranscriptInv == Bounds /\ Files /\ Waiting

LEMMA EmptyHistory ==
    ASSUME NEW k \in Nat
    PROVE  Sound(<<>>, k) /\ Pending(<<>>) = {} /\ Len(<<>>) = 0
<1>1. <<>> \in History /\ DOMAIN <<>> = {} /\ Len(<<>>) = 0
  BY DEF History
<1>2. Requested(<<>>) = {} /\ Results(<<>>) = {}
  BY <1>1 DEF Requested, Results
<1>3. Paired(<<>>)
  BY <1>1, <1>2, PairedMeans
<1> QED BY <1>1, <1>2, <1>3 DEF Sound, Apart, Tidy, Pending

LEMMA NothingToDo ==
    \A k : <<>> \in Seq(1..k) /\ Distinct(<<>>) /\ ToSet(<<>>) = {}
BY DEF Distinct, ToSet

LEMMA SeqOfMembers ==
    ASSUME NEW S, NEW T, NEW q \in Seq(S), \A i \in DOMAIN q : q[i] \in T
    PROVE  q \in Seq(T)
OBVIOUS

LEMMA TranscriptInit ==
    ASSUME TranscriptAssumption, Init
    PROVE  TranscriptInv
<1>1. Bounds
  BY DEF Init, TranscriptAssumption, Bounds
<1>2. Files
  <2>1. Sound(<<>>, issued) /\ Len(<<>>) = 0
    BY EmptyHistory DEF Init
  <2>2. saved.messages = <<>> /\ saved.cursor = 0
    BY DEF Init, Snapshot
  <2> QED BY <2>1, <2>2 DEF Init, Files
<1>3. Waiting
  BY NothingToDo, EmptyHistory DEF Init, Waiting
<1> QED BY <1>1, <1>2, <1>3 DEF TranscriptInv

LEMMA TurnEnds ==
    ASSUME TranscriptAssumption, TranscriptInv, NEW history, EndTurn(history),
           issued' \in Nat, issued <= issued', ran' = ran,
           Sound(history, issued'), Len(messages) <= Len(history)
    PROVE  TranscriptInv'
<1>1. /\ phase' = "idle" /\ todo' = <<>> /\ iteration' = 0 /\ recoveries' = 0
      /\ messages' = history /\ cursor' = cursor
      /\ saved'.messages = history /\ saved'.cursor = cursor
      /\ saved' = Snapshot(history, cursor)
  BY DEF EndTurn, Snapshot
<1>2. Bounds'
  <2>1. 1..issued \subseteq 1..issued'
    BY DEF TranscriptInv, Bounds
  <2> QED BY <1>1, <2>1 DEF TranscriptInv, Bounds, TranscriptAssumption
<1>3. Files'
  <2>1. cursor \in 0..Len(history)
    BY Lengths DEF TranscriptInv, Files, Sound
  <2> QED BY <1>1, <2>1 DEF Files
<1>4. Waiting'
  BY <1>1, NothingToDo DEF Waiting
<1> QED BY <1>2, <1>3, <1>4 DEF TranscriptInv

\* A step that only goes on with the turn.
LEMMA TurnGoesOn ==
    ASSUME TranscriptAssumption, TranscriptInv, UNCHANGED <<cursor, saved>>,
           Bounds', Waiting', issued <= issued',
           Sound(messages', issued'), Len(messages) <= Len(messages')
    PROVE  TranscriptInv'
<1>1. issued \in Nat /\ issued' \in Nat
  BY DEF TranscriptInv, Bounds
<1>2. Sound(saved.messages, issued')
  BY <1>1, SoundGrows DEF TranscriptInv, Files
<1>3. cursor \in 0..Len(messages')
  BY Lengths DEF TranscriptInv, Files, Sound
<1> QED BY <1>2, <1>3 DEF TranscriptInv, Files

LEMMA StartTurnStep ==
    ASSUME TranscriptAssumption, TranscriptInv, StartTurn
    PROVE  TranscriptInv'
<1> DEFINE s == ClosePending(messages)
<1>1. issued \in Nat /\ Sound(messages, issued)
  BY DEF TranscriptInv, Bounds, Files
<1>2. Sound(s, issued) /\ Pending(s) = {} /\ Len(messages) <= Len(s)
  BY <1>1, PendingClosed
<1>3. Sound(messages', issued) /\ Pending(messages') = {} /\ Len(messages) <= Len(messages')
  <2> HIDE DEF s
  <2>1. messages' = Append(s, User)
    BY DEF StartTurn, s
  <2>2. Sound(messages', issued) /\ Pending(messages') = {}
    BY <1>1, <1>2, <2>1, SoundUser
  <2>3. Len(messages') = Len(s) + 1 /\ Len(s) \in Nat /\ Len(messages) \in Nat
    BY <1>1, <1>2, <2>1, Appended, MadeMessages, Lengths DEF Sound
  <2> QED BY <1>2, <2>2, <2>3
<1>4. Bounds' /\ issued' = issued
  BY DEF StartTurn, inTurn, TranscriptInv, Bounds, TranscriptAssumption
<1>5. Waiting'
  BY <1>3 DEF StartTurn, TranscriptInv, Waiting
<1> QED BY <1>1, <1>3, <1>4, <1>5, TurnGoesOn DEF StartTurn

LEMMA SendStep ==
    ASSUME TranscriptAssumption, TranscriptInv, SendWorkingCopy
    PROVE  TranscriptInv'
<1>1. issued \in Nat /\ Sound(messages, issued) /\ Len(messages) \in Nat
  BY Lengths DEF TranscriptInv, Bounds, Files, Sound
<1>2. Bounds' /\ issued' = issued
  BY DEF SendWorkingCopy, world, TranscriptInv, Bounds, TranscriptAssumption
<1>3. Waiting'
  BY DEF SendWorkingCopy, world, TranscriptInv, Waiting
<1> QED BY <1>1, <1>2, <1>3, TurnGoesOn DEF SendWorkingCopy

LEMMA TurnCutShort ==
    ASSUME TranscriptAssumption, TranscriptInv, EndTurn(messages), UNCHANGED world
    PROVE  TranscriptInv'
<1>1. /\ issued \in Nat /\ Sound(messages, issued) /\ Len(messages) \in Nat
      /\ issued' = issued /\ ran' = ran
  BY Lengths DEF TranscriptInv, Bounds, Files, Sound, world
<1> QED BY <1>1, TurnEnds

LEMMA RespondStep ==
    ASSUME TranscriptAssumption, TranscriptInv, Respond
    PROVE  TranscriptInv'
<1>0. PICK n \in 0..(MaxCalls - issued) : \E text \in (IF n = 0 THEN {TRUE} ELSE Texts) :
          \/ RespondCalls(n, text) \/ RespondStop(n, text)
          \/ RespondTruncated(n, text) \/ RespondLateCalls(n, text)
  BY DEF Respond
<1>1. PICK text \in (IF n = 0 THEN {TRUE} ELSE Texts) :
          \/ RespondCalls(n, text) \/ RespondStop(n, text)
          \/ RespondTruncated(n, text) \/ RespondLateCalls(n, text)
  BY <1>0
<1> DEFINE calls == NewCallsFrom(issued, n)
           r == Append(messages, Assistant(calls, text))
<1>2. /\ issued \in Nat /\ n \in 0..MaxCalls /\ n \in Nat /\ text \in BOOLEAN
      /\ Sound(messages, issued)
  <2>1. issued \in Nat /\ MaxCalls \in Nat /\ Texts \subseteq BOOLEAN /\ Sound(messages, issued)
    BY DEF TranscriptInv, Bounds, Files, TranscriptAssumption
  <2>2. n \in 0..MaxCalls /\ n \in Nat
    BY <2>1
  <2>3. text \in BOOLEAN
    BY <2>1
  <2> QED BY <2>1, <2>2, <2>3
<1>3. phase = "model" /\ Pending(messages) = {} /\ issued' = issued + n
  BY <1>1 DEF RespondCalls, RespondStop, RespondTruncated, RespondLateCalls, TranscriptInv, Waiting
<1>4. issued' \in Nat /\ issued <= issued' /\ 1..issued \subseteq 1..issued'
  BY <1>2, <1>3
<1>5. r = Reply(n, text) /\ calls = NewCalls(n)
  BY DEF Reply, NewCalls
<1>6. \A note \in Notes, again \in Notes :
          LET t == CloseCalls(r, calls, note)
          IN  /\ Sound(t, issued') /\ Pending(t) = {}
              /\ Sound(CloseCalls(t, calls, again), issued')
              /\ Len(messages) <= Len(t) /\ Len(messages) <= Len(CloseCalls(t, calls, again))
  <2> SUFFICES ASSUME NEW note \in Notes, NEW again \in Notes
               PROVE  LET t == CloseCalls(r, calls, note)
                      IN  /\ Sound(t, issued') /\ Pending(t) = {}
                          /\ Sound(CloseCalls(t, calls, again), issued')
                          /\ Len(messages) <= Len(t)
                          /\ Len(messages) <= Len(CloseCalls(t, calls, again))
    OBVIOUS
  <2> DEFINE t == CloseCalls(r, calls, note)
             u == CloseCalls(t, calls, again)
  <2>1. /\ Sound(t, issued') /\ Pending(t) = {} /\ Sound(u, issued')
        /\ Len(messages) < Len(t) /\ Len(messages) < Len(u)
    BY <1>2, <1>3, ReplyClosed
  <2> HIDE DEF t, u
  <2>2. Len(messages) \in Nat /\ Len(t) \in Nat /\ Len(u) \in Nat
    BY <1>2, <2>1, Lengths DEF Sound
  <2>3. Len(messages) <= Len(t) /\ Len(messages) <= Len(u)
    BY <2>1, <2>2
  <2> QED BY <2>1, <2>3 DEF t, u
<1>7. CASE RespondCalls(n, text)
  <2>1. /\ Sound(r, issued') /\ Pending(r) = ToSet(calls)
    BY <1>2, <1>3, SoundReply
  <2>2. calls \in Seq(1..issued') /\ Distinct(calls)
    <3>1. calls \in Seq(Nat) /\ Distinct(calls) /\ ToSet(calls) = (issued + 1)..(issued + n)
      BY <1>2, NewCallsAre
    <3> HIDE DEF calls
    <3>2. \A i \in DOMAIN calls : calls[i] \in 1..issued'
      <4> SUFFICES ASSUME NEW i \in DOMAIN calls
                   PROVE  calls[i] \in 1..issued'
        OBVIOUS
      <4>1. calls[i] \in (issued + 1)..(issued + n)
        BY <3>1 DEF ToSet
      <4> QED BY <1>2, <1>3, <4>1
    <3> QED BY <3>1, <3>2, SeqOfMembers
  <2>3. messages' = r /\ todo' = calls /\ phase' = "calls"
    BY <1>5, <1>7 DEF RespondCalls
  <2>4. Len(messages) <= Len(r)
    <3>1. messages \in History /\ Assistant(calls, text) \in AnyMessage
      BY <1>2, <2>2, MadeMessages, NewCallsAre DEF Sound
    <3> QED BY <3>1, Appended, Lengths
  <2> HIDE DEF calls, r
  <2>5. Bounds'
    BY <1>4, <1>7, <2>3 DEF RespondCalls, TranscriptInv, Bounds
  <2>6. Waiting'
    BY <2>1, <2>2, <2>3 DEF Waiting
  <2> QED BY <1>4, <1>7, <2>1, <2>3, <2>4, <2>5, <2>6, TurnGoesOn DEF RespondCalls
<1> HIDE DEF calls, r
<1>8. CASE RespondStop(n, text)
  <2>1. EndTurn(CloseCalls(r, calls, "stopped")) /\ ran' = ran
    BY <1>5, <1>8 DEF RespondStop
  <2>2. "stopped" \in Notes
    BY DEF Notes
  <2> QED BY <1>4, <1>6, <2>1, <2>2, TurnEnds
<1>9. CASE RespondLateCalls(n, text)
  <2>1. EndTurn(CloseCalls(r, calls, "withheld")) /\ ran' = ran
    BY <1>5, <1>9 DEF RespondLateCalls
  <2>2. "withheld" \in Notes
    BY DEF Notes
  <2> QED BY <1>4, <1>6, <2>1, <2>2, TurnEnds
<1>10. CASE RespondTruncated(n, text)
  <2> DEFINE t == CloseCalls(r, calls, "withheld")
  <2>1. "stopped" \in Notes /\ "withheld" \in Notes
    BY DEF Notes
  <2>2. /\ Sound(t, issued') /\ Pending(t) = {} /\ Len(messages) <= Len(t)
        /\ Sound(CloseCalls(t, calls, "stopped"), issued')
        /\ Len(messages) <= Len(CloseCalls(t, calls, "stopped"))
    BY <1>6, <2>1
  <2>3. CASE EndTurn(CloseCalls(t, calls, "stopped"))
    <3>1. ran' = ran
      BY <1>10 DEF RespondTruncated
    <3> HIDE DEF t
    <3> QED BY <1>4, <2>2, <2>3, <3>1, TurnEnds
  <2>4. CASE /\ messages' = Append(t, Notice)
             /\ recoveries' = recoveries + 1
             /\ phase' = "context" /\ request' = <<>>
             /\ UNCHANGED <<cursor, todo, iteration, saved>>
    <3> HIDE DEF t
    <3>1. Sound(messages', issued') /\ Pending(messages') = {}
      BY <1>4, <2>2, <2>4, SoundUser
    <3>2. Len(messages) <= Len(messages')
      <4>1. Len(messages') = Len(t) + 1 /\ Len(t) \in Nat /\ Len(messages) \in Nat
        BY <1>2, <2>2, <2>4, Appended, MadeMessages, Lengths DEF Sound
      <4> QED BY <2>2, <4>1
    <3>3. Bounds'
      BY <1>4, <1>10, <2>4 DEF RespondTruncated, TranscriptInv, Bounds, TranscriptAssumption
    <3>4. Waiting'
      <4>1. todo \in Seq(1..issued')
        <5>1. todo \in Seq(1..issued)
          BY DEF TranscriptInv, Waiting
        <5>2. \A i \in DOMAIN todo : todo[i] \in 1..issued'
          <6> SUFFICES ASSUME NEW i \in DOMAIN todo
                       PROVE  todo[i] \in 1..issued'
            OBVIOUS
          <6>1. todo[i] \in 1..issued
            BY <1>2, <5>1
          <6> QED BY <1>4, <6>1
        <5> QED BY <5>1, <5>2, SeqOfMembers
      <4> QED BY <2>4, <3>1, <4>1 DEF TranscriptInv, Waiting
    <3> QED BY <1>4, <2>4, <3>1, <3>2, <3>3, <3>4, TurnGoesOn
  <2> QED BY <1>5, <1>10, <2>3, <2>4 DEF RespondTruncated
<1> QED BY <1>1, <1>7, <1>8, <1>9, <1>10

\* The call handled first is one of those that wait, and the others are the rest.
LEMMA HeadIsPending ==
    ASSUME TranscriptInv, phase \in {"calls", "executing"}, todo # <<>>
    PROVE  /\ Head(todo) \in Pending(messages)
           /\ Tail(todo) \in Seq(1..issued) /\ Distinct(Tail(todo))
           /\ ToSet(Tail(todo)) = Pending(messages) \ {Head(todo)}
<1>1. todo \in Seq(1..issued) /\ Distinct(todo) /\ ToSet(todo) = Pending(messages)
  BY DEF TranscriptInv, Waiting
<1>2. /\ Len(todo) \in Nat /\ Len(todo) > 0 /\ DOMAIN todo = 1..Len(todo)
      /\ Head(todo) = todo[1] /\ Tail(todo) \in Seq(1..issued)
      /\ Len(Tail(todo)) = Len(todo) - 1
      /\ \A i \in 1..Len(Tail(todo)) : Tail(todo)[i] = todo[i + 1]
  BY <1>1, HeadTailProperties
<1> DEFINE t == Tail(todo)
<1>3. DOMAIN t = 1..(Len(todo) - 1)
  BY <1>2
<1> HIDE DEF t
<1>4. \A i \in DOMAIN t : i + 1 \in DOMAIN todo /\ i + 1 # 1 /\ t[i] = todo[i + 1]
  BY <1>2, <1>3 DEF t
<1>5. 1 \in DOMAIN todo
  BY <1>2
<1>6. Distinct(t)
  <2> SUFFICES ASSUME NEW i \in DOMAIN t, NEW j \in DOMAIN t, t[i] = t[j]
               PROVE  i = j
    BY DEF Distinct
  <2>1. i + 1 = j + 1
    BY <1>1, <1>4 DEF Distinct
  <2>2. i \in Int /\ j \in Int
    BY <1>3
  <2> QED BY <2>1, <2>2
<1>7. ToSet(t) = ToSet(todo) \ {Head(todo)}
  <2>1. ASSUME NEW i \in DOMAIN t
        PROVE  t[i] \in ToSet(todo) /\ t[i] # Head(todo)
    BY <1>1, <1>2, <1>4, <1>5 DEF Distinct, ToSet
  <2>2. ASSUME NEW c \in ToSet(todo), c # Head(todo)
        PROVE  c \in ToSet(t)
    <3>1. PICK i \in DOMAIN todo : todo[i] = c
      BY DEF ToSet
    <3>2. i - 1 \in DOMAIN t /\ (i - 1) + 1 = i
      BY <1>2, <1>3, <2>2, <3>1
    <3>3. t[i - 1] = c
      BY <1>4, <3>1, <3>2
    <3> QED BY <3>2, <3>3 DEF ToSet
  <2> QED BY <2>1, <2>2 DEF ToSet
<1> QED BY <1>1, <1>2, <1>5, <1>6, <1>7 DEF t, ToSet

\* The first call gets its result.
LEMMA CallHandled ==
    ASSUME TranscriptAssumption, TranscriptInv, phase \in {"calls", "executing"}, todo # <<>>,
           NEW note \in Notes, messages' = Append(messages, Result(Head(todo), note)),
           todo' = Tail(todo), phase' = "calls", UNCHANGED <<cursor, inTurn, saved, world>>
    PROVE  TranscriptInv'
<1>1. issued \in Nat /\ Sound(messages, issued) /\ issued' = issued /\ ran' = ran
  BY DEF TranscriptInv, Bounds, Files, world
<1>2. /\ Head(todo) \in Pending(messages)
      /\ Tail(todo) \in Seq(1..issued) /\ Distinct(Tail(todo))
      /\ ToSet(Tail(todo)) = Pending(messages) \ {Head(todo)}
  BY HeadIsPending
<1>3. /\ Sound(messages', issued)
      /\ Pending(messages') = Pending(messages) \ {Head(todo)}
  BY <1>1, <1>2, ResultSound
<1>4. Len(messages) <= Len(messages')
  <2>1. messages \in History /\ Result(Head(todo), note) \in AnyMessage
    <3>1. Head(todo) \in Nat
      BY <1>1, <1>2, PendingCalls
    <3> QED BY <1>1, <3>1, MadeMessages DEF Sound, Notes
  <2> QED BY <2>1, Appended, Lengths
<1>5. Bounds'
  BY <1>1 DEF TranscriptInv, Bounds, inTurn
<1>6. Waiting'
  BY <1>1, <1>2, <1>3 DEF Waiting
<1> QED BY <1>1, <1>3, <1>4, <1>5, <1>6, TurnGoesOn

LEMMA CallStep ==
    ASSUME TranscriptAssumption, TranscriptInv, RefuseCall \/ StartTool \/ FinishTool
    PROVE  TranscriptInv'
<1>1. CASE RefuseCall
  <2>1. "refused" \in Notes
    BY DEF Notes
  <2> QED BY <1>1, <2>1, CallHandled DEF RefuseCall
<1>2. CASE FinishTool
  <2>1. "ran" \in Notes /\ todo # <<>>
    BY <1>2 DEF Notes, FinishTool, TranscriptInv, Waiting
  <2> QED BY <1>2, <2>1, CallHandled DEF FinishTool, world
<1>3. CASE StartTool
  <2>1. /\ issued \in Nat /\ Sound(messages, issued) /\ issued' = issued
        /\ messages' = messages /\ Len(messages) \in Nat
    BY <1>3, Lengths DEF TranscriptInv, Bounds, Files, Sound, StartTool
  <2>2. Head(todo) \in 1..issued
    <3>1. Head(todo) \in Pending(messages)
      BY <1>3, HeadIsPending DEF StartTool
    <3> QED BY <2>1, <3>1, PendingCalls
  <2>3. Bounds'
    BY <1>3, <2>2 DEF StartTool, inTurn, TranscriptInv, Bounds
  <2>4. Waiting'
    BY <1>3 DEF StartTool, TranscriptInv, Waiting
  <2> QED BY <1>3, <2>1, <2>3, <2>4, TurnGoesOn DEF StartTool
<1> QED BY <1>1, <1>2, <1>3

LEMMA EndIterationStep ==
    ASSUME TranscriptAssumption, TranscriptInv, EndIteration
    PROVE  TranscriptInv'
<1>1. /\ issued \in Nat /\ Sound(messages, issued) /\ issued' = issued /\ ran' = ran
      /\ Len(messages) \in Nat /\ phase = "calls"
  BY Lengths DEF TranscriptInv, Bounds, Files, Sound, EndIteration, world
<1>2. CASE EndTurn(messages)
  BY <1>2, TurnCutShort DEF EndIteration
<1>3. CASE /\ phase' = "context"
           /\ messages' \in {messages, Append(messages, Notice)}
           /\ UNCHANGED <<cursor, todo, inTurn, saved>>
  <2>1. Pending(messages) = {}
    <3>1. ToSet(todo) = {}
      BY NothingToDo DEF EndIteration
    <3> QED BY <1>1, <3>1 DEF TranscriptInv, Waiting
  <2>2. Sound(messages', issued) /\ Pending(messages') = {} /\ Len(messages) <= Len(messages')
    <3>1. CASE messages' = messages
      BY <1>1, <2>1, <3>1
    <3>2. CASE messages' = Append(messages, Notice)
      <4>1. Sound(messages', issued) /\ Pending(messages') = {}
        BY <1>1, <2>1, <3>2, SoundUser
      <4>2. Len(messages') = Len(messages) + 1
        BY <1>1, <3>2, Appended, MadeMessages DEF Sound
      <4> QED BY <1>1, <4>1, <4>2
    <3> QED BY <1>3, <3>1, <3>2
  <2>3. Bounds'
    BY <1>1, <1>3 DEF TranscriptInv, Bounds, inTurn
  <2>4. Waiting'
    BY <1>1, <1>3, <2>2 DEF TranscriptInv, Waiting
  <2> QED BY <1>1, <1>3, <2>2, <2>3, <2>4, TurnGoesOn
<1> QED BY <1>2, <1>3 DEF EndIteration

LEMMA ProcessStep ==
    ASSUME TranscriptAssumption, TranscriptInv, Die \/ Restore
    PROVE  TranscriptInv'
<1>1. /\ issued \in Nat /\ issued' = issued /\ ran' = ran
      /\ Sound(saved.messages, issued) /\ saved.cursor \in 0..Len(saved.messages)
      /\ Len(saved.messages) \in Nat /\ saved = Snapshot(saved.messages, saved.cursor)
  BY Lengths DEF TranscriptInv, Bounds, Files, Sound, Die, Restore, Resume, ResumeForRevision,
                 RestoreRefused, Reopen, world
<1>2. CASE Die
  <2>1. Bounds'
    BY <1>1, <1>2 DEF Die, TranscriptInv, Bounds, TranscriptAssumption
  <2>2. Files'
    <3>1. Sound(<<>>, issued) /\ Len(<<>>) = 0
      BY <1>1, EmptyHistory
    <3> QED BY <1>1, <1>2, <3>1 DEF Die, Files
  <2>3. Waiting'
    BY <1>1, <1>2, NothingToDo DEF Die, Waiting
  <2> QED BY <2>1, <2>2, <2>3 DEF TranscriptInv
<1>3. ASSUME NEW at \in 0..Len(saved.messages), Reopen(at)
      PROVE  TranscriptInv'
  <2>1. Bounds'
    BY <1>1, <1>3 DEF Reopen, inTurn, TranscriptInv, Bounds
  <2>2. Files'
    BY <1>1, <1>3 DEF Reopen, Files
  <2>3. Waiting'
    BY <1>1, <1>3 DEF Reopen, TranscriptInv, Waiting
  <2> QED BY <2>1, <2>2, <2>3 DEF TranscriptInv
<1>4. CASE RestoreRefused
  <2>1. /\ saved'.messages = saved.messages /\ saved'.cursor = 0
        /\ saved' = Snapshot(saved.messages, 0)
    BY <1>1, <1>4 DEF RestoreRefused, Snapshot
  <2>2. Bounds'
    BY <1>1, <1>4 DEF RestoreRefused, inTurn, world, TranscriptInv, Bounds
  <2>3. Files'
    BY <1>1, <1>4, <2>1 DEF RestoreRefused, TranscriptInv, Files
  <2>4. Waiting'
    BY <1>1, <1>4 DEF RestoreRefused, TranscriptInv, Waiting
  <2> QED BY <2>2, <2>3, <2>4 DEF TranscriptInv
<1>5. Len(saved.messages) \in 0..Len(saved.messages)
  BY <1>1
<1> QED BY <1>1, <1>2, <1>3, <1>4, <1>5 DEF Restore, Resume, ResumeForRevision

-----------------------------------------------------------------------------
(* Where a compaction cuts.                                                 *)

\* The positions that the working copy of s shows.
Keeps(s) ==
    LET hidden == Hidden(s)
    IN {i \in DOMAIN s :
          \/ IsUser(s[i])
          \/ s[i].kind = "assistant" /\ (s[i].text \/ ~(CallsOf(s[i]) \subseteq hidden))
          \/ s[i].kind = "result" /\ s[i].call \notin hidden}

LEMMA ActiveIs ==
    ASSUME messages \in History, cursor \in 0..Len(messages)
    PROVE  /\ Active \in History /\ Len(Active) = Len(messages) - cursor
           /\ DOMAIN Active = 1..(Len(messages) - cursor)
           /\ \A i \in DOMAIN Active :
                 cursor + i \in DOMAIN messages /\ Active[i] = messages[cursor + i]
<1>1. /\ Len(messages) \in Nat /\ DOMAIN messages = 1..Len(messages)
      /\ \A i \in 1..Len(messages) : messages[i] \in AnyMessage
  BY Lengths
<1>2. /\ Len(Active) = Len(messages) - cursor
      /\ DOMAIN Active = 1..(Len(messages) - cursor)
      /\ \A i \in DOMAIN Active : Active[i] = messages[cursor + i]
  <2>1. cursor + 1 \in 1..(Len(messages) + 1) /\ Len(messages) \in 0..Len(messages)
    BY <1>1
  <2>2. messages \in Seq(AnyMessage)
    BY DEF History
  <2>3. /\ Len(Active) = Len(messages) - (cursor + 1) + 1
        /\ \A i \in 1..(Len(messages) - (cursor + 1) + 1) :
              Active[i] = messages[(cursor + 1) + i - 1]
    BY <2>1, <2>2, SubSeqProperties DEF Active
  <2>4. Active \in Seq(AnyMessage)
    BY <2>1, <2>2, SubSeqProperties DEF Active
  <2>5. DOMAIN Active = 1..(Len(messages) - cursor) /\ Len(Active) = Len(messages) - cursor
    BY <1>1, <2>3, <2>4
  <2>6. \A i \in 1..(Len(messages) - cursor) : Active[i] = messages[cursor + i]
    <3> SUFFICES ASSUME NEW i \in 1..(Len(messages) - cursor)
                 PROVE  Active[i] = messages[cursor + i]
      OBVIOUS
    <3>1. i \in 1..(Len(messages) - (cursor + 1) + 1) /\ (cursor + 1) + i - 1 = cursor + i
      BY <1>1
    <3> QED BY <2>3, <3>1
  <2> QED BY <2>5, <2>6
<1>3. \A i \in DOMAIN Active : cursor + i \in DOMAIN messages
  BY <1>1, <1>2
<1>4. Active \in History
  <2>1. Active \in Seq(AnyMessage)
    BY <1>1, SubSeqProperties DEF Active, History
  <2> QED BY <2>1 DEF History
<1> QED BY <1>2, <1>3, <1>4

LEMMA FinitePositions ==
    ASSUME NEW s \in History, NEW S \in SUBSET (DOMAIN s)
    PROVE  IsFiniteSet(S) /\ S \subseteq Nat /\ S \subseteq Int
<1>1. IsFiniteSet(1..Len(s)) /\ DOMAIN s = 1..Len(s) /\ Len(s) \in Nat
  BY Lengths, FS_Interval
<1> QED BY <1>1, FS_Subset

LEMMA ShownAre ==
    ASSUME NEW s \in History
    PROVE  /\ Shown(s) \in Seq(Keeps(s)) /\ Keeps(s) \subseteq DOMAIN s
           /\ \A i \in Keeps(s) : \E k \in DOMAIN Shown(s) : Shown(s)[k] = i
           /\ \A k, l \in DOMAIN Shown(s) : k < l <=> Shown(s)[k] < Shown(s)[l]
<1> DEFINE S == Keeps(s)
           q == Shown(s)
<1>1. q = Ascending(S)
  BY DEF Shown, Keeps
<1>2. S \subseteq DOMAIN s
  BY DEF Keeps
<1> HIDE DEF S, q
<1>3. IsFiniteSet(S) /\ S \subseteq Int
  BY <1>2, FinitePositions
<1>4. /\ Cardinality(S) \in Nat /\ q \in Seq(S) /\ Len(q) = Cardinality(S)
      /\ \A i \in S : \E k \in 1..Cardinality(S) : q[k] = i
      /\ \A k, l \in 1..Cardinality(S) : k < l <=> q[k] < q[l]
  BY <1>1, <1>3, AscendingLists
<1>5. DOMAIN q = 1..Cardinality(S)
  BY <1>4
<1> QED BY <1>2, <1>4, <1>5 DEF S, q

\* The calls of every message are different ones.
Regular(s) == s \in History /\ \A i \in DOMAIN s : s[i].kind = "assistant" => Distinct(s[i].calls)

LEMMA SoundRegular ==
    ASSUME TranscriptAssumption, NEW k \in Nat, NEW s, Sound(s, k)
    PROVE  Regular(s)
<1> SUFFICES ASSUME NEW i \in DOMAIN s, s[i].kind = "assistant"
             PROVE  Distinct(s[i].calls)
  BY DEF Sound, Regular
<1>1. s[i] \in MessageUpTo(k)
  BY DEF Sound
<1>2. s[i].calls \in {NewCallsFrom(j, n) : j \in 0..k, n \in 0..MaxCalls}
  <2> DEFINE A == {NewCallsFrom(j, n) : j \in 0..k, n \in 0..MaxCalls}
  <2>1. MessageUpTo(k) = {User, Notice}
            \cup [kind : {"assistant"}, calls : A, text : BOOLEAN]
            \cup [kind : {"result"}, call : 1..k, note : Notes]
    BY DEF MessageUpTo
  <2> HIDE DEF A
  <2>2. s[i] \in [kind : {"assistant"}, calls : A, text : BOOLEAN]
    BY <1>1, <2>1 DEF User, Notice
  <2> QED BY <2>2 DEF A
<1>3. PICK j \in 0..k, n \in 0..MaxCalls : s[i].calls = NewCallsFrom(j, n)
  BY <1>2
<1>4. j \in Nat /\ n \in Nat
  BY DEF TranscriptAssumption
<1>5. Distinct(NewCallsFrom(j, n))
  BY <1>4, NewCallsAre
<1> QED BY <1>3, <1>5, Zenon

LEMMA TrimIs ==
    ASSUME NEW m \in AnyMessage, m.kind = "assistant" => Distinct(m.calls), NEW hidden
    PROVE  /\ Trim(m, hidden) \in AnyMessage /\ Trim(m, hidden).kind = m.kind
           /\ m.kind = "assistant" =>
                 Trim(m, hidden).calls = Without(m.calls, hidden)
           /\ m.kind # "assistant" => Trim(m, hidden) = m
<1>1. CASE m.kind = "assistant"
  <2>1. m \in [kind : {"assistant"}, calls : Seq(Nat), text : BOOLEAN] /\ m.calls \in Seq(Nat)
    BY <1>1 DEF AnyMessage, User, Notice
  <2> DEFINE q == Without(m.calls, hidden)
  <2>2. q \in Seq(Nat)
    <3>1. q \in Seq(ToSet(m.calls) \ hidden)
      BY <1>1, <2>1, WithoutKeeps
    <3>2. ToSet(m.calls) \subseteq Nat
      BY <2>1 DEF ToSet
    <3> HIDE DEF q
    <3>3. \A i \in DOMAIN q : q[i] \in Nat
      BY <3>1, <3>2
    <3> QED BY <3>1, <3>3, SeqOfMembers
  <2>3. Trim(m, hidden) = [m EXCEPT !.calls = q]
    BY <1>1 DEF Trim
  <2> HIDE DEF q
  <2>4. /\ [m EXCEPT !.calls = q] \in [kind : {"assistant"}, calls : Seq(Nat), text : BOOLEAN]
        /\ [m EXCEPT !.calls = q].calls = q
    BY <2>1, <2>2
  <2> QED BY <1>1, <2>3, <2>4 DEF AnyMessage, q
<1>2. CASE m.kind # "assistant"
  BY <1>2 DEF Trim
<1> QED BY <1>1, <1>2

\* The messages of s that are shown, without the calls that are hidden.
Trimmed(s) == LET shown == Shown(s) IN [k \in DOMAIN shown |-> Trim(s[shown[k]], Hidden(s))]

LEMMA TrimmedIs ==
    ASSUME NEW s, Regular(s)
    PROVE  LET shown == Shown(s)
               w == Trimmed(s)
           IN  /\ w \in History /\ DOMAIN w = DOMAIN shown /\ Len(w) = Len(shown)
               /\ \A k \in DOMAIN shown :
                     /\ shown[k] \in Keeps(s) /\ shown[k] \in DOMAIN s
                     /\ w[k] = Trim(s[shown[k]], Hidden(s))
                     /\ w[k].kind = s[shown[k]].kind
<1> DEFINE shown == Shown(s)
           w == Trimmed(s)
<1>1. /\ s \in History
      /\ \A i \in DOMAIN s : s[i] \in AnyMessage
      /\ \A i \in DOMAIN s : s[i].kind = "assistant" => Distinct(s[i].calls)
  BY Lengths DEF Regular
<1>2. shown \in Seq(Keeps(s)) /\ Keeps(s) \subseteq DOMAIN s
  BY <1>1, ShownAre
<1>3. w = [k \in DOMAIN shown |-> Trim(s[shown[k]], Hidden(s))]
  BY DEF Trimmed
<1> HIDE DEF shown, w
<1>4. ASSUME NEW k \in DOMAIN shown
      PROVE  /\ shown[k] \in Keeps(s) /\ shown[k] \in DOMAIN s
             /\ w[k] = Trim(s[shown[k]], Hidden(s))
             /\ w[k] \in AnyMessage /\ w[k].kind = s[shown[k]].kind
  <2>1. shown[k] \in Keeps(s) /\ shown[k] \in DOMAIN s
    BY <1>2
  <2>2. w[k] = Trim(s[shown[k]], Hidden(s))
    BY <1>3
  <2> QED BY <1>1, <2>1, <2>2, TrimIs
<1>5. Len(shown) \in Nat /\ DOMAIN shown = 1..Len(shown)
  BY <1>2
<1>6. w \in History /\ Len(w) = Len(shown) /\ DOMAIN w = DOMAIN shown
  BY <1>3, <1>4, <1>5 DEF History
<1> QED BY <1>4, <1>6 DEF shown, w

LEMMA WorkingCopyIs ==
    ASSUME Regular(messages), cursor \in 0..Len(messages)
    PROVE  WorkingCopy = Trimmed(Active) /\ Regular(Active)
<1>1. WorkingCopy = Trimmed(Active)
  BY DEF WorkingCopy, Trimmed
<1> QED BY <1>1, ActiveIs DEF Regular

LEMMA FromEndIsIn ==
    ASSUME NEW S, IsFiniteSet(S), S \subseteq Nat, S # {}, NEW k \in Nat \ {0}
    PROVE  FromEnd(S, k) \in S
<1> DEFINE q == Ascending(S)
<1>1. q \in Seq(S) /\ ToSet(q) = S
  BY AscendingIsASeq
<1> HIDE DEF q
<1>2. Len(q) \in Nat /\ DOMAIN q = 1..Len(q)
  BY <1>1
<1>3. Len(q) >= 1
  <2>1. PICK i \in DOMAIN q : q[i] \in S
    BY <1>1 DEF ToSet
  <2> QED BY <1>2
<1>4. (Len(q) >= k => Len(q) - k + 1 \in DOMAIN q) /\ 1 \in DOMAIN q
  BY <1>2, <1>3
<1>5. FromEnd(S, k) = IF Len(q) >= k THEN q[Len(q) - k + 1] ELSE q[1]
  BY DEF FromEnd, q
<1>6. \A i \in DOMAIN q : q[i] \in S
  BY <1>1
<1> QED BY <1>4, <1>5, <1>6

\* A cut leaves a message of the working copy behind it.
LEMMA CutInside ==
    ASSUME TranscriptAssumption, NEW w \in History, NEW cut \in Cuts(w)
    PROVE  cut \in Nat /\ cut + 1 \in DOMAIN w
<1> DEFINE In(c) == c = 0 \/ c + 1 \in DOMAIN w
<1>0. DOMAIN w = 1..Len(w) /\ Len(w) \in Nat
  BY Lengths
<1>1. ASSUME NEW S \in SUBSET (DOMAIN w), S # {}, NEW k \in Nat \ {0}
      PROVE  FromEnd(S, k) - 1 \in Nat /\ In(FromEnd(S, k) - 1)
  <2>1. FromEnd(S, k) \in S
    BY <1>1, FinitePositions, FromEndIsIn
  <2> DEFINE f == FromEnd(S, k)
  <2>2. f \in 1..Len(w)
    BY <1>0, <2>1
  <2> HIDE DEF f
  <2>3. f - 1 \in Nat /\ (f - 1) + 1 = f
    BY <2>2
  <2> QED BY <1>0, <2>2, <2>3 DEF f
<1>2. TurnCut(w) \in Nat /\ In(TurnCut(w))
  <2> DEFINE users == {i \in DOMAIN w : IsUser(w[i])}
  <2>1. TurnCut(w) = IF Cardinality(users) < ProtectRecentTurns THEN 0
                     ELSE FromEnd(users, ProtectRecentTurns) - 1
    BY DEF TurnCut
  <2>2. users \in SUBSET (DOMAIN w)
    OBVIOUS
  <2> HIDE DEF users
  <2>3. users = {} => Cardinality(users) < ProtectRecentTurns
    BY FS_EmptySet DEF TranscriptAssumption
  <2>4. CASE users = {}
    BY <2>1, <2>3, <2>4
  <2>5. CASE users # {}
    <3>1. FromEnd(users, ProtectRecentTurns) - 1 \in Nat
          /\ In(FromEnd(users, ProtectRecentTurns) - 1)
      BY <1>1, <2>2, <2>5 DEF TranscriptAssumption
    <3> QED BY <2>1, <3>1
  <2> QED BY <2>4, <2>5
<1>3. IntraTurnCut(w) \in Nat /\ In(IntraTurnCut(w))
  <2> DEFINE tools == {i \in DOMAIN w : CallsOf(w[i]) # {}}
             spans == IF tools # {} THEN tools ELSE DOMAIN w \ Results(w)
  <2>1. IntraTurnCut(w) = IF spans = {} THEN 0 ELSE FromEnd(spans, RecentTransactions) - 1
    BY DEF IntraTurnCut
  <2>2. spans \in SUBSET (DOMAIN w)
    OBVIOUS
  <2> HIDE DEF spans
  <2>3. CASE spans = {}
    BY <2>1, <2>3
  <2>4. CASE spans # {}
    <3>1. FromEnd(spans, RecentTransactions) - 1 \in Nat
          /\ In(FromEnd(spans, RecentTransactions) - 1)
      BY <1>1, <2>2, <2>4 DEF TranscriptAssumption
    <3> QED BY <2>1, <2>4, <3>1
  <2> QED BY <2>3, <2>4
<1>4. ASSUME NEW most \in Nat, In(most), NEW c \in HeldBack(w, most)
      PROVE  c \in Nat /\ In(c)
  <2>1. c = most \/ \E i \in 1..most : c = i - 1
    BY DEF HeldBack
  <2>2. CASE c = most
    BY <1>4, <2>2
  <2>3. CASE \E i \in 1..most : c = i - 1
    <3>1. PICK i \in 1..most : c = i - 1
      BY <2>3
    <3>2. c \in Nat /\ c + 1 = i /\ most # 0
      BY <3>1
    <3> QED BY <1>0, <1>4, <3>1, <3>2
  <2> QED BY <2>1, <2>2, <2>3
<1>5. cut \in HeldBack(w, TurnCut(w)) \cup HeldBack(w, IntraTurnCut(w)) /\ cut > 0
  BY DEF Cuts
<1>6. cut \in Nat /\ In(cut)
  BY <1>2, <1>3, <1>4, <1>5
<1> QED BY <1>5, <1>6

\* A turn is cut at a user message.
LEMMA AnchorsAreUsers ==
    ASSUME messages \in History, NEW to
    PROVE  Anchors(to) \in History /\ \A i \in DOMAIN Anchors(to) : IsUser(Anchors(to)[i])
<1> DEFINE U == {i \in DOMAIN messages : IsUser(messages[i])}
           users == Ascending(U)
           recent == {users[k] : k \in {j \in DOMAIN users : j > Len(users) - ProtectRecentTurns}}
           S == {i \in recent : i <= to}
           lost == Ascending(S)
<1>1. Anchors(to) = [k \in DOMAIN lost |-> messages[lost[k]]]
  BY DEF Anchors
<1>2. U \in SUBSET (DOMAIN messages) /\ \A i \in U : IsUser(messages[i])
  OBVIOUS
<1> HIDE DEF U
<1>3. users \in Seq(U)
  BY <1>2, FinitePositions, AscendingIsASeq
<1> HIDE DEF users
<1>4. S \subseteq U
  BY <1>3
<1> HIDE DEF S
<1>5. lost \in Seq(S)
  <2>1. S \in SUBSET (DOMAIN messages)
    BY <1>2, <1>4
  <2> QED BY <2>1, FinitePositions, AscendingIsASeq
<1> HIDE DEF lost
<1>6. Len(lost) \in Nat /\ DOMAIN lost = 1..Len(lost) /\ \A k \in DOMAIN lost : lost[k] \in U
  BY <1>4, <1>5
<1>7. \A k \in DOMAIN lost : messages[lost[k]] \in AnyMessage /\ IsUser(messages[lost[k]])
  BY <1>2, <1>6, Lengths
<1> QED BY <1>1, <1>6, <1>7 DEF History

\* The first message after the cut starts a span of the history.
LEMMA CompactionBoundary ==
    ASSUME TranscriptAssumption, Regular(messages), cursor \in 0..Len(messages),
           NEW cut, CompactAt(WorkingCopy, cut)
    PROVE  /\ cursor' \in Nat /\ cursor < cursor' /\ cursor' + 1 \in DOMAIN messages
           /\ messages[cursor' + 1].kind # "result"
<1> DEFINE w == WorkingCopy
           shown == Shown(Active)
           to == cursor + shown[cut + 1] - 1
           a == Anchors(to)
           tail == SubSeq(w, cut + 1, Len(w))
<1>1. /\ messages \in History /\ Len(messages) \in Nat /\ DOMAIN messages = 1..Len(messages)
      /\ cursor \in Nat
  BY Lengths DEF Regular
<1>2. /\ w \in History /\ DOMAIN w = DOMAIN shown
      /\ \A k \in DOMAIN shown :
            shown[k] \in DOMAIN Active /\ w[k].kind = Active[shown[k]].kind
  BY WorkingCopyIs, TrimmedIs
<1>3. /\ cut \in Cuts(w) /\ Paired(a \o tail) /\ to > cursor /\ cursor' = to
  BY DEF CompactAt
<1> HIDE DEF w, shown
<1>4. cut \in Nat /\ cut + 1 \in DOMAIN w
  BY <1>2, <1>3, CutInside
<1> DEFINE at == shown[cut + 1]
<1>5. at \in DOMAIN Active /\ w[cut + 1].kind = Active[at].kind
  BY <1>2, <1>4
<1>6. /\ at \in 1..(Len(messages) - cursor) /\ cursor + at \in DOMAIN messages
      /\ Active[at] = messages[cursor + at]
  BY <1>1, <1>5, ActiveIs
<1> HIDE DEF at
<1>7. to = cursor + at - 1 /\ to \in Nat /\ to + 1 = cursor + at
  BY <1>1, <1>6 DEF at
<1>8. a \in History /\ \A i \in DOMAIN a : IsUser(a[i])
  BY <1>1, AnchorsAreUsers
<1> HIDE DEF to, a
<1>9. w[cut + 1].kind # "result"
  <2> SUFFICES ASSUME w[cut + 1].kind = "result"
               PROVE  FALSE
    OBVIOUS
  <2>1. /\ Len(w) \in Nat /\ DOMAIN w = 1..Len(w) /\ Len(a) \in Nat /\ DOMAIN a = 1..Len(a)
        /\ \A i \in 1..Len(w) : w[i] \in AnyMessage
    BY <1>2, <1>8, Lengths
  <2>2. /\ tail \in Seq(AnyMessage) /\ Len(tail) = Len(w) - cut /\ Len(tail) >= 1
        /\ tail[1] = w[cut + 1]
    <3>1. cut + 1 \in Int /\ Len(w) \in Int /\ \A i \in (cut + 1)..Len(w) : w[i] \in AnyMessage
      BY <1>4, <2>1
    <3>2. /\ tail \in Seq(AnyMessage)
          /\ Len(tail) = IF cut + 1 <= Len(w) THEN Len(w) - (cut + 1) + 1 ELSE 0
          /\ \A i \in 1..(Len(w) - (cut + 1) + 1) : tail[i] = w[(cut + 1) + i - 1]
      BY <3>1, SubSeqProperties
    <3>3. 1 \in 1..(Len(w) - (cut + 1) + 1) /\ (cut + 1) + 1 - 1 = cut + 1 /\ cut + 1 <= Len(w)
      BY <1>4, <2>1
    <3> HIDE DEF tail
    <3> QED BY <1>4, <2>1, <3>2, <3>3
  <2> HIDE DEF tail
  <2> DEFINE s == a \o tail
             p == Len(a) + 1
  <2>3. /\ s \in Seq(AnyMessage) /\ Len(s) = Len(a) + Len(tail)
        /\ \A i \in 1..(Len(a) + Len(tail)) :
              s[i] = IF i <= Len(a) THEN a[i] ELSE tail[i - Len(a)]
    BY <1>8, <2>2, ConcatProperties DEF History
  <2>4. Paired(s)
    BY <1>3
  <2> HIDE DEF s
  <2>5. p \in DOMAIN s /\ s[p] = tail[1] /\ \A i \in 1..(p - 1) : s[i] = a[i]
    BY <2>1, <2>2, <2>3
  <2>6. p \in Results(s)
    BY <2>2, <2>5 DEF Results
  <2>7. PICK j \in 1..(p - 1) : s[j].kind = "assistant"
    BY <2>4, <2>6, PairedMeans DEF Covers
  <2>8. j \in DOMAIN a /\ a[j].kind = "assistant"
    BY <2>1, <2>5, <2>7
  <2> QED BY <1>8, <2>8 DEF IsUser
<1> QED BY <1>1, <1>3, <1>5, <1>6, <1>7, <1>9

\* Up to the start of a span, whole transactions are whole.
LEMMA PrefixPaired ==
    ASSUME NEW s \in History, Paired(s), NEW i \in DOMAIN s, s[i].kind # "result"
    PROVE  Paired(Before(s, i))
<1> DEFINE b == Before(s, i)
<1>1. /\ i \in 1..Len(s) /\ Len(s) \in Nat /\ DOMAIN s = 1..Len(s)
      /\ b \in History /\ Len(b) = i - 1 /\ DOMAIN b = 1..(i - 1)
      /\ \A j \in 1..(i - 1) : b[j] = s[j]
  BY BeforeIs, Lengths
<1> HIDE DEF b
<1>2. ASSUME NEW j \in DOMAIN b, b[j].kind = "assistant"
      PROVE  Block(b, j)
  <2>1. j \in DOMAIN s /\ j \in 1..(i - 1) /\ s[j].kind = "assistant" /\ s[j] = b[j]
    BY <1>1, <1>2
  <2>2. Block(s, j)
    BY <2>1, PairedMeans
  <2>3. Len(s[j].calls) \in Nat
    BY <1>1, <2>1, Kinds, Lengths
  <2>4. i \notin (j + 1)..(j + Len(s[j].calls))
    BY <2>2 DEF Block, Results
  <2>5. j + Len(s[j].calls) <= i - 1
    BY <1>1, <2>1, <2>3, <2>4
  <2>6. \A k \in j..(j + Len(s[j].calls)) : k + 0 \in DOMAIN b /\ b[k + 0] = s[k]
    <3> SUFFICES ASSUME NEW k \in j..(j + Len(s[j].calls))
                 PROVE  k + 0 \in DOMAIN b /\ b[k + 0] = s[k]
      OBVIOUS
    <3>1. k \in 1..(i - 1) /\ k + 0 = k
      BY <1>1, <2>1, <2>3, <2>5
    <3> QED BY <1>1, <3>1
  <2>7. Block(b, j + 0)
    <3>1. 0 \in Int
      OBVIOUS
    <3> QED BY <1>1, <2>1, <2>2, <2>6, <3>1, BlockMoves
  <2> QED BY <2>1, <2>7
<1>3. ASSUME NEW k \in Results(b)
      PROVE  \E j \in 1..(k - 1) : Covers(b, j, k)
  <2>1. k \in 1..(i - 1) /\ k \in Results(s)
    BY <1>1 DEF Results
  <2>2. PICK j \in 1..(k - 1) : Covers(s, j, k)
    BY <2>1, PairedMeans
  <2>3. b[j] = s[j]
    BY <1>1, <2>1
  <2> QED BY <2>2, <2>3 DEF Covers
<1> QED BY <1>2, <1>3, PairedMeans DEF b

\* Before a message that is not a result nothing waits for one.
LEMMA PrefixWhole ==
    ASSUME NEW k \in Nat, NEW s, Sound(s, k), NEW i \in DOMAIN s, s[i].kind # "result"
    PROVE  Paired(Before(s, i)) /\ Pending(Before(s, i)) = {}
<1>1. s \in History /\ Len(s) \in Nat /\ DOMAIN s = 1..Len(s)
  BY Lengths DEF Sound
<1>2. Paired(Before(s, i))
  <2>1. CASE Paired(s)
    BY <1>1, <2>1, PrefixPaired
  <2>2. CASE \E p : OpenAt(s, p)
    <3>1. PICK p : OpenAt(s, p)
      BY <2>2
    <3> DEFINE b == Before(s, p)
    <3>2. /\ p \in DOMAIN s /\ Paired(b) /\ b \in History /\ Len(b) = p - 1
          /\ DOMAIN b = 1..(p - 1) /\ \A j \in 1..(p - 1) : b[j] = s[j]
      BY <1>1, <3>1, BeforeIs DEF OpenAt
    <3> HIDE DEF b
    <3>3. i \notin (p + 1)..Len(s)
      BY <3>1 DEF OpenAt
    <3>4. CASE i = p
      BY <3>2, <3>4 DEF b
    <3>5. CASE i \in 1..(p - 1)
      <4>1. i \in DOMAIN b /\ b[i].kind # "result"
        BY <3>2, <3>5
      <4>2. Paired(Before(b, i))
        BY <3>2, <4>1, PrefixPaired
      <4>3. \A j \in 1..(i - 1) : b[j] = s[j]
        BY <1>1, <3>2, <3>5
      <4>4. Before(b, i) = Before(s, i)
        BY <1>1, <3>2, <4>1, <4>3, SameBefore
      <4> QED BY <4>2, <4>4
    <3> QED BY <1>1, <3>2, <3>3, <3>4, <3>5
  <2> QED BY <2>1, <2>2 DEF Sound, Tidy
<1> QED BY <1>1, <1>2, BeforeIs, AnsweredIsRequested

LEMMA CompactStep ==
    ASSUME TranscriptAssumption, TranscriptInv, CompactAndSend \/ CompactByHand
    PROVE  /\ TranscriptInv'
           /\ messages' = messages /\ cursor' + 1 \in DOMAIN messages
           /\ messages[cursor' + 1].kind # "result" /\ cursor' \in Nat
<1>1. /\ issued \in Nat /\ Sound(messages, issued) /\ Sound(saved.messages, issued)
      /\ cursor \in 0..Len(messages) /\ saved.cursor \in 0..Len(saved.messages)
      /\ saved = Snapshot(saved.messages, saved.cursor)
  BY DEF TranscriptInv, Bounds, Files
<1>2. PICK cut : CompactAt(WorkingCopy, cut)
  BY DEF CompactAndSend, CompactByHand
<1>3. Regular(messages)
  BY <1>1, SoundRegular
<1>4. /\ cursor' \in Nat /\ cursor < cursor' /\ cursor' + 1 \in DOMAIN messages
      /\ messages[cursor' + 1].kind # "result"
  BY <1>1, <1>2, <1>3, CompactionBoundary
<1>5. cursor' \in 0..Len(messages)
  BY <1>1, <1>4, Lengths DEF Sound
<1>6. CASE CompactAndSend
  <2>1. Bounds' /\ issued' = issued
    BY <1>6 DEF CompactAndSend, world, TranscriptInv, Bounds, TranscriptAssumption
  <2>2. Files'
    BY <1>1, <1>5, <1>6 DEF CompactAndSend, world, Files
  <2>3. Waiting'
    BY <1>6 DEF CompactAndSend, world, TranscriptInv, Waiting
  <2> QED BY <1>4, <1>6, <2>1, <2>2, <2>3 DEF CompactAndSend, TranscriptInv
<1>7. CASE CompactByHand
  <2>1. Bounds' /\ issued' = issued
    BY <1>7 DEF CompactByHand, world, inTurn, TranscriptInv, Bounds
  <2>2. saved'.messages = messages /\ saved'.cursor = cursor' /\ saved' = Snapshot(messages, cursor')
    BY <1>7 DEF CompactByHand, Snapshot
  <2>3. Files'
    BY <1>1, <1>5, <1>7, <2>1, <2>2 DEF CompactByHand, Files
  <2>4. Waiting'
    BY <1>7 DEF CompactByHand, world, TranscriptInv, Waiting
  <2> QED BY <1>4, <1>7, <2>1, <2>3, <2>4 DEF CompactByHand, TranscriptInv
<1> QED BY <1>6, <1>7

LEMMA TranscriptStep ==
    ASSUME TranscriptAssumption, TranscriptInv, [Next]_vars
    PROVE  TranscriptInv'
<1>1. CASE StartTurn
  BY <1>1, StartTurnStep
<1>2. CASE SendWorkingCopy
  BY <1>2, SendStep
<1>3. CASE RequestFails \/ Interrupt
  BY <1>3, TurnCutShort DEF RequestFails, Interrupt
<1>4. CASE Respond
  BY <1>4, RespondStep
<1>5. CASE RefuseCall \/ StartTool \/ FinishTool
  BY <1>5, CallStep
<1>6. CASE EndIteration
  BY <1>6, EndIterationStep
<1>7. CASE CompactAndSend \/ CompactByHand
  BY <1>7, CompactStep
<1>8. CASE Die \/ Restore
  BY <1>8, ProcessStep
<1>9. CASE UNCHANGED vars
  BY <1>9 DEF vars, inTurn, world, TranscriptInv, Bounds, Files, Waiting
<1> QED BY <1>1, <1>2, <1>3, <1>4, <1>5, <1>6, <1>7, <1>8, <1>9 DEF Next, Loop

LEMMA TranscriptInvariant == Spec => []TranscriptInv
<1> USE TranscriptAssumption
<1>1. Init => TranscriptInv
  BY TranscriptInit
<1>2. TranscriptInv /\ [Next]_vars => TranscriptInv'
  BY TranscriptStep
<1> QED BY <1>1, <1>2, PTL DEF Spec

(* However turns were cut off, closed and restored, a history in which no call waits  *)
(* is a sequence of whole transactions (conversation.add in loop.py,                  *)
(* _close_tool_calls).                                                                *)
THEOREM HistoryIsPaired == Spec => []HistoryPaired
<1>1. TranscriptInv => HistoryPaired
  <2> SUFFICES ASSUME TranscriptInv
               PROVE  HistoryPaired
    OBVIOUS
  <2>1. /\ issued \in Nat /\ Sound(messages, issued) /\ Sound(saved.messages, issued)
        /\ todo \in Seq(1..issued)
    BY DEF TranscriptInv, Bounds, Files, Waiting
  <2>2. \A i \in DOMAIN messages : messages[i] \in Message
    <3>1. Message = MessageUpTo(issued)
      BY DEF Message, MessageUpTo, Notes
    <3> QED BY <2>1, <3>1 DEF Sound
  <2>3. ToSet(todo) \subseteq 1..issued
    BY <2>1 DEF ToSet
  <2>4. TypeOK
    BY <2>2, <2>3 DEF TypeOK, TranscriptInv, Bounds, Files, Waiting
  <2>5. Pending(messages) = {} => Paired(messages)
    BY <2>1, SoundPaired
  <2> QED BY <2>4, <2>5 DEF HistoryPaired
<1> QED BY <1>1, TranscriptInvariant, PTL

(* The cursor only moves on to the start of a span, and leaves no open call behind it *)
(* (select_compaction_cut, and the mapping from the working copy to the history).     *)
THEOREM CompactionIsWhole == Spec => CompactionKeepsWhole
<1> USE TranscriptAssumption
<1>1. TranscriptInv /\ [Next]_vars =>
          (phase # "down" /\ cursor' > cursor =>
              /\ Pending(SubSeq(messages, 1, cursor')) = {}
              /\ cursor' \in SpanStarts(messages))
  <2> SUFFICES ASSUME TranscriptInv, [Next]_vars, phase # "down", cursor' > cursor
               PROVE  /\ Pending(SubSeq(messages, 1, cursor')) = {}
                      /\ cursor' \in SpanStarts(messages)
    OBVIOUS
  <2>1. issued \in Nat /\ Sound(messages, issued) /\ cursor \in Nat
    BY DEF TranscriptInv, Bounds, Files
  <2>2. CASE CompactAndSend \/ CompactByHand
    <3>1. /\ cursor' + 1 \in DOMAIN messages /\ messages[cursor' + 1].kind # "result"
          /\ cursor' \in Nat
      BY <2>2, CompactStep
    <3> DEFINE i == cursor' + 1
    <3>2. i \in DOMAIN messages /\ messages[i].kind # "result" /\ i - 1 = cursor'
      <4>1. i \in DOMAIN messages /\ messages[i].kind # "result"
        BY <3>1, Zenon
      <4>2. i - 1 = cursor'
        <5>1. cursor' \in Nat
          BY <3>1
        <5>2. \A n \in Nat : (n + 1) - 1 = n
          OBVIOUS
        <5> QED BY <5>1, <5>2, Zenon
      <4> QED BY <4>1, <4>2
    <3> HIDE DEF i
    <3>3. Pending(Before(messages, i)) = {}
      BY <2>1, <3>2, PrefixWhole
    <3>4. i \in DOMAIN messages \ Results(messages)
      BY <3>2 DEF Results
    <3> QED BY <3>2, <3>3, <3>4 DEF Before, SpanStarts
  <2>3. CASE Die
    BY <2>1, <2>3 DEF Die
  <2>4. CASE cursor' = cursor
    BY <2>1, <2>4
  <2> QED
    BY <2>2, <2>3, <2>4
       DEF Next, vars, Loop, Restore, Resume, ResumeForRevision, RestoreRefused, Reopen, StartTurn,
           SendWorkingCopy, RequestFails, Interrupt, EndTurn, Respond, RespondCalls, RespondStop,
           RespondTruncated, RespondLateCalls, RefuseCall, StartTool, FinishTool, EndIteration
<1> QED BY <1>1, TranscriptInvariant, PTL DEF Spec, CompactionKeepsWhole

-----------------------------------------------------------------------------
(* The working copy of whole transactions is one of whole transactions.     *)

\* A finite set of integers above l without a gap.
LEMMA NoGap ==
    ASSUME NEW P, IsFiniteSet(P), NEW l \in Int,
           \A x \in P : x \in Int /\ l < x /\ (l + 1)..x \subseteq P
    PROVE  Cardinality(P) \in Nat /\ P = (l + 1)..(l + Cardinality(P))
<1> DEFINE c == Cardinality(P)
           I == (l + 1)..(l + c)
<1>1. c \in Nat
  BY FS_CardinalityType
<1>2. P \subseteq I
  <2> SUFFICES ASSUME NEW x \in P
               PROVE  x \in I
    OBVIOUS
  <2>1. x \in Int /\ l < x /\ (l + 1)..x \subseteq P
    OBVIOUS
  <2> DEFINE J == (l + 1)..x
  <2>2. Cardinality(J) = x - l
    <3>1. l + 1 \in Int /\ x \in Int
      BY <2>1
    <3>2. Cardinality(J) = IF l + 1 > x THEN 0 ELSE x - (l + 1) + 1
      BY <3>1, FS_Interval
    <3> QED BY <2>1, <3>2
  <2>3. Cardinality(J) <= c
    BY <2>1, FS_Subset
  <2> HIDE DEF J, c
  <2> QED BY <1>1, <2>1, <2>2, <2>3
<1>3. IsFiniteSet(I) /\ Cardinality(I) = c
  <2>1. l + 1 \in Int /\ l + c \in Int
    BY <1>1
  <2>2. IsFiniteSet(I) /\ Cardinality(I) = IF l + 1 > l + c THEN 0 ELSE (l + c) - (l + 1) + 1
    BY <2>1, FS_Interval
  <2> HIDE DEF I, c
  <2> QED BY <1>1, <2>2
<1> HIDE DEF I
<1>4. P = I
  BY <1>2, <1>3, FS_Subset
<1> QED BY <1>1, <1>4 DEF I

\* Different results of a transaction answer different calls.
LEMMA BlockDistinct ==
    ASSUME NEW s \in History, NEW j \in DOMAIN s, s[j].kind = "assistant", Block(s, j)
    PROVE  \A x, y \in (j + 1)..(j + Len(s[j].calls)) : s[x].call = s[y].call => x = y
<1> DEFINE n == Len(s[j].calls)
           B == (j + 1)..(j + n)
           C == ToSet(s[j].calls)
           f == [i \in B |-> s[i].call]
<1>1. j \in Nat /\ n \in Nat
  BY Kinds, Lengths
<1>2. {s[i].call : i \in B} = C /\ Cardinality(C) = n
  BY DEF Block
<1>3. IsFiniteSet(B) /\ Cardinality(B) = n
  <2>1. j + 1 \in Int /\ j + n \in Int
    BY <1>1
  <2>2. IsFiniteSet(B) /\ Cardinality(B) = IF j + 1 > j + n THEN 0 ELSE (j + n) - (j + 1) + 1
    BY <2>1, FS_Interval
  <2> HIDE DEF B, n
  <2> QED BY <1>1, <2>2
<1> HIDE DEF B, n, C
<1>4. f \in Surjection(B, C)
  <2>1. f \in [B -> C]
    BY <1>2
  <2>2. \A c \in C : \E i \in B : f[i] = c
    BY <1>2
  <2> HIDE DEF f
  <2> QED BY <2>1, <2>2 DEF Surjection
<1> HIDE DEF f
<1>5. f \in Injection(B, C)
  BY <1>2, <1>3, <1>4, FS_Surjection
<1>6. \A x, y \in B : f[x] = f[y] => x = y
  BY <1>5 DEF Injection, IsInjective
<1>7. \A x, y \in B : s[x].call = s[y].call => x = y
  BY <1>6 DEF f
<1> QED BY <1>7 DEF B, n

\* What is left of a transaction whose message is shown stands behind it, and nothing else.
LEMMA BlockShown ==
    ASSUME NEW s, Regular(s), Paired(s), NEW l \in DOMAIN Shown(s),
           s[Shown(s)[l]].kind = "assistant"
    PROVE  LET w == Trimmed(s)
               j == Shown(s)[l]
           IN  /\ Block(w, l)
               /\ \A k \in DOMAIN Shown(s) : Shown(s)[k] \in (j + 1)..(j + Len(s[j].calls)) =>
                     k \in (l + 1)..(l + Len(w[l].calls))
<1> DEFINE q == Shown(s)
           w == Trimmed(s)
           H == Hidden(s)
           j == q[l]
           calls == s[j].calls
           n == Len(calls)
           B == (j + 1)..(j + n)
           R == {i \in B : s[i].call \notin H}
           P == {k \in DOMAIN q : q[k] \in B}
           left == Without(calls, H)
<1>1. /\ s \in History /\ Len(s) \in Nat /\ DOMAIN s = 1..Len(s)
      /\ \A i \in 1..Len(s) : s[i] \in AnyMessage
  BY Lengths DEF Regular
<1>2. /\ q \in Seq(Keeps(s)) /\ Keeps(s) \subseteq DOMAIN s
      /\ \A i \in Keeps(s) : \E k \in DOMAIN q : q[k] = i
      /\ \A k, m \in DOMAIN q : k < m <=> q[k] < q[m]
  BY <1>1, ShownAre
<1>3. /\ w \in History /\ DOMAIN w = DOMAIN q /\ Len(w) = Len(q)
      /\ \A k \in DOMAIN q : /\ q[k] \in Keeps(s) /\ q[k] \in DOMAIN s
                             /\ w[k] = Trim(s[q[k]], H) /\ w[k].kind = s[q[k]].kind
  BY TrimmedIs
<1> HIDE DEF q, w, H
<1>4. /\ j \in DOMAIN s /\ j \in Nat /\ s[j].kind = "assistant" /\ s[j] \in AnyMessage
      /\ calls \in Seq(Nat) /\ Distinct(calls) /\ n \in Nat
  <2>1. j \in DOMAIN s /\ s[j].kind = "assistant"
    BY <1>3 DEF q
  <2> HIDE DEF j
  <2> QED BY <1>1, <2>1, Kinds DEF Regular
<1>5. /\ j + n <= Len(s) /\ B \subseteq Results(s)
      /\ {s[i].call : i \in B} = ToSet(calls) /\ Cardinality(ToSet(calls)) = n
  BY <1>4, PairedMeans DEF Block
<1>6. w[l].calls = left
  <2>1. w[l] = Trim(s[j], H)
    BY <1>3 DEF q
  <2> HIDE DEF j
  <2> QED BY <1>4, <2>1, TrimIs
<1>7. left \in Seq(ToSet(calls) \ H) /\ Distinct(left) /\ ToSet(left) = ToSet(calls) \ H
  BY <1>4, WithoutKeeps
<1>8. left \in Seq(Nat) /\ Cardinality(ToSet(left)) = Len(left) /\ Len(left) \in Nat
  <2> HIDE DEF left
  <2>1. \A i \in DOMAIN left : left[i] \in Nat
    BY <1>4, <1>7 DEF ToSet
  <2>2. left \in Seq(Nat)
    BY <1>7, <2>1, SeqOfMembers
  <2>3. Len(left) \in Nat
    BY <2>2
  <2>4. Distinct(left)
    BY <1>7
  <2>5. Cardinality(ToSet(left)) = Len(left)
    BY <2>2, <2>4, DistinctCounts
  <2> QED BY <2>2, <2>3, <2>5
<1> HIDE DEF j, left
<1>9. R \subseteq Keeps(s)
  BY <1>5 DEF Keeps, Results, H
<1>10. \A x, y \in B : s[x].call = s[y].call => x = y
  BY <1>1, <1>4, PairedMeans, BlockDistinct
<1>11. \A k \in DOMAIN q : k \in P <=> q[k] \in R
  <2> SUFFICES ASSUME NEW k \in DOMAIN q, q[k] \in B
               PROVE  s[q[k]].call \notin H
    OBVIOUS
  <2>1. q[k] \in Keeps(s) /\ s[q[k]].kind = "result"
    BY <1>3, <1>5 DEF Results
  <2> QED BY <2>1 DEF Keeps, IsUser, H
<1>12. Len(q) \in Nat /\ DOMAIN q = 1..Len(q)
  BY <1>2
<1>13. IsFiniteSet(P)
  <2>1. P \subseteq 1..Len(q)
    BY <1>12
  <2>2. IsFiniteSet(1..Len(q))
    BY <1>12, FS_Interval
  <2> HIDE DEF P
  <2> QED BY <2>1, <2>2, FS_Subset
<1>14. Cardinality(P) = Len(left)
  <2> DEFINE g == [k \in P |-> s[q[k]].call]
  <2>1. g \in Bijection(P, ToSet(left))
    <3>1. ASSUME NEW k \in P
          PROVE  g[k] \in ToSet(left)
      <4>1. q[k] \in R
        BY <1>11
      <4> QED BY <1>5, <1>7, <4>1
    <3>2. ASSUME NEW k \in P, NEW m \in P, g[k] = g[m]
          PROVE  k = m
      <4>1. q[k] = q[m]
        BY <1>10, <3>2
      <4>2. k \in 1..Len(q) /\ m \in 1..Len(q) /\ q[k] \in Int
        BY <1>1, <1>2, <1>3, <1>12
      <4>3. ~(k < m) /\ ~(m < k)
        BY <1>2, <1>12, <4>1, <4>2
      <4> QED BY <1>12, <4>2, <4>3
    <3>3. ASSUME NEW c \in ToSet(left)
          PROVE  \E k \in P : g[k] = c
      <4>1. PICK i \in B : s[i].call = c
        BY <1>5, <1>7
      <4>2. i \in R
        BY <1>7, <4>1
      <4>3. PICK k \in DOMAIN q : q[k] = i
        BY <1>2, <1>9, <4>2
      <4> QED BY <4>1, <4>3
    <3>4. g \in [P -> ToSet(left)]
      BY <3>1
    <3> HIDE DEF g, P
    <3> QED BY <3>2, <3>3, <3>4 DEF Bijection, Injection, Surjection, IsInjective
  <2> HIDE DEF g, P
  <2>2. Cardinality(ToSet(left)) = Cardinality(P)
    BY <1>13, <2>1, FS_Bijection DEF ExistsBijection
  <2> QED BY <1>8, <2>2
<1>15. l \in Int /\ \A k \in P : k \in Int /\ l < k /\ (l + 1)..k \subseteq P
  <2>1. l \in DOMAIN q /\ q[l] = j /\ l \in 1..Len(q)
    BY <1>12 DEF q, j
  <2> SUFFICES ASSUME NEW k \in P
               PROVE  k \in Int /\ l < k /\ (l + 1)..k \subseteq P
    BY <2>1
  <2>2. k \in 1..Len(q) /\ q[k] \in B /\ k \in DOMAIN q
    BY <1>12
  <2>3. q[l] < q[k]
    BY <1>4, <2>1, <2>2
  <2>4. l < k
    BY <1>2, <2>1, <2>2, <2>3
  <2>5. ASSUME NEW m \in (l + 1)..k
        PROVE  m \in P
    <3>1. m \in DOMAIN q /\ l < m /\ (m = k \/ m < k)
      BY <1>12, <2>1, <2>2
    <3>2. q[l] < q[m] /\ (q[m] = q[k] \/ q[m] < q[k])
      BY <1>2, <2>1, <2>2, <3>1
    <3>3. q[m] \in Int
      BY <1>1, <1>3, <3>1
    <3>4. q[m] \in B
      BY <1>4, <2>1, <2>2, <3>2, <3>3
    <3> QED BY <3>1, <3>4
  <2> QED BY <2>1, <2>2, <2>4, <2>5
<1>16. P = (l + 1)..(l + Len(left))
  <2> HIDE DEF P
  <2> QED BY <1>13, <1>14, <1>15, NoGap
<1>17. Block(w, l)
  <2>1. l + Len(left) <= Len(w)
    <3>1. CASE Len(left) = 0
      BY <1>3, <1>12, <3>1 DEF q
    <3>2. CASE Len(left) # 0
      <4>1. l + Len(left) \in P
        BY <1>8, <1>15, <1>16, <3>2
      <4> QED BY <1>3, <1>12, <4>1
    <3> QED BY <3>1, <3>2
  <2>2. P \subseteq Results(w)
    BY <1>3, <1>5 DEF Results
  <2>3. \A k \in P : w[k].call = s[q[k]].call
    BY <1>1, <1>3, <1>5, TrimIs DEF Results, Regular
  <2>4. {w[k].call : k \in P} = ToSet(left)
    <3>1. ASSUME NEW k \in P
          PROVE  w[k].call \in ToSet(left)
      <4>1. q[k] \in R
        BY <1>11
      <4> QED BY <1>5, <1>7, <2>3, <4>1
    <3>2. ASSUME NEW c \in ToSet(left)
          PROVE  \E k \in P : w[k].call = c
      <4>1. PICK i \in B : s[i].call = c
        BY <1>5, <1>7
      <4>2. i \in R
        BY <1>7, <4>1
      <4>3. PICK k \in DOMAIN q : q[k] = i
        BY <1>2, <1>9, <4>2
      <4> QED BY <2>3, <4>1, <4>3
    <3> HIDE DEF P
    <3> QED BY <3>1, <3>2
  <2> HIDE DEF P
  <2> QED BY <1>6, <1>8, <1>16, <2>1, <2>2, <2>4 DEF Block
<1>18. \A k \in DOMAIN q : q[k] \in B => k \in (l + 1)..(l + Len(w[l].calls))
  BY <1>6, <1>16
<1> QED BY <1>17, <1>18 DEF w, q, j

\* The working copy of a history of whole transactions.
LEMMA TrimmedPaired ==
    ASSUME NEW s, Regular(s), Paired(s)
    PROVE  Paired(Trimmed(s))
<1> DEFINE q == Shown(s)
           w == Trimmed(s)
           H == Hidden(s)
<1>1. /\ s \in History /\ Len(s) \in Nat /\ DOMAIN s = 1..Len(s)
      /\ \A i \in 1..Len(s) : s[i] \in AnyMessage
  BY Lengths DEF Regular
<1>2. /\ q \in Seq(Keeps(s)) /\ Keeps(s) \subseteq DOMAIN s
      /\ \A i \in Keeps(s) : \E k \in DOMAIN q : q[k] = i
      /\ \A k, m \in DOMAIN q : k < m <=> q[k] < q[m]
  BY <1>1, ShownAre
<1>3. /\ w \in History /\ DOMAIN w = DOMAIN q
      /\ \A k \in DOMAIN q : /\ q[k] \in Keeps(s) /\ q[k] \in DOMAIN s
                             /\ w[k].kind = s[q[k]].kind
  BY TrimmedIs
<1>4. ASSUME NEW l \in DOMAIN w, w[l].kind = "assistant"
      PROVE  Block(w, l)
  BY <1>3, <1>4, BlockShown
<1>5. ASSUME NEW k \in Results(w)
      PROVE  \E l \in 1..(k - 1) : Covers(w, l, k)
  <2>1. k \in DOMAIN q /\ q[k] \in Keeps(s) /\ q[k] \in DOMAIN s /\ s[q[k]].kind = "result"
    BY <1>3 DEF Results
  <2> HIDE DEF q, w
  <2>2. q[k] \in Results(s) /\ q[k] \in 1..Len(s)
    BY <1>1, <2>1 DEF Results
  <2>3. PICK j \in 1..(q[k] - 1) : Covers(s, j, q[k])
    BY <2>2, PairedMeans
  <2>4. j \in DOMAIN s /\ s[j].kind = "assistant" /\ q[k] \in (j + 1)..(j + Len(s[j].calls))
    <3>1. j \in DOMAIN s /\ s[j].kind = "assistant" /\ q[k] <= j + Len(s[j].calls)
      BY <1>1, <2>2, <2>3 DEF Covers
    <3>2. Len(s[j].calls) \in Nat
      BY <1>1, <3>1, Kinds
    <3> QED BY <1>1, <2>2, <2>3, <3>1, <3>2
  <2>5. j \in Keeps(s)
    <3>1. s[q[k]].call \notin H
      BY <2>1 DEF Keeps, IsUser
    <3>2. {s[i].call : i \in (j + 1)..(j + Len(s[j].calls))} = ToSet(s[j].calls)
      BY <2>4, PairedMeans DEF Block
    <3>3. s[q[k]].call \in CallsOf(s[j])
      BY <2>4, <3>2 DEF CallsOf
    <3> QED BY <2>4, <3>1, <3>3 DEF Keeps
  <2>6. PICK l \in DOMAIN q : q[l] = j
    BY <1>2, <2>5
  <2>7. s[q[l]].kind = "assistant" /\ q[k] \in (q[l] + 1)..(q[l] + Len(s[q[l]].calls))
    BY <2>4, <2>6
  <2>8. k \in (l + 1)..(l + Len(w[l].calls))
    BY <2>1, <2>7, BlockShown DEF q, w
  <2>9. w[l].kind = "assistant" /\ l \in 1..Len(q)
    BY <1>2, <1>3, <2>7
  <2>10. Len(w[l].calls) \in Nat
    BY <1>3, <2>9, Kinds, Lengths
  <2>11. l \in 1..(k - 1) /\ k <= l + Len(w[l].calls)
    BY <2>8, <2>9, <2>10
  <2> QED BY <2>9, <2>11 DEF Covers
<1> QED BY <1>4, <1>5, PairedMeans

\* A cursor that has no open call behind it stands at the start of a span.
LEMMA ActivePaired ==
    ASSUME NEW k \in Nat, Sound(messages, k), Paired(messages), cursor \in 0..Len(messages),
           CursorWhole
    PROVE  Paired(Active)
<1>1. /\ messages \in History /\ Len(messages) \in Nat /\ DOMAIN messages = 1..Len(messages)
      /\ \A i \in 1..Len(messages) : messages[i] \in AnyMessage
  BY Lengths DEF Sound
<1>2. /\ Active \in History /\ Len(Active) = Len(messages) - cursor
      /\ DOMAIN Active = 1..(Len(messages) - cursor)
      /\ \A i \in DOMAIN Active :
            cursor + i \in DOMAIN messages /\ Active[i] = messages[cursor + i]
  BY <1>1, ActiveIs
\* The transaction of a result does not begin behind the cursor.
<1>3. ASSUME NEW i \in Results(messages), cursor < i, NEW j \in 1..(i - 1), Covers(messages, j, i)
      PROVE  cursor < j
  <2> SUFFICES ASSUME j <= cursor
               PROVE  FALSE
    BY <1>1
  <2> DEFINE b == SubSeq(messages, 1, cursor)
             c == messages[i].call
  <2>1. i \in 1..Len(messages) /\ j \in DOMAIN messages /\ messages[j].kind = "assistant"
        /\ messages[i].kind = "result" /\ i <= j + Len(messages[j].calls)
    BY <1>1, <1>3 DEF Results, Covers
  <2>2. Len(messages[j].calls) \in Nat /\ messages[j].calls \in Seq(Nat)
    BY <1>1, <2>1, Kinds
  <2>3. i \in (j + 1)..(j + Len(messages[j].calls))
    BY <2>1, <2>2
  <2>4. Block(messages, j)
    BY <2>1, PairedMeans
  <2>5. c \in CallsOf(messages[j])
    <3>1. {messages[x].call : x \in (j + 1)..(j + Len(messages[j].calls))}
              = ToSet(messages[j].calls)
      BY <2>4 DEF Block
    <3> QED BY <2>1, <2>3, <3>1 DEF CallsOf
  <2>6. /\ b \in Seq(AnyMessage) /\ DOMAIN b = 1..cursor
        /\ \A x \in 1..cursor : b[x] = messages[x]
    <3>1. 1 \in Int /\ cursor \in Int /\ \A x \in 1..cursor : messages[x] \in AnyMessage
      BY <1>1
    <3>2. /\ b \in Seq(AnyMessage) /\ Len(b) = IF 1 <= cursor THEN cursor - 1 + 1 ELSE 0
          /\ \A x \in 1..(cursor - 1 + 1) : b[x] = messages[1 + x - 1]
      BY <3>1, SubSeqProperties
    <3> HIDE DEF b
    <3>3. Len(b) = cursor /\ cursor \in Nat
      BY <1>1, <3>2
    <3>4. \A x \in 1..cursor : x \in 1..(cursor - 1 + 1) /\ 1 + x - 1 = x
      BY <3>3
    <3> QED BY <3>2, <3>3, <3>4
  <2> HIDE DEF b
  <2>7. c \in Requested(b)
    <3>1. j \in DOMAIN b /\ b[j] = messages[j]
      BY <2>6
    <3> QED BY <2>5, <3>1 DEF Requested
  <2>8. c \in Answered(b)
    BY <2>7 DEF CursorWhole, Pending, b
  <2>9. PICK x \in Results(b) : b[x].call = c
    BY <2>8 DEF Answered
  <2>10. x \in 1..cursor /\ x \in Results(messages) /\ messages[x].call = c
    BY <1>1, <2>6, <2>9 DEF Results
  <2> HIDE DEF c
  <2>11. PICK y \in 1..(x - 1) : Covers(messages, y, x)
    BY <2>10, PairedMeans
  <2>12. /\ y \in DOMAIN messages /\ messages[y].kind = "assistant"
         /\ x <= y + Len(messages[y].calls)
    BY <1>1, <2>10, <2>11 DEF Covers
  <2>13. Len(messages[y].calls) \in Nat
    BY <1>1, <2>12, Kinds
  <2>14. x \in (y + 1)..(y + Len(messages[y].calls))
    BY <2>10, <2>12, <2>13
  <2>15. c \in CallsOf(messages[y])
    <3>1. Block(messages, y)
      BY <2>12, PairedMeans
    <3>2. {messages[z].call : z \in (y + 1)..(y + Len(messages[y].calls))}
              = ToSet(messages[y].calls)
      BY <3>1 DEF Block
    <3> QED BY <2>10, <2>12, <2>14, <3>2 DEF CallsOf
  <2>16. y = j
    BY <2>1, <2>5, <2>12, <2>15 DEF Sound, Apart
  <2>17. x = i
    <3>1. x \in (j + 1)..(j + Len(messages[j].calls))
      BY <2>14, <2>16
    <3>2. messages[x].call = messages[i].call
      BY <2>10 DEF c
    <3> QED BY <1>1, <2>1, <2>3, <2>4, <3>1, <3>2, BlockDistinct
  <2> QED BY <1>3, <2>10, <2>17
<1>4. ASSUME NEW i \in DOMAIN Active, Active[i].kind = "assistant"
      PROVE  Block(Active, i)
  <2> DEFINE m == cursor + i
  <2>1. m \in DOMAIN messages /\ messages[m] = Active[i] /\ i \in Nat /\ i > 0 /\ m - cursor = i
    BY <1>1, <1>2
  <2> HIDE DEF m
  <2>2. Block(messages, m) /\ messages[m].kind = "assistant"
    BY <1>4, <2>1, PairedMeans
  <2>3. Len(messages[m].calls) \in Nat /\ m + Len(messages[m].calls) <= Len(messages)
    BY <1>1, <2>1, <2>2, Kinds DEF Block
  <2>4. ASSUME NEW x \in m..(m + Len(messages[m].calls))
        PROVE  x + (-cursor) \in DOMAIN Active /\ Active[x + (-cursor)] = messages[x]
    <3>1. x - cursor \in DOMAIN Active /\ x + (-cursor) = x - cursor /\ cursor + (x - cursor) = x
      BY <1>1, <1>2, <2>1, <2>3
    <3> QED BY <1>2, <3>1
  <2>5. -cursor \in Int /\ m + (-cursor) = i
    BY <1>1, <2>1
  <2>6. Block(Active, m + (-cursor))
    BY <1>1, <1>2, <2>1, <2>2, <2>4, <2>5, BlockMoves
  <2> QED BY <2>5, <2>6
<1>5. ASSUME NEW i \in Results(Active)
      PROVE  \E j \in 1..(i - 1) : Covers(Active, j, i)
  <2> DEFINE m == cursor + i
  <2>1. /\ i \in DOMAIN Active /\ Active[i].kind = "result" /\ i \in Nat
        /\ m \in Results(messages) /\ cursor < m /\ m - cursor = i
    BY <1>1, <1>2 DEF Results
  <2> HIDE DEF m
  <2>2. PICK j \in 1..(m - 1) : Covers(messages, j, m)
    BY <2>1, PairedMeans
  <2>3. cursor < j
    BY <1>3, <2>1, <2>2
  <2>4. /\ j - cursor \in 1..(i - 1) /\ j - cursor \in DOMAIN Active
        /\ cursor + (j - cursor) = j /\ m \in Nat /\ cursor \in Nat /\ j \in Nat
    <3>1. m \in Nat /\ cursor \in Nat /\ i \in 1..(Len(messages) - cursor)
      BY <1>1, <1>2, <2>1 DEF Results
    <3>2. j \in Nat /\ j <= m - 1
      BY <2>2, <3>1
    <3>3. j - cursor \in 1..(i - 1) /\ cursor + (j - cursor) = j
      BY <2>1, <2>3, <3>1, <3>2
    <3>4. j - cursor \in 1..(Len(messages) - cursor)
      BY <1>1, <3>1, <3>3
    <3> QED BY <1>2, <3>1, <3>2, <3>3, <3>4
  <2>5. Active[j - cursor] = messages[j]
    BY <1>2, <2>4
  <2>6. m <= j + Len(messages[j].calls) /\ messages[j].kind = "assistant"
    BY <2>2 DEF Covers
  <2>7. Len(messages[j].calls) \in Nat /\ m \in Nat
    <3>1. j \in DOMAIN messages /\ m \in Nat
      BY <1>1, <2>1, <2>2 DEF Results
    <3> QED BY <1>1, <2>6, <3>1, Kinds
  <2>8. i <= (j - cursor) + Len(messages[j].calls)
    <3> DEFINE n == Len(messages[j].calls)
    <3>1. n \in Nat /\ m <= j + n /\ m - cursor = i
      BY <2>1, <2>6, <2>7
    <3> HIDE DEF n
    <3>2. i <= (j - cursor) + n
      BY <2>4, <3>1
    <3> QED BY <3>2 DEF n
  <2>9. Covers(Active, j - cursor, i)
    BY <2>5, <2>6, <2>8 DEF Covers
  <2> QED BY <2>4, <2>9
<1> QED BY <1>4, <1>5, PairedMeans

\* A request is made of the working copy, or of what a compaction leaves of it.
LEMMA RequestStep ==
    ASSUME TranscriptAssumption, TranscriptInv, RequestPaired, [Next]_vars
    PROVE  RequestPaired'
<1> SUFFICES ASSUME phase' = "model", CursorWhole'
             PROVE  Paired(request')
  BY DEF RequestPaired
<1>1. issued \in Nat /\ Sound(messages, issued) /\ cursor \in 0..Len(messages)
  BY DEF TranscriptInv, Bounds, Files
<1>2. CASE SendWorkingCopy
  <2>1. /\ request' = WorkingCopy /\ messages' = messages /\ cursor' = cursor
        /\ Pending(messages) = {}
    BY <1>2 DEF SendWorkingCopy, TranscriptInv, Waiting
  <2>2. CursorWhole
    BY <2>1 DEF CursorWhole
  <2>3. Paired(Active)
    <3>1. Paired(messages)
      BY <1>1, <2>1, SoundPaired
    <3> QED BY <1>1, <2>2, <3>1, ActivePaired
  <2>4. WorkingCopy = Trimmed(Active) /\ Regular(Active)
    <3>1. Regular(messages)
      BY <1>1, SoundRegular
    <3> QED BY <1>1, <3>1, WorkingCopyIs
  <2> QED BY <2>1, <2>3, <2>4, TrimmedPaired
<1>3. CASE CompactAndSend
  BY <1>3 DEF CompactAndSend, CompactAt
<1>4. CASE phase = "model" /\ UNCHANGED <<messages, cursor, request>>
  BY <1>4 DEF RequestPaired, CursorWhole
<1> QED
  BY <1>2, <1>3, <1>4
     DEF Next, vars, inTurn, Loop, Restore, Resume, ResumeForRevision, RestoreRefused, Reopen,
         StartTurn, RequestFails, Interrupt, EndTurn, Respond, RespondCalls, RespondStop,
         RespondTruncated, RespondLateCalls, RefuseCall, StartTool, FinishTool, EndIteration,
         CompactByHand, Die

(* Whatever the working copy hides and the compaction cuts, the provider is sent whole *)
(* transactions, unless the cursor was set behind an open call (README: a tool call    *)
(* and all of its results are never split).                                            *)
THEOREM RequestIsPaired == Spec => []RequestPaired
<1> USE TranscriptAssumption
<1>1. Init => RequestPaired
  BY DEF Init, RequestPaired
<1>2. TranscriptInv /\ RequestPaired /\ [Next]_vars => RequestPaired'
  BY RequestStep
<1> QED BY <1>1, <1>2, TranscriptInvariant, PTL DEF Spec
=============================================================================
