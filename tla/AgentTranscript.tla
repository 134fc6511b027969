---------------------------- MODULE AgentTranscript ----------------------------
(***************************************************************************)
(* The conversation of one agent session: what AgentRuntime.run appends to *)
(* it, what ContextEngine.build sends to the model, where the compaction   *)
(* cursor stands, and what the session file holds when a turn is           *)
(* interrupted or the process dies.                                        *)
(*                                                                         *)
(* A tool call is its number, a message is its kind and the calls it names.*)
(* Token counts, texts and events are left out: whether a threshold is     *)
(* reached, whether the summary succeeds and what the provider answers are *)
(* free choices.  When a turn ends for lack of progress is RunControl's    *)
(* subject and a free choice here.                                         *)
(***************************************************************************)
EXTENDS Integers, Sequences, FiniteSets, SequencesExt, FiniteSetsExt

CONSTANTS
    MaxTurns,           \* bound: goals given to the session
    MaxCalls,           \* bound: tool calls of the session
    Texts,              \* bound: whether a response with calls has text beside them
    MaxDeaths,          \* bound: process ends, clean or not
    MaxRevisions,       \* bound: sessions reopened for a revision
    MaxIterations,      \* BudgetState.max_iterations
    Recoveries,         \* ContextEngineConfig.output_recovery_attempts
    ProtectRecentTurns, \* ContextEngineConfig.protect_recent_turns
    RecentTransactions  \* ContextEngineConfig.recent_transaction_count

ASSUME TranscriptAssumption ==
    /\ MaxTurns \in Nat /\ MaxCalls \in Nat /\ MaxDeaths \in Nat /\ MaxRevisions \in Nat
    /\ MaxIterations \in Nat \ {0}
    /\ Texts \subseteq BOOLEAN
    /\ Recoveries \in 0..1
    /\ ProtectRecentTurns \in Nat \ {0}
    /\ RecentTransactions \in Nat \ {0}

VARIABLES
    messages,    \* ConversationState.messages
    cursor,      \* messages already replaced by the compaction summary
    phase,       \* where AgentRuntime.run stands; "idle" between turns, "down" without a process
    todo,        \* calls of the current response that have no result yet
    request,     \* conversation part of the model request in flight
    iteration,   \* model requests of this turn
    recoveries,  \* truncated responses this turn has recovered from
    saved,       \* session_state.json: the conversation and the cursor
    ran,         \* calls whose tool was started, whatever became of the process
    issued, turns, deaths, revisions

vars == <<messages, cursor, phase, todo, request, iteration, recoveries, saved, ran,
          issued, turns, deaths, revisions>>
inTurn == <<request, iteration, recoveries>>
world == <<ran, issued, turns, deaths, revisions>>

-----------------------------------------------------------------------------
(* Messages.                                                               *)

User == [kind |-> "user"]
Notice == [kind |-> "notice"]          \* a UserMessage the runtime writes itself
Assistant(calls, text) == [kind |-> "assistant", calls |-> calls, text |-> text]
Result(call, note) == [kind |-> "result", call |-> call, note |-> note]

\* The numbers in S, smallest to largest.
Ascending(S) ==
    [k \in 1..Cardinality(S) |-> CHOOSE i \in S : Cardinality({j \in S : j < i}) = k - 1]

\* The calls outside C, in their order.
Without(calls, C) ==
    LET kept == Ascending({i \in DOMAIN calls : calls[i] \notin C})
    IN [k \in DOMAIN kept |-> calls[kept[k]]]

IsUser(m) == m.kind \in {"user", "notice"}
CallsOf(m) == IF m.kind = "assistant" THEN ToSet(m.calls) ELSE {}
Results(s) == {i \in DOMAIN s : s[i].kind = "result"}
Requested(s) == UNION {CallsOf(s[i]) : i \in DOMAIN s}
Answered(s) == {s[i].call : i \in Results(s)}
Pending(s) == Requested(s) \ Answered(s)

\* Mutant of CloseCalls: answered calls are answered again.
CloseAllCalls(s, calls, note) == s \o [i \in DOMAIN calls |-> Result(calls[i], note)]

\* The calls that have no result are given one, in the order of the calls.
CloseCalls(s, calls, note) ==
    LET open == Without(calls, Answered(s))
    IN s \o [i \in DOMAIN open |-> Result(open[i], note)]

\* What a new turn does first: calls are numbered in the order they were issued.
ClosePending(s) ==
    CloseCalls(s, Ascending(Pending(s)), "abandoned")

-----------------------------------------------------------------------------
(* Transactions: an assistant message and the results of all its calls.    *)

\* split_atomic_spans accepts the history.
Paired(s) ==
    /\ \A i \in DOMAIN s : s[i].kind = "assistant" =>
          LET n == Len(s[i].calls)
              after == (i + 1)..(i + n)
          IN /\ i + n <= Len(s)
             /\ after \subseteq Results(s)
             /\ {s[j].call : j \in after} = ToSet(s[i].calls)
             /\ Cardinality(ToSet(s[i].calls)) = n
    /\ \A i \in Results(s) : \E j \in 1..(i - 1) :
          s[j].kind = "assistant" /\ i <= j + Len(s[j].calls)

\* Positions before which a history may be cut: the starts of its spans.
SpanStarts(s) == {i - 1 : i \in DOMAIN s \ Results(s)}

-----------------------------------------------------------------------------
(* The working copy.                                                       *)

\* Calls of finished turns that have no result, or one of the closing ones.
Hidden(s) ==
    LET lastUser == Max({0} \cup {i \in DOMAIN s : IsUser(s[i])})
        closed == {s[i].call : i \in {j \in Results(s) : s[j].note \in {"stopped", "abandoned"}}}
    IN UNION {CallsOf(s[i]) \cap (closed \cup (Requested(s) \ Answered(s))) :
              i \in {j \in DOMAIN s : j < lastUser}}

\* Positions of the history that the model is shown.
Shown(s) ==
    LET hidden == Hidden(s)
        keep == {i \in DOMAIN s :
                   \/ IsUser(s[i])
                   \/ s[i].kind = "assistant" /\ (s[i].text \/ ~(CallsOf(s[i]) \subseteq hidden))
                   \/ s[i].kind = "result" /\ s[i].call \notin hidden}
    IN Ascending(keep)

\* Mutant of Trim: the message keeps the calls whose results are hidden.
TrimNothing(m, hidden) == m

Trim(m, hidden) ==
    IF m.kind = "assistant"
    THEN [m EXCEPT !.calls = Without(m.calls, hidden)]
    ELSE m

Active == SubSeq(messages, cursor + 1, Len(messages))

WorkingCopy ==
    LET shown == Shown(Active)
    IN [k \in DOMAIN shown |-> Trim(Active[shown[k]], Hidden(Active))]

-----------------------------------------------------------------------------
(* Compaction cuts: how many messages of the working copy are summarized.  *)

\* The k-th position from the end, the first one when there are fewer.
FromEnd(positions, k) ==
    LET s == Ascending(positions)
    IN IF Len(s) >= k THEN s[Len(s) - k + 1] ELSE s[1]

\* Everything before the recent user turns.
TurnCut(w) ==
    LET users == {i \in DOMAIN w : IsUser(w[i])}
    IN IF Cardinality(users) < ProtectRecentTurns THEN 0
       ELSE FromEnd(users, ProtectRecentTurns) - 1

\* Everything before the recent tool transactions, of one long turn too.
IntraTurnCut(w) ==
    LET tools == {i \in DOMAIN w : CallsOf(w[i]) # {}}
        spans == IF tools # {} THEN tools ELSE DOMAIN w \ Results(w)
    IN IF spans = {} THEN 0 ELSE FromEnd(spans, RecentTransactions) - 1

\* A protected result holds a cut back to the start of its transaction.
HeldBack(w, cut) == {cut} \cup {i - 1 : i \in {j \in 1..cut : CallsOf(w[j]) # {}}}

\* The cuts worth a summary; sizes decide between the two.
Cuts(w) ==
    {c \in HeldBack(w, TurnCut(w)) \cup HeldBack(w, IntraTurnCut(w)) :
        c > 0 /\ \E i \in 1..c : ~IsUser(w[i])}

\* The recent user messages that the cut would drop, shown once more.
Anchors(to) ==
    LET users == Ascending({i \in DOMAIN messages : IsUser(messages[i])})
        recent == {users[k] : k \in {j \in DOMAIN users : j > Len(users) - ProtectRecentTurns}}
        lost == Ascending({i \in recent : i <= to})
    IN [k \in DOMAIN lost |-> messages[lost[k]]]

-----------------------------------------------------------------------------
(* The session file.                                                       *)

Snapshot(m, c) == [messages |-> m, cursor |-> c]

\* restore_session accepts the snapshot.
Restorable(s) ==
    \/ s.cursor \in {0, Len(s.messages)}
    \/ Paired(s.messages) /\ s.cursor \in SpanStarts(s.messages)

NewCallsFrom(k, n) == [i \in 1..n |-> k + i]

Init ==
    /\ messages = <<>> /\ cursor = 0
    /\ phase = "idle" /\ todo = <<>> /\ request = <<>>
    /\ iteration = 0 /\ recoveries = 0
    /\ saved = Snapshot(<<>>, 0)
    /\ ran = {} /\ issued = 0 /\ turns = 0 /\ deaths = 0 /\ revisions = 0

\* The turn is over, well or badly: the caller's finally saves the session.
EndTurn(history) ==
    /\ phase' = "idle" /\ todo' = <<>> /\ request' = <<>>
    /\ iteration' = 0 /\ recoveries' = 0
    /\ messages' = history
    /\ saved' = Snapshot(history, cursor)
    /\ UNCHANGED cursor

-----------------------------------------------------------------------------
(* AgentRuntime.run.                                                       *)

StartTurn ==
    /\ phase = "idle" /\ turns < MaxTurns
    /\ messages' = Append(ClosePending(messages), User)
    /\ phase' = "context" /\ turns' = turns + 1
    /\ UNCHANGED <<cursor, todo, inTurn, saved, ran, issued, deaths, revisions>>

\* The request goes out with the working copy as it is, pruned or not.
SendWorkingCopy ==
    /\ phase = "context"
    /\ request' = WorkingCopy
    /\ phase' = "model" /\ iteration' = iteration + 1
    /\ UNCHANGED <<messages, cursor, todo, recoveries, saved, world>>

\* Mutant of CompactAt: the cut counts messages of the history, not of the working copy.
CompactAtWorkingIndex(w, cut) ==
    /\ Paired(w) /\ Pending(w) = {}
    /\ cut \in Cuts(w)
    /\ cursor' = cursor + cut

\* Commits a summary of the first cut messages of the working copy w.
CompactAt(w, cut) ==
    LET to == cursor + Shown(Active)[cut + 1] - 1
    IN /\ Paired(w) /\ Pending(w) = {}
       /\ cut \in Cuts(w)
       /\ Paired(Anchors(to) \o SubSeq(w, cut + 1, Len(w)))
       /\ to > cursor
       /\ cursor' = to

\* The summary succeeded; the request carries it and the messages after the cut.
CompactAndSend ==
    /\ phase = "context"
    /\ LET w == WorkingCopy
       IN \E cut \in Cuts(w) :
            /\ CompactAt(w, cut)
            /\ request' = Anchors(cursor') \o SubSeq(w, cut + 1, Len(w))
    /\ phase' = "model" /\ iteration' = iteration + 1
    /\ UNCHANGED <<messages, todo, recoveries, saved, world>>

\* Over the input limit whatever was tried, or the provider failed.
RequestFails ==
    /\ phase \in {"context", "model"}
    /\ EndTurn(messages)
    /\ UNCHANGED world

NewCalls(n) == NewCallsFrom(issued, n)
Reply(n, text) == Append(messages, Assistant(NewCalls(n), text))

\* Complete tool calls, and iterations left: the calls are handled one by one.
RespondCalls(n, text) ==
    /\ phase = "model" /\ n > 0 /\ iteration < MaxIterations
    /\ messages' = Reply(n, text)
    /\ todo' = NewCalls(n) /\ issued' = issued + n
    /\ phase' = "calls" /\ request' = <<>>
    /\ UNCHANGED <<cursor, iteration, recoveries, saved, ran, turns, deaths, revisions>>

\* The stop policy ends the turn: a final answer, the iteration limit, a finish reason that
\* does not go with the calls.
RespondStop(n, text) ==
    /\ phase = "model"
    /\ issued' = issued + n
    /\ EndTurn(CloseCalls(Reply(n, text), NewCalls(n), "stopped"))
    /\ UNCHANGED <<ran, turns, deaths, revisions>>

\* Cut off by the output limit: the calls are withheld, and a fresh response is asked for
\* with a larger cap, or the turn ends and closes them as if nothing had been done.
RespondTruncated(n, text) ==
    /\ phase = "model" /\ iteration < MaxIterations /\ recoveries < Recoveries
    /\ issued' = issued + n
    /\ LET history == CloseCalls(Reply(n, text), NewCalls(n), "withheld")
       IN \/ /\ messages' = Append(history, Notice)
             /\ recoveries' = recoveries + 1
             /\ phase' = "context" /\ request' = <<>>
             /\ UNCHANGED <<cursor, todo, iteration, saved>>
          \/ EndTurn(CloseCalls(history, NewCalls(n), "stopped"))
    /\ UNCHANGED <<ran, turns, deaths, revisions>>

\* Calls in a response that was to be the final delivery: withheld, and the run fails.
RespondLateCalls(n, text) ==
    /\ phase = "model" /\ n > 0
    /\ issued' = issued + n
    /\ EndTurn(CloseCalls(Reply(n, text), NewCalls(n), "withheld"))
    /\ UNCHANGED <<ran, turns, deaths, revisions>>

-----------------------------------------------------------------------------
(* AgentRuntime._handle_tool_call.                                         *)

\* Bridge, registry, exposure, sensitive path, permission, approval or arguments.
RefuseCall ==
    /\ phase = "calls" /\ todo # <<>>
    /\ messages' = Append(messages, Result(Head(todo), "refused"))
    /\ todo' = Tail(todo)
    /\ UNCHANGED <<cursor, phase, inTurn, saved, world>>

StartTool ==
    /\ phase = "calls" /\ todo # <<>>
    /\ ran' = ran \cup {Head(todo)}
    /\ phase' = "executing"
    /\ UNCHANGED <<messages, cursor, todo, inTurn, saved, issued, turns, deaths, revisions>>

\* The tool returned, raised, or its state updates were refused.
FinishTool ==
    /\ phase = "executing"
    /\ messages' = Append(messages, Result(Head(todo), "ran"))
    /\ todo' = Tail(todo) /\ phase' = "calls"
    /\ UNCHANGED <<cursor, inTurn, saved, world>>

\* All calls answered: the next iteration, perhaps with a notice, or no progress and the end.
EndIteration ==
    /\ phase = "calls" /\ todo = <<>>
    /\ \/ /\ phase' = "context"
          /\ messages' \in {messages, Append(messages, Notice)}
          /\ UNCHANGED <<cursor, todo, inTurn, saved>>
       \/ EndTurn(messages)
    /\ UNCHANGED world

\* The task is cancelled at an await or a yield: wall time, a client, a closed stream.
Interrupt ==
    /\ phase \in {"context", "model", "calls", "executing"}
    /\ EndTurn(messages)
    /\ UNCHANGED world

-----------------------------------------------------------------------------
(* /compact, process ends, and sessions that are opened again.             *)

CompactByHand ==
    /\ phase = "idle"
    /\ LET w == WorkingCopy IN \E cut \in Cuts(w) : CompactAt(w, cut)
    /\ saved' = Snapshot(messages, cursor')
    /\ UNCHANGED <<messages, phase, todo, inTurn, world>>

\* Memory is lost; between turns this is a clean exit.
Die ==
    /\ phase # "down" /\ deaths < MaxDeaths
    /\ phase' = "down" /\ deaths' = deaths + 1
    /\ messages' = <<>> /\ cursor' = 0 /\ todo' = <<>> /\ request' = <<>>
    /\ iteration' = 0 /\ recoveries' = 0
    /\ UNCHANGED <<saved, ran, issued, turns, revisions>>

Reopen(at) ==
    /\ phase = "down" /\ Restorable(saved)
    /\ messages' = saved.messages /\ cursor' = at
    /\ phase' = "idle"
    /\ UNCHANGED <<todo, inTurn, saved, ran, issued, turns, deaths>>

Resume == Reopen(saved.cursor) /\ UNCHANGED revisions

\* A run that executes a revision plan skips the whole history it restored.
ResumeForRevision ==
    /\ revisions < MaxRevisions /\ saved.messages # <<>>
    /\ Reopen(Len(saved.messages))
    /\ revisions' = revisions + 1

\* Mutant of RestoreRefused: the refused cursor is saved again.
RestoreRefusedAgain ==
    /\ phase = "down" /\ ~Restorable(saved)
    /\ UNCHANGED vars

\* The snapshot is refused; the runner's finally saves what the fresh runtime holds: the
\* conversation, and an engine that has compacted nothing.
RestoreRefused ==
    /\ phase = "down" /\ ~Restorable(saved)
    /\ saved' = [saved EXCEPT !.cursor = 0]
    /\ UNCHANGED <<messages, cursor, phase, todo, inTurn, world>>

-----------------------------------------------------------------------------
Respond ==
    \E n \in 0..(MaxCalls - issued) : \E text \in (IF n = 0 THEN {TRUE} ELSE Texts) :
        \/ RespondCalls(n, text) \/ RespondStop(n, text)
        \/ RespondTruncated(n, text) \/ RespondLateCalls(n, text)

Loop ==
    \/ SendWorkingCopy \/ CompactAndSend \/ RequestFails \/ Respond
    \/ RefuseCall \/ StartTool \/ FinishTool \/ EndIteration \/ Interrupt

Restore == Resume \/ ResumeForRevision \/ RestoreRefused

Next == StartTurn \/ Loop \/ CompactByHand \/ Die \/ Restore

Spec == Init /\ [][Next]_vars

\* A session that was closed is opened again.
FairSpec == Spec /\ WF_vars(Resume \/ RestoreRefused)

-----------------------------------------------------------------------------
(* Properties.                                                             *)

Message ==
    {User, Notice}
    \cup [kind : {"assistant"}, calls : {NewCallsFrom(k, n) : k \in 0..issued, n \in 0..MaxCalls},
          text : BOOLEAN]
    \cup [kind : {"result"}, call : 1..issued,
          note : {"ran", "refused", "stopped", "withheld", "abandoned"}]

\* Types, and the bounds of a turn.
TypeOK ==
    /\ phase \in {"idle", "context", "model", "calls", "executing", "down"}
    /\ \A i \in DOMAIN messages : messages[i] \in Message
    /\ cursor \in 0..Len(messages) /\ saved.cursor \in 0..Len(saved.messages)
    /\ ran \subseteq 1..issued /\ ToSet(todo) \subseteq 1..issued
    /\ iteration \in 0..MaxIterations /\ recoveries \in 0..Recoveries
    /\ (phase = "executing") => todo # <<>>

\* The durable history is a sequence of whole transactions as soon as every call has its
\* result: however turns were cut off, closed and restored, no call is answered twice, late,
\* or across a user message (conversation.add in loop.py, _close_tool_calls).
HistoryPaired == TypeOK /\ (Pending(messages) = {} => Paired(messages))

\* Nothing the cursor has put behind it still waits for a result.
CursorWhole == Pending(SubSeq(messages, 1, cursor)) = {}

\* The provider is sent whole transactions only, whatever the working copy hides and the
\* compaction cuts (README: a tool call and all of its results are never split).
RequestPaired == phase = "model" /\ CursorWhole => Paired(request)

\* Compaction never commits a cursor inside a transaction or behind an open call
\* (select_compaction_cut, and the mapping from the working copy to the history).
CompactionKeepsWhole ==
    [][phase # "down" /\ cursor' > cursor =>
          /\ Pending(SubSeq(messages, 1, cursor')) = {}
          /\ cursor' \in SpanStarts(messages)]_vars

\* A session that was closed or killed comes back, at the cost of its summary if the
\* snapshot is refused (runner.py: the finally saves what the fresh runtime holds).
SessionComesBack == (phase = "down") ~> (phase = "idle")

\* What sessions/store.py says of the file: it makes the session resumable.
SnapshotRestores == phase = "down" => Restorable(saved)

\* What _close_pending_tool_calls says of the results it appends: they are factual.
AbandonedNeverRan ==
    \A i \in Results(messages) :
        messages[i].note = "abandoned" => messages[i].call \notin ran

\* What README.md says of every request: a call and all of its results are never split.
RequestNeverSplit == phase = "model" => Paired(request)
=============================================================================
