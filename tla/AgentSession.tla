---------------------------- MODULE AgentSession ----------------------------
(***************************************************************************)
(* The agent loop (zeaz_agent/loop.py), the projection of a session on the *)
(* context budget (context.py) and the session store (session_store.py).   *)
(*                                                                         *)
(* A session is an immutable value.  A client loads it, advances it by     *)
(* start() and resume(), each of which awaits one answer of the model, and *)
(* saves it on the condition that the stored revision is still the one it  *)
(* loaded.  The contents of turns are abstracted to their size, the tool   *)
(* calls they make and the results they carry.                             *)
(***************************************************************************)
EXTENDS Integers, Sequences, SequencesExt, FiniteSetsExt, Sums

CONSTANTS
  Clients,        \* coroutines that work on the session
  ToolCalls,      \* identifiers a model may give its tool calls
  MaxTurns,       \* AgentLoop's max_turns
  MinRecent,      \* ContextCompactor's min_recent_turns
  ContextTokens,  \* token_budget.max_context_tokens
  TotalTokens,    \* token_budget.max_total_tokens
  OutputTokens,   \* the smaller of the two limits of output tokens
  Usages,         \* the usages a model may report, [input, output]
  MaxRevision,    \* bound of the model on changes of the execution mode
  NoSession       \* what a client holds before it has loaded

ASSUME SessionAssumption ==
  /\ MaxTurns \in Nat /\ MaxTurns >= 2
  /\ MinRecent \in Nat \ {0}
  /\ ContextTokens \in Nat /\ OutputTokens \in Nat \ {0} /\ TotalTokens \in Nat
  /\ MaxRevision \in Nat
  /\ Usages \subseteq [input: Nat, output: Nat]

\* A turn of the conversation, and a session, as the schemas have them.
Turns ==
  [role : {"system", "user", "assistant", "tool"}, size : Nat, calls : SUBSET ToolCalls,
   results : SUBSET ToolCalls, cost : Nat]

SessionValues == [revision : Nat, mode : {"normal", "plan"}, used : Nat, turns : Seq(Turns)]

ASSUME NoSessionAssumption == NoSession \notin SessionValues

VARIABLES
  row,      \* the row of the store, NoSession before create()
  inHand,     \* held[c]: the session client c has in hand
  base,     \* base[c]: the revision c loaded, its expected_revision
  asking,   \* asking[c]: the session and the context _infer() awaits with
  changes   \* changes of the execution mode, bounded by MaxRevision

sessionVars == <<row, inHand, base, asking, changes>>

-----------------------------------------------------------------------------
(* Values *)

Turn(role, size, calls, results) ==
  [role |-> role, size |-> size, calls |-> calls, results |-> results,
   cost |-> 0]

System    == Turn("system", 1, {}, {})
User      == Turn("user", 1, {}, {})
Results(calls) == Turn("tool", 2, {}, calls)
Answer(calls, usage) ==
  [Turn("assistant", 1, calls, {}) EXCEPT !.cost = usage.input + usage.output]

\* Session() with an empty or a system turn, as its creator chooses.
NewSession(turns) == [revision |-> 0, mode |-> "normal", used |-> 0, turns |-> turns]

\* _append(): a new session, one turn longer.
Extend(s, turn) ==
  [s EXCEPT !.revision = @ + 1, !.turns = Append(@, turn),
            !.used = @ + turn.cost]

HasCapacity(s) == Len(s.turns) + 2 <= MaxTurns

\* _pending_calls(): those of the last turn, if it is the assistant's.
Pending(s) ==
  IF s.turns = <<>> \/ Last(s.turns).role # "assistant" THEN {}
  ELSE Last(s.turns).calls

-----------------------------------------------------------------------------
(* ContextCompactor *)

Size(turns) == SumTo([i \in DOMAIN turns |-> turns[i].size], Len(turns))

\* _summary_turn(): its text is bounded, the turns it stands for are not sent.
Summary == System

Leading(turns) ==
  Max({n \in 0..Len(turns) : \A i \in 1..n : turns[i].role = "system"})

\* Mutation: omits turn by turn.
AnyCut(removable) == 1..(Len(removable) - Min({MinRecent, Len(removable)}))

\* The numbers of turns compact() tries to omit: one more each time, and then
\* the tool turns that follow, as long as more than the minimum is left.
Cuts(removable) ==
  LET most == Len(removable) - Min({MinRecent, Len(removable)})
  IN {k \in 1..most : k = most \/ removable[k + 1].role # "tool"}

Projection(turns, k) ==
  LET lead == Leading(turns)
  IN SubSeq(turns, 1, lead) \o <<Summary>>
       \o SubSeq(turns, lead + k + 1, Len(turns))

\* The contexts compact() may return: at most one, none when it raises
\* ContextLimitExceeded.
Compact(turns, limit) ==
  LET removable == SubSeq(turns, Leading(turns) + 1, Len(turns))
      fitting   == {k \in Cuts(removable) : Size(Projection(turns, k)) <= limit}
  IN IF limit < 1 THEN {}
     ELSE IF Size(turns) <= limit THEN {turns}
     ELSE IF fitting = {} THEN {}
     ELSE {Projection(turns, Min(fitting))}

-----------------------------------------------------------------------------
(* AgentLoop *)

TokensLeft(s) == TotalTokens - s.used

InputLimit(s) == Min({ContextTokens, TokensLeft(s) - 1})

OutputLimit(s, context) == Min({OutputTokens, TokensLeft(s) - Size(context)})

Idle == [session |-> NoSession, context |-> <<>>]

\* _infer() up to the call of the model.  It raises when the budget is
\* exhausted or no context fits; the client keeps the session it had.
Infer(c, s) ==
  /\ TokensLeft(s) > 1
  /\ \E context \in Compact(s.turns, InputLimit(s)) :
       /\ OutputLimit(s, context) >= 1
       /\ asking' = [asking EXCEPT ![c] = [session |-> s, context |-> context]]
  /\ UNCHANGED <<row, inHand, base, changes>>

Ready(c) == inHand[c] # NoSession /\ asking[c] = Idle

\* start(): it does not ask whether tool calls are pending.
StartTurn(c) ==
  /\ Ready(c)
  /\ HasCapacity(inHand[c])
  /\ Infer(c, Extend(inHand[c], User))

\* resume(), with exactly one result for each pending call.
ResumeTurn(c) ==
  /\ Ready(c)
  /\ Pending(inHand[c]) # {}
  /\ HasCapacity(inHand[c])
  /\ Infer(c, Extend(inHand[c], Results(Pending(inHand[c]))))

\* _validate_usage()
UsageValid(s, context, usage) ==
  /\ usage.input <= ContextTokens
  /\ usage.output <= OutputLimit(s, context)
  /\ usage.input + usage.output <= TokensLeft(s)

\* The model answers and the answer is appended.
ModelAnswers(c) ==
  /\ asking[c] # Idle
  /\ \E calls \in SUBSET ToolCalls, usage \in Usages :
       /\ UsageValid(asking[c].session, asking[c].context, usage)
       /\ inHand' = [inHand EXCEPT ![c] = Extend(asking[c].session, Answer(calls, usage))]
  /\ asking' = [asking EXCEPT ![c] = Idle]
  /\ UNCHANGED <<row, base, changes>>

\* The model fails, reports a usage above the limits, the task is cancelled or
\* the audit sink fails: the exception leaves the client with what it held.
ModelFails(c) ==
  /\ asking[c] # Idle
  /\ asking' = [asking EXCEPT ![c] = Idle]
  /\ UNCHANGED <<row, inHand, base, changes>>

\* set_plan_mode() of plan.py, to the mode the session is not in.
ChangeMode(c) ==
  /\ Ready(c)
  /\ changes < MaxRevision
  /\ changes' = changes + 1
  /\ inHand' = [inHand EXCEPT ![c].revision = @ + 1,
                          ![c].mode = IF @ = "plan" THEN "normal" ELSE "plan"]
  /\ UNCHANGED <<row, base, asking>>

-----------------------------------------------------------------------------
(* SQLiteSessionStore *)

\* create(): insert only.
CreateSession(c) ==
  /\ row = NoSession
  /\ \E turns \in {<<>>, <<System>>} : row' = NewSession(turns)
  /\ UNCHANGED <<inHand, base, asking, changes>>

LoadSession(c) ==
  /\ row # NoSession
  /\ asking[c] = Idle
  /\ inHand' = [inHand EXCEPT ![c] = row]
  /\ base' = [base EXCEPT ![c] = row.revision]
  /\ UNCHANGED <<row, asking, changes>>

\* The condition of the UPDATE; without a match save() raises SessionConflict.
Unchanged(c) == row.revision = base[c]

\* save(), and the client goes on from the revision it has written.
SaveSession(c) ==
  /\ Ready(c)
  /\ inHand[c].revision > base[c]
  /\ Unchanged(c)
  /\ row' = inHand[c]
  /\ base' = [base EXCEPT ![c] = inHand[c].revision]
  /\ UNCHANGED <<inHand, asking, changes>>

-----------------------------------------------------------------------------
SessionInit ==
  /\ row = NoSession
  /\ inHand = [c \in Clients |-> NoSession]
  /\ base = [c \in Clients |-> 0]
  /\ asking = [c \in Clients |-> Idle]
  /\ changes = 0

SessionNext ==
  \E c \in Clients :
    \/ CreateSession(c) \/ LoadSession(c) \/ SaveSession(c)
    \/ StartTurn(c) \/ ResumeTurn(c) \/ ChangeMode(c)
    \/ ModelAnswers(c) \/ ModelFails(c)

SessionSpec == SessionInit /\ [][SessionNext]_sessionVars

-----------------------------------------------------------------------------
(* Properties *)

\* Two workers that start from one revision cannot both commit: whatever is
\* saved continues what was stored (save() of session_store.py).
HistoryExtends ==
  row # NoSession => /\ row'.revision > row.revision \/ row' = row
                     /\ IsPrefix(row.turns, row'.turns)

\* The setting under which the first turn that is never cut is not a tool's.
EvenRecent == MinRecent % 2 = 0

\* With an even number of turns that are never cut, a model is never sent the
\* result of a tool call without the call, however the context was compacted
\* (compact() of context.py).  With an odd one, which ContextCompactor admits
\* as well, compact() may cut the calls whose results it keeps.
ContextPaired ==
  EvenRecent =>
    \A c \in Clients :
      LET context == asking[c].context
      IN \A i \in DOMAIN context :
           context[i].role = "tool" =>
             i > 1 /\ context[i - 1].calls = context[i].results

\* The usage a session records is what its turns have cost, and within its
\* budget (_validate_usage() and _append() of loop.py).
UsageAccounted ==
  \A s \in {row} \cup {inHand[c] : c \in Clients} :
    s # NoSession =>
      /\ s.used = SumTo([i \in DOMAIN s.turns |-> s.turns[i].cost], Len(s.turns))
      /\ s.used <= TotalTokens

\* A session is what happened in it: to the model, to the one who pays and to
\* the next worker that loads it.
SessionKept == [][ContextPaired' /\ UsageAccounted' /\ HistoryExtends]_sessionVars

=============================================================================
