------------------------------ MODULE Subagents ------------------------------
(***************************************************************************)
(* SubagentManager of zeaz-agent: a tree of tasks on one event loop, under *)
(* limits of depth, number, concurrency, tokens and time, that any caller  *)
(* may cancel from any node down.                                          *)
(*                                                                         *)
(* A step is what runs between two awaits.  The manager's lock is never    *)
(* held across an await, so taking it suspends nobody.  Tasks take their   *)
(* first steps, and so join the semaphore's queue, in the order they were  *)
(* created.  A freed slot goes to the first waiter that is not cancelled,  *)
(* who takes it up at its next step.  task.cancel() schedules a            *)
(* CancelledError for the task's next step; what happens in between is up  *)
(* to the others.  asyncio is that of Python 3.12, the version of the      *)
(* images.  A worker that awaits its children is one that does not end of  *)
(* itself.                                                                 *)
(***************************************************************************)
EXTENDS Integers, FiniteSets, Sums

CONSTANTS
  MaxTotal,       \* limits.max_total; subagents are numbered as they are spawned
  MaxConcurrent,  \* limits.max_concurrent
  MaxDepth,       \* limits.max_depth
  MaxPerAgent,    \* limits.max_tokens_per_agent
  MaxTokens,      \* limits.max_total_tokens
  MaxUse,         \* bound: tokens a worker reports
  Sessions

ASSUME SubagentAssumption ==
  /\ MaxTotal \in Nat \ {0} /\ MaxConcurrent \in Nat \ {0} /\ MaxDepth \in Nat \ {0}
  /\ MaxPerAgent \in Nat \ {0} /\ MaxTokens \in Nat \ {0} /\ MaxUse \in Nat
  /\ Sessions # {}

Ids    == 1..MaxTotal
NoId   == 0
Budget == 1..MaxPerAgent

VARIABLES
  tree,      \* states[id].request: parent, depth, session and token budget
  pc,        \* id -> where its task is
  token,     \* id -> its cancellation token is set
  kick,      \* id -> the interruption its task's next step raises
  status,    \* states[id].result.status, "none" before there is a result
  started,   \* total_started
  consumed,  \* consumed_tokens
  reserved,  \* active_reservations
  free,      \* the semaphore's value
  doomed     \* history: those a cancel() was meant for, itself and every descendant it had

vars == <<tree, pc, token, kick, status, started, consumed, reserved, free, doomed>>

Places   == {"none", "new", "queued", "granted", "working", "stopping", "over", "aborted"}
Statuses == {"none", "completed", "failed", "cancelled", "timed_out"}
Requests == [parent : Ids \cup {NoId}, depth : 0..MaxDepth, session : Sessions, budget : 0..MaxPerAgent]

TypeOK ==
  /\ tree \in [Ids -> Requests] /\ pc \in [Ids -> Places] /\ token \in [Ids -> BOOLEAN]
  /\ kick \in [Ids -> {"none", "timeout", "cancel"}] /\ status \in [Ids -> Statuses]
  /\ started \in 0..MaxTotal /\ consumed \in Int /\ reserved \in Int
  /\ free \in 0..MaxConcurrent /\ doomed \subseteq Ids

Init ==
  /\ tree = [a \in Ids |-> [parent |-> NoId, depth |-> 0, session |-> CHOOSE s \in Sessions : TRUE,
                            budget |-> 0]]
  /\ pc = [a \in Ids |-> "none"] /\ token = [a \in Ids |-> FALSE] /\ kick = [a \in Ids |-> "none"]
  /\ status = [a \in Ids |-> "none"] /\ started = 0 /\ consumed = 0 /\ reserved = 0
  /\ free = MaxConcurrent /\ doomed = {}

Working   == {a \in Ids : pc[a] \in {"working", "stopping"}}  \* running and no result
Unsettled == {a \in Ids : pc[a] # "none" /\ status[a] = "none"}

-----------------------------------------------------------------------------
(* spawn                                                                    *)

Within(b) == b \in Budget /\ consumed + reserved + b <= MaxTokens

\* When the audit sink refuses the event, nothing changes.
Spawn(parent, session, b) ==
  LET id == started + 1
      depth == IF parent = NoId THEN 1 ELSE tree[parent].depth + 1
  IN
  /\ started < MaxTotal /\ Within(b)
  /\ parent # NoId => parent \in Working /\ tree[parent].session = session
  /\ depth <= MaxDepth
  /\ tree' = [tree EXCEPT ![id] = [parent |-> parent, depth |-> depth, session |-> session,
                                   budget |-> b]]
  /\ pc' = [pc EXCEPT ![id] = "new"]
  /\ started' = id /\ reserved' = reserved + b
  /\ UNCHANGED <<token, kick, status, consumed, free, doomed>>

-----------------------------------------------------------------------------
(* _execute                                                                 *)

Holders == {a \in Ids : pc[a] \in {"granted", "working", "stopping"}}
Waiting == {a \in Ids : pc[a] = "queued" /\ kick[a] = "none"}
First(a) == pc[a] = "new" /\ \A b \in Ids : b < a => pc[b] # "new"

\* asyncio.Semaphore.locked(): also while one that was given a slot has not yet run.
Locked == free = 0 \/ Waiting # {} \/ \E b \in Ids : pc[b] = "granted"

\* Of those who wait, the first n, or all if they are fewer.
FirstWaiting(n) ==
  {next \in SUBSET Waiting :
     /\ \A b \in next, c \in Waiting \ next : b < c
     /\ Cardinality(next) <= n /\ (Cardinality(next) = n \/ next = Waiting)}

\* The semaphore's acquire(), resumed, wakes as many as it finds slots.  A refused event
\* subagent.started is a worker that fails at once.
Begin(a) ==
  /\ kick[a] = "none" /\ ~token[a]
  /\ \/ /\ First(a) /\ ~Locked
        /\ free' = free - 1 /\ pc' = [pc EXCEPT ![a] = "working"]
     \/ /\ pc[a] = "granted"
        /\ \E next \in FirstWaiting(free) :
             /\ free' = free - Cardinality(next)
             /\ pc' = [b \in Ids |-> IF b = a THEN "working" ELSE IF b \in next THEN "granted"
                                    ELSE pc[b]]
  /\ UNCHANGED <<tree, token, kick, status, started, consumed, reserved, doomed>>

Queue(a) ==
  /\ First(a) /\ Locked /\ kick[a] = "none"
  /\ pc' = [pc EXCEPT ![a] = "queued"]
  /\ UNCHANGED <<tree, token, kick, status, started, consumed, reserved, free, doomed>>

\* A task cancelled before its first step never enters _execute.
Abort(a) ==
  /\ First(a) /\ kick[a] = "cancel"
  /\ pc' = [pc EXCEPT ![a] = "aborted"] /\ kick' = [kick EXCEPT ![a] = "none"]
  /\ UNCHANGED <<tree, token, status, started, consumed, reserved, free, doomed>>

\* Mutation: an unsuccessful subagent keeps its slot.
LeavesIfCompleted(a, result) == a \in Holders /\ result = "completed"

Leaves(a, result) == a \in Holders

Charge(a, result, use) == IF result = "completed" THEN use ELSE tree[a].budget

\* Mutation: the reservation is released on success only.
ReleasedIfCompleted(a, result) == IF result = "completed" THEN tree[a].budget ELSE 0

Released(a, result) == tree[a].budget

\* The slots a has, if it has one, and those that acquire() finds when it is cancelled.
Slots(a, result) == free + (IF Leaves(a, result) THEN 1 ELSE 0)

\* The slot is left, and _finalize, in one step; n are woken at most.  The audit event comes last:
\* when it fails those who wait get its exception, and the manager's state is as here.
Settle(a, result, use, n) ==
  /\ \E next \in FirstWaiting(n) :
       /\ pc' = [b \in Ids |-> IF b = a THEN "over" ELSE IF b \in next THEN "granted" ELSE pc[b]]
       /\ free' = Slots(a, result) - Cardinality(next)
  /\ kick' = [kick EXCEPT ![a] = "none"]
  /\ token' = [token EXCEPT ![a] = @ \/ result \in {"timed_out", "cancelled"}]
  /\ status' = [status EXCEPT ![a] = result]
  /\ reserved' = reserved - Released(a, result)
  /\ consumed' = consumed + Charge(a, result, use)
  /\ UNCHANGED <<tree, started, doomed>>

\* __aexit__: release() wakes one, however many slots are free.
Leave(a, result, use) == Settle(a, result, use, IF Leaves(a, result) THEN 1 ELSE 0)

\* CancelledError in acquire(), which passes on the slot it was given and all it finds.
Withdraw(a) ==
  /\ pc[a] \in {"queued", "granted"} /\ kick[a] = "cancel"
  /\ Settle(a, "cancelled", 0, Slots(a, "cancelled"))

\* wait_for: the time is up.
Timeout(a) ==
  /\ pc[a] = "working" /\ kick[a] = "none"
  /\ kick' = [kick EXCEPT ![a] = "timeout"]
  /\ UNCHANGED <<tree, pc, token, status, started, consumed, reserved, free, doomed>>

\* The interruption reaches the worker, which passes it on ...
Interrupted(a) ==
  /\ a \in Working /\ kick[a] # "none"
  /\ Leave(a, IF kick[a] = "timeout" THEN "timed_out" ELSE "cancelled", 0)

\* ... or clears up first, and then ends as it likes.
Stop(a) ==
  /\ pc[a] = "working" /\ kick[a] # "none"
  /\ pc' = [pc EXCEPT ![a] = "stopping"] /\ kick' = [kick EXCEPT ![a] = "none"]
  /\ UNCHANGED <<tree, token, status, started, consumed, reserved, free, doomed>>

WithinBudget(a, use) == use <= tree[a].budget

Free(a) == pc[a] = "stopping" \/ (pc[a] = "working" /\ kick[a] = "none")

Complete(a, use) ==
  /\ Free(a)
  /\ Leave(a, IF WithinBudget(a, use) THEN "completed" ELSE "failed", use)

\* A worker may raise what it likes.
Raise(a) ==
  /\ Free(a)
  /\ \E result \in {"failed", "timed_out", "cancelled"} : Leave(a, result, 0)

-----------------------------------------------------------------------------
(* cancel                                                                   *)

\* The root, and those whose parent is one: ids grow from parent to child.
Line(a) ==
  LET up[b \in Ids] == IF tree[b].parent = NoId THEN {b} ELSE {b} \cup up[tree[b].parent]
  IN  up[a]

\* Mutation: the children of the root and no further.
TargetsOneLevel(root) == {a \in Ids : pc[a] # "none" /\ (a = root \/ tree[a].parent = root)}

Targets(root) == {a \in Ids : pc[a] # "none" /\ root \in Line(a)}

\* spawn gives the handle after the task's first step.
Cancel(root) ==
  /\ pc[root] \notin {"none", "new"}
  /\ LET hit == Targets(root) \cap Unsettled IN
     /\ token' = [a \in Ids |-> token[a] \/ a \in hit]
     /\ kick' = [a \in Ids |-> IF a \in hit /\ pc[a] # "aborted" THEN "cancel" ELSE kick[a]]
  /\ doomed' = doomed \cup {a \in Unsettled : root \in Line(a)}
  /\ UNCHANGED <<tree, pc, status, started, consumed, reserved, free>>

-----------------------------------------------------------------------------
Task(a) == Begin(a) \/ Queue(a) \/ Abort(a) \/ Withdraw(a)
Worker(a) == Interrupted(a) \/ Stop(a) \/ Raise(a) \/ \E use \in 0..MaxUse : Complete(a, use)

Next ==
  \/ \E parent \in Ids \cup {NoId}, s \in Sessions, b \in Budget : Spawn(parent, s, b)
  \/ \E a \in Ids : Task(a) \/ Timeout(a) \/ Worker(a) \/ Cancel(a)

\* The loop runs every task that can run, and every timer.  A worker that has been interrupted
\* ends; one that has not, and those who spawn and cancel, owe nothing.
Owed(a) == Task(a) \/ Timeout(a) \/ ((kick[a] # "none" \/ pc[a] = "stopping") /\ Worker(a))
Fairness == \A a \in Ids : WF_vars(Owed(a))

Spec == Init /\ [][Next]_vars
FairSpec == Spec /\ Fairness

-----------------------------------------------------------------------------
(* Properties.                                                              *)

\* What is reserved is what those without a result were granted: every way out of a task gives
\* its reservation back once.  A task cancelled before its first step has no result, and keeps it.
TokensConserved ==
  reserved = SumTo([a \in Ids |-> IF a \in Unsettled THEN tree[a].budget ELSE 0], MaxTotal)

\* Spawned, failed, interrupted and completed in any order, those who run and those who are done
\* never commit the manager to more than the aggregate budget.
NoOvercommit == consumed + reserved <= MaxTokens

\* No slot is lost or given twice on any way out of _execute, and nobody waits beside a free one,
\* unless one that was given a slot, and is perhaps cancelled, is about to run and wake the next.
SlotsCounted == free + Cardinality(Holders) = MaxConcurrent
NoIdleSlot   == free > 0 /\ Waiting # {} => \E a \in Ids : pc[a] = "granted"
SlotsConserved == SlotsCounted /\ NoIdleSlot

\* docs/design/agent-subagents.md:18: cancel() reaches every descendant there is, those in the
\* queue included: they never begin, and a worker under way ends only after it has been told.
CancelReaches ==
  [][\A a \in doomed :
       /\ pc[a] \notin {"working", "stopping"} => pc'[a] \notin {"working", "stopping"}
       /\ pc[a] = "working" /\ pc'[a] = "over" => status'[a] = "cancelled"]_vars

\* Whoever holds the slots, parents waiting for their children included, every subagent ends.
Ends == \A a \in Ids : []<>(pc[a] \in {"none", "over", "aborted"})

-----------------------------------------------------------------------------
(* What the proofs need besides.                                            *)

Numbered == \A a \in Ids : pc[a] = "none" <=> a > started

\* Those a cancel() was meant for have a CancelledError coming, unless they have met it.
DoomedTold ==
  \A a \in doomed : /\ pc[a] # "none"
                    /\ pc[a] \in {"new", "queued", "granted", "working"} => kick[a] = "cancel"

Inductive == TypeOK /\ NoOvercommit /\ SlotsConserved /\ Numbered /\ DoomedTold
=============================================================================
