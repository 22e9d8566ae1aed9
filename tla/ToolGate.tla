------------------------------ MODULE ToolGate ------------------------------
(***************************************************************************)
(* What stands between a tool call and its execution: the permission       *)
(* policy (zeaz_agent/permissions.py), plan mode and the approval of plans *)
(* (plan.py), and the hooks that run before and after (hooks.py).          *)
(*                                                                         *)
(* The dispatcher that calls these is not part of the repository: it is    *)
(* external, and may present decisions made for another call or session,   *)
(* plans changed after their approval, and approvals of other plans.       *)
(* Digests are injective: a digest is modelled by what it is taken of.     *)
(***************************************************************************)
EXTENDS Integers, Sequences, FiniteSets

CONSTANTS
  Calls,         \* tool calls, [id, name, arguments]
  Contexts,      \* [session, correlation] of the runs
  PlanSessions,  \* sessions plans are drawn up for
  RuleSet,       \* rules a policy may have, [id, effect, matches, priority]
  Hooks,         \* the hooks in order, [phase, policy]
  ReadOnly,      \* names of the tools declared as not mutating
  MaxDecisions,  \* bound of the model on decisions
  MaxPlans,      \* bound of the model on plans drawn up
  NoPlan

ASSUME GateAssumption ==
  /\ IsFiniteSet(RuleSet)
  /\ \A r \in RuleSet :
       /\ r.effect \in {"allow", "ask", "deny"}
       /\ r.priority \in Int /\ r.id \in Nat /\ r.matches \subseteq Calls
  /\ Hooks \in Seq([phase : {"pre_tool", "post_tool"},
                    policy : {"fail_closed", "fail_open"}])
  /\ MaxDecisions \in Nat /\ MaxPlans \in Nat

VARIABLES
  rules, default,  \* the policy; its default is to ask unless configured
  mode,            \* execution_mode of each session
  decisions,       \* PermissionDecisions, recorded
  plan,            \* the plan in hand: [session, actions]
  drafts,          \* plans drawn up, bounded by MaxPlans
  approvals,       \* PlanApprovals
  runner,          \* runner[call]: how far its hooks are
  executed,        \* calls executed, and in which context
  presented        \* those whose result was presented as successful

gateVars ==
  <<rules, default, mode, decisions, plan, drafts, approvals, runner,
    executed, presented>>

-----------------------------------------------------------------------------
(* permissions.py *)

Precedence == [deny |-> 2, ask |-> 1, allow |-> 0]

\* The key of min() in decide(): priority, then the stricter effect, then id.
Before(r, s) ==
  \/ r.priority > s.priority
  \/ /\ r.priority = s.priority
     /\ Precedence[r.effect] > Precedence[s.effect]
  \/ /\ r.priority = s.priority
     /\ Precedence[r.effect] = Precedence[s.effect]
     /\ r.id <= s.id

Matching(call) == {r \in rules : call \in r.matches}

Ruling(call) ==
  IF Matching(call) = {} THEN default
  ELSE (CHOOSE r \in Matching(call) :
          \A s \in Matching(call) : Before(r, s)).effect

Decision(context, call, outcome, source) ==
  [context |-> context, call |-> call, outcome |-> outcome, source |-> source]

\* decide(), whose decision its caller records.
Decide(context, call) ==
  /\ Cardinality(decisions) < MaxDecisions
  /\ decisions' = decisions \cup
       {Decision(context, call, Ruling(call), "policy")}
  /\ UNCHANGED <<rules, default, mode, plan, drafts, approvals, runner,
                 executed, presented>>

\* resolve_ask(): a user answers, for the same context and call.
ResolveAsk(d, outcome) ==
  /\ d.outcome = "ask"
  /\ Cardinality(decisions) < MaxDecisions
  /\ decisions' = decisions \cup
       {Decision(d.context, d.call, outcome, "user")}
  /\ UNCHANGED <<rules, default, mode, plan, drafts, approvals, runner,
                 executed, presented>>

\* require_allowed(): an allow that is bound to exactly this request.
RequireAllowed(context, call, d) ==
  /\ d.outcome = "allow"
  /\ d.context = context /\ d.call = call

-----------------------------------------------------------------------------
(* plan.py *)

\* _is_mutating(): unknown tools are.
IsMutating(call) == call.name \notin ReadOnly

SetPlanMode(session) ==
  /\ mode' = [mode EXCEPT ![session] = IF @ = "plan" THEN "normal" ELSE "plan"]
  /\ UNCHANGED <<rules, default, decisions, plan, drafts, approvals, runner,
                 executed, presented>>

\* Another plan, perhaps under the identifier of one that was approved.
DrawPlan ==
  /\ drafts < MaxPlans
  /\ drafts' = drafts + 1
  /\ plan' \in [session: PlanSessions, actions: SUBSET Calls]
  /\ UNCHANGED <<rules, default, mode, decisions, approvals, runner, executed,
                 presented>>

\* approve_plan(): bound to the session and the digest of the plan.
ApprovePlan ==
  /\ plan # NoPlan
  /\ approvals' = approvals \cup {[session |-> plan.session, digest |-> plan]}
  /\ UNCHANGED <<rules, default, mode, decisions, plan, drafts, runner,
                 executed, presented>>

\* Mutation: an approval bound to the session alone.
ApprovalOfSession(approval, session) ==
  plan.session = session /\ approval.session = session

\* An approval of the plan in hand, for the session.
ApprovalMatches(approval, session) ==
  /\ plan.session = session
  /\ approval = [session |-> session, digest |-> plan]

\* require_plan_allows()
RequirePlanAllows(session, call) ==
  (mode[session] = "plan" /\ IsMutating(call)) =>
    /\ plan # NoPlan
    /\ \E approval \in approvals : ApprovalMatches(approval, session)
    /\ call \in plan.actions

-----------------------------------------------------------------------------
(* hooks.py *)

Unrun == [phase |-> "pre_tool", next |-> 0, failed |-> {}]

\* The next hook of the phase from place i on; beyond the end when there is none.
NextHook(phase, i) ==
  CHOOSE j \in i..(Len(Hooks) + 1) :
    /\ j = Len(Hooks) + 1 \/ Hooks[j].phase = phase
    /\ \A k \in i..(j - 1) : Hooks[k].phase # phase

Passed(call, phase) ==
  runner[call].phase = phase /\ runner[call].next = Len(Hooks) + 1

RunHooks(call, phase) ==
  /\ IF phase = "pre_tool" THEN runner[call] = Unrun
     ELSE /\ Passed(call, "pre_tool")
          /\ \E e \in executed : e.call = call
  /\ runner' = [runner EXCEPT
       ![call].phase = phase, ![call].next = NextHook(phase, 1)]
  /\ UNCHANGED <<rules, default, mode, decisions, plan, drafts, approvals,
                 executed, presented>>

Halted == [Unrun EXCEPT !.phase = "denied"]

\* _invoke_hook(): its own verdict, or on a timeout, an exception or an
\* invalid result that of its failure policy.
Verdict(hook, answer) ==
  IF answer # "fails" THEN answer
  ELSE IF hook.policy = "fail_closed" THEN "deny" ELSE "allow"

\* One turn of the loop of _run(); a denial raises HookDenied, an outcome
\* keeps that the hook failed.
HookAnswers(call, answer) ==
  LET r == runner[call] IN
  /\ r.next \in DOMAIN Hooks
  /\ runner' = [runner EXCEPT ![call] =
       IF Verdict(Hooks[r.next], answer) = "deny" THEN Halted
       ELSE [r EXCEPT !.next = NextHook(r.phase, r.next + 1),
                      !.failed = @ \cup (IF answer = "fails" THEN {r.next} ELSE {})]]
  /\ UNCHANGED <<rules, default, mode, decisions, plan, drafts, approvals,
                 executed, presented>>

\* Cancellation passes through: the run is over, nothing is allowed.
CancelHooks(call) ==
  /\ runner[call].next \in DOMAIN Hooks
  /\ runner' = [runner EXCEPT ![call] = Halted]
  /\ UNCHANGED <<rules, default, mode, decisions, plan, drafts, approvals,
                 executed, presented>>

-----------------------------------------------------------------------------
(* The dispatcher: external *)

\* require_execution_allowed() and the call.
ExecuteTool(context, call) ==
  /\ Passed(call, "pre_tool")
  /\ \E d \in decisions : RequireAllowed(context, call, d)
  /\ RequirePlanAllows(context.session, call)
  /\ executed' = executed \cup {[context |-> context, call |-> call]}
  /\ UNCHANGED <<rules, default, mode, decisions, plan, drafts, approvals,
                 runner, presented>>

Present(call) ==
  /\ Passed(call, "post_tool")
  /\ presented' = presented \cup {call}
  /\ UNCHANGED <<rules, default, mode, decisions, plan, drafts, approvals,
                 runner, executed>>

-----------------------------------------------------------------------------
GateInit ==
  /\ rules \in SUBSET RuleSet /\ default = "ask"
  /\ mode = [s \in {c.session : c \in Contexts} |-> "normal"]
  /\ decisions = {} /\ plan = NoPlan /\ drafts = 0 /\ approvals = {}
  /\ runner = [c \in Calls |-> Unrun]
  /\ executed = {} /\ presented = {}

GateNext ==
  \/ \E k \in Contexts, c \in Calls : Decide(k, c) \/ ExecuteTool(k, c)
  \/ \E d \in decisions, o \in {"allow", "deny"} : ResolveAsk(d, o)
  \/ \E s \in DOMAIN mode : SetPlanMode(s)
  \/ DrawPlan \/ ApprovePlan
  \/ \E c \in Calls :
       \/ \E p \in {"pre_tool", "post_tool"} : RunHooks(c, p)
       \/ \E a \in {"allow", "deny", "fails"} : HookAnswers(c, a)
       \/ CancelHooks(c) \/ Present(c)

GateSpec == GateInit /\ [][GateNext]_gateVars

-----------------------------------------------------------------------------
(* Properties *)

\* The effects of the matching rules of the highest priority.
Ranking(call) ==
  LET top == {r \in Matching(call) :
                \A s \in Matching(call) : s.priority <= r.priority}
  IN IF top = {} THEN {default} ELSE {r.effect : r \in top}

Hooked(call) ==
  /\ runner[call] # Halted
  /\ \A i \in runner[call].failed : Hooks[i].policy = "fail_open"

\* A call is executed only when no matching rule of the highest priority denies
\* it, when a user has allowed exactly this call if one of them asks, and in
\* plan mode only when a plan that contains exactly this call was approved for
\* the session, whatever decisions, plans and approvals the dispatcher mixes
\* up (decide(), resolve_ask(), require_execution_allowed()); and neither
\* executed nor presented past a fail-closed hook that has failed, timed out
\* or been cancelled (_invoke_hook()).
ExecutedAuthorized ==
  [][/\ \A e \in executed' \ executed :
       /\ "deny" \notin Ranking(e.call)
       /\ "ask" \in Ranking(e.call) =>
            Decision(e.context, e.call, "allow", "user") \in decisions
       /\ (mode[e.context.session] = "plan" /\ IsMutating(e.call)) =>
            \E a \in approvals :
              /\ a.digest.session = e.context.session
              /\ e.call \in a.digest.actions
       /\ Hooked(e.call)
     /\ \A c \in presented' \ presented : Hooked(c)]_gateVars

=============================================================================
