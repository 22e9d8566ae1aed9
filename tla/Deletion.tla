------------------------------ MODULE Deletion ------------------------------
(***************************************************************************)
(* PermanentDeletionCoordinator (zeaz_enterprise/deletion.py): a dry run   *)
(* resolves the target and binds a plan to what it saw; execute() resolves *)
(* it again, verifies one or two grants and calls the provider.  Each call *)
(* back (resolver, verifier, executor) is an await, so the target, the     *)
(* clock and the other executions move between them.                       *)
(***************************************************************************)
EXTENDS Integers, Sequences, FiniteSets

CONSTANTS
  Principals,   \* who may authorise
  Versions,     \* what the resolver may see: [state, wide], wide = organization_wide
  Lifetime,     \* preview_lifetime_seconds
  GrantLife,    \* bound: the validity of a grant
  MaxPreviews,     \* bound: previews
  MaxGrants,    \* bound: grants
  MaxTime       \* bound: the last tick of the clock

ASSUME DeletionAssumption ==
  /\ Lifetime \in Nat \ {0} /\ GrantLife \in Nat \ {0}
  /\ MaxPreviews \in Nat /\ MaxGrants \in Nat /\ MaxTime \in Nat
  /\ \A v \in Versions : v.wide \in BOOLEAN

VARIABLES
  time,         \* the clock
  target,       \* what a resolver sees now
  previewing,   \* the clock readings of the dry runs that are being resolved
  previews,     \* the previews returned, by plan id
  grants,       \* grants the authorization service has issued
  execution,    \* the execute() call of each plan, or NoExecution
  deletions     \* history: the latest call of the executor, if any

deletionVars ==
  <<time, target, previewing, previews, grants, execution, deletions>>

-----------------------------------------------------------------------------
\* "seen" is history: what the target has been since the call began.
NoExecution == [at |-> "none", now |-> 0, current |-> {}, verified |-> <<>>, seen |-> {}]

Plans == DOMAIN previews

\* required_approvals
RequiredApprovals(version) == IF version.wide THEN 2 ELSE 1

DeletionInit ==
  /\ time = 0
  /\ target \in Versions
  /\ previewing = {} /\ previews = <<>> /\ grants = {} /\ deletions = {}
  /\ execution = <<>>

ClockTicks ==
  /\ time < MaxTime
  /\ time' = time + 1
  /\ UNCHANGED <<target, previewing, previews, grants, execution, deletions>>

TargetChanges ==
  /\ target' \in Versions \ {target}
  /\ execution' = [p \in Plans |->
       IF execution[p].at = "none" THEN NoExecution
       ELSE [execution[p] EXCEPT !.seen = @ \union {target'}]]
  /\ UNCHANGED <<time, previewing, previews, grants, deletions>>

\* preview() up to the resolver's await: the clock is read before it.
BeginPreview ==
  /\ previewing = {} /\ Len(previews) < MaxPreviews
  /\ previewing' = {time}
  /\ UNCHANGED <<time, target, previews, grants, execution, deletions>>

\* The resolver answers with what it sees, or fails.  The digest is over the
\* whole resolved value, so it is the version itself.
EndPreview ==
  \E now \in previewing :
    /\ previewing' = {}
    /\ previews' = Append(previews,
         [digest |-> target, required |-> RequiredApprovals(target),
          created |-> now, expires |-> now + Lifetime])
    /\ execution' = Append(execution, NoExecution)
    /\ UNCHANGED <<time, target, grants, deletions>>

PreviewFails ==
  /\ previewing # {} /\ previewing' = {}
  /\ UNCHANGED <<time, target, previews, grants, execution, deletions>>

\* The authorization service: anybody may allow or deny a plan he was shown.
Authorize(principal, p) ==
  /\ Cardinality(grants) < MaxGrants
  /\ \E decision \in {"allow", "deny"} :
       grants' = grants \union
         {[principal |-> principal, plan |-> p, digest |-> previews[p].digest,
           decision |-> decision, issued |-> time, expires |-> time + GrantLife]}
  /\ UNCHANGED <<time, target, previewing, previews, execution, deletions>>

\* execute() up to the resolver: one clock reading for the whole call.
ExecuteDeletion(p) ==
  /\ execution[p].at = "none"
  /\ previews[p].created <= time /\ time < previews[p].expires
  /\ execution' = [execution EXCEPT ![p] =
       [NoExecution EXCEPT !.at = "resolving", !.now = time, !.seen = {target}]]
  /\ UNCHANGED <<time, target, previewing, previews, grants, deletions>>

\* Mutation: the target is resolved again and not compared.
AnyDigest(resolved, preview) == TRUE

\* The digest of what is resolved now against the preview's.
SameDigest(resolved, preview) == resolved = preview.digest

ResolveAgain(p) ==
  /\ execution[p].at = "resolving"
  /\ execution' = [execution EXCEPT ![p] =
       IF SameDigest(target, previews[p])
         THEN [@ EXCEPT !.at = "verifying", !.current = {target}]
         ELSE NoExecution]
  /\ UNCHANGED <<time, target, previewing, previews, grants, deletions>>

\* _verify_grant(): bound to the plan and its digest, and valid at the reading
\* execute() began with.
GrantAllows(grant, p, now) ==
  /\ grant.decision = "allow"
  /\ grant.plan = p /\ grant.digest = previews[p].digest
  /\ grant.issued <= now /\ now < grant.expires

\* As many tokens as required are verified one after another, an await each; a
\* token may stand for any grant, of this plan or another.
VerifyGrant(p, grant) ==
  LET run == execution[p]
  IN /\ run.at = "verifying" /\ Len(run.verified) < previews[p].required
     /\ execution' = [execution EXCEPT ![p] =
          IF GrantAllows(grant, p, run.now)
            THEN [run EXCEPT !.verified = Append(@, grant)]
            ELSE NoExecution]
     /\ UNCHANGED <<time, target, previewing, previews, grants, deletions>>

\* len(principals) == len(set(principals))
Distinct(verified) ==
  \A i, j \in DOMAIN verified : verified[i].principal = verified[j].principal => i = j

\* The call of the executor with the value that was resolved.  What it answers
\* (an operation id, an invalid one, an exception) only shapes the caller's answer.
Delete(p) ==
  LET run == execution[p]
  IN /\ run.at = "verifying" /\ Len(run.verified) = previews[p].required
     /\ execution' = [execution EXCEPT ![p] = NoExecution]
     /\ deletions' = IF Distinct(run.verified)
          THEN {[plan |-> p, began |-> run.now, seen |-> run.seen, resolved |-> run.current]}
          ELSE deletions
     /\ UNCHANGED <<time, target, previewing, previews, grants>>

\* The resolver or the verifier raises, or the caller cancels.
Abandon(p) ==
  /\ execution[p].at # "none"
  /\ execution' = [execution EXCEPT ![p] = NoExecution]
  /\ UNCHANGED <<time, target, previewing, previews, grants, deletions>>

DeletionNext ==
  \/ ClockTicks \/ TargetChanges
  \/ BeginPreview \/ EndPreview \/ PreviewFails
  \/ \E p \in Plans :
       \/ \E principal \in Principals : Authorize(principal, p)
       \/ ExecuteDeletion(p) \/ ResolveAgain(p) \/ (\E grant \in grants : VerifyGrant(p, grant)) \/ Delete(p) \/ Abandon(p)

DeletionSpec == DeletionInit /\ [][DeletionNext]_deletionVars

-----------------------------------------------------------------------------
\* The provider is told to delete only what was previewed and was still there at
\* some moment of the execution, and only with as many allowing principals, all
\* different, as the size of the target asks for, each of whom was shown that
\* very plan before the execution began; the plan and each of these grants had
\* not expired by then.  (That they still have not when the executor is called the
\* code does not see to: it reads the clock once, as the execution begins.)
DeletedAsAuthorized ==
  \A d \in deletions :
    LET preview == previews[d.plan]
        allowing == {g \in grants : /\ g.plan = d.plan /\ g.decision = "allow"
                                    /\ g.issued <= d.began /\ d.began < g.expires}
    IN /\ d.resolved = {preview.digest}
       /\ preview.digest \in d.seen
       /\ preview.created <= d.began /\ d.began < preview.expires
       /\ Cardinality({g.principal : g \in allowing}) >= RequiredApprovals(preview.digest)

=============================================================================
