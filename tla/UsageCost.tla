------------------------------ MODULE UsageCost ------------------------------
(***************************************************************************)
(* UsageCostService (zeaz_control/usage.py): usage and cost events arrive  *)
(* in any order and any number of times, from several importers; an id is  *)
(* stored once with one payload, a cost only for a usage event of its own  *)
(* scope, and each event that is stored is audited in its transaction.     *)
(***************************************************************************)
EXTENDS Integers, Sequences, FiniteSets

CONSTANTS
  UsageEvents,   \* records [id, scope, amount]: what may be delivered
  CostEvents,    \* records [id, usage, scope, amount]
  MaxAudits      \* bound: audit events

ASSUME UsageAssumption ==
  /\ \A u \in UsageEvents : DOMAIN u = {"id", "scope", "amount"}
  /\ \A c \in CostEvents : DOMAIN c = {"id", "usage", "scope", "amount"}
  /\ MaxAudits \in Nat

VARIABLES
  usageRows,     \* control_usage_events
  costRows,      \* control_cost_events
  usageAudit     \* control_audit: the events of this service, in order

usageVars == <<usageRows, costRows, usageAudit>>

UsageInit == usageRows = {} /\ costRows = {} /\ usageAudit = <<>>

-----------------------------------------------------------------------------
\* Mutation: an id is looked up together with its payload.
NoSameRow(table, event) == event \notin table

\* SELECT ... WHERE id = ? finds nothing.  (When it finds the same payload the
\* event is returned again, when it finds another one the call raises.)
NoRow(table, event) == \A row \in table : row.id # event.id

Ingest(table, event) ==
  IF NoRow(table, event) THEN table \union {event} ELSE table

Audit(table, event, type) ==
  IF NoRow(table, event) THEN Append(usageAudit, [type |-> type, id |-> event.id]) ELSE usageAudit

\* ingest_usage()
IngestUsage(event) ==
  /\ Len(usageAudit) < MaxAudits
  /\ usageRows' = Ingest(usageRows, event)
  /\ usageAudit' = Audit(usageRows, event, "control.usage.ingested")
  /\ UNCHANGED costRows

\* The usage event is there and of the same provider, account and model.
InScope(event) ==
  \E usage \in usageRows : usage.id = event.usage /\ usage.scope = event.scope

\* ingest_cost(): an unknown usage or another scope raises before the lookup.
IngestCost(event) ==
  /\ Len(usageAudit) < MaxAudits
  /\ InScope(event)
  /\ costRows' = Ingest(costRows, event)
  /\ usageAudit' = Audit(costRows, event, "control.cost.ingested")
  /\ UNCHANGED usageRows

UsageNext ==
  \/ \E event \in UsageEvents : IngestUsage(event)
  \/ \E event \in CostEvents : IngestCost(event)

UsageSpec == UsageInit /\ [][UsageNext]_usageVars

-----------------------------------------------------------------------------
\* However deliveries repeat, conflict and overtake one another: no id is charged
\* twice, every cost belongs to a stored usage of its scope, and the audit holds
\* each stored event exactly once, a usage before any of its costs.
ChargedOnce ==
  /\ Cardinality(usageRows) + Cardinality(costRows) = Len(usageAudit)
  /\ \A i, j \in DOMAIN usageAudit : usageAudit[i] = usageAudit[j] => i = j
  /\ \A cost \in costRows : \E usage \in usageRows :
       /\ usage.id = cost.usage /\ usage.scope = cost.scope
       /\ \E i, j \in DOMAIN usageAudit :
            i < j /\ usageAudit[i].id = usage.id /\ usageAudit[j].id = cost.id

=============================================================================
