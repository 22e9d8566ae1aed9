--------------------------- MODULE ModelReconcile ---------------------------
(***************************************************************************)
(* ModelReconciler and the model rows of ControlStore (zeaz_control/       *)
(* models.py).  A refresh reads a provider's catalog page by page, an      *)
(* await each, while the catalog changes and other refreshes run; one      *)
(* transaction then merges what it found into the rows: new and changed    *)
(* models are written, absent ones counted and, after enough absences,     *)
(* retired; an audit event carries the counts.                             *)
(***************************************************************************)
EXTENDS Integers, Sequences, FiniteSets, FiniteSetsExt, Sums

CONSTANTS
  Models,          \* model ids, positive integers in the order of the provider
  Announced,       \* the lifecycles the provider may announce
  Refreshers,      \* coroutines that call refresh()
  PageSize,        \* page_size
  MaxPages,        \* max_pages
  RetireAfter,     \* retire_after_missing
  MaxRefreshes     \* bound: refreshes

ASSUME ReconcileAssumption ==
  /\ Models \subseteq Nat \ {0}
  /\ \E last \in Models \union {0} : \A m \in Models : m <= last
  /\ PageSize \in 1..1000 /\ MaxPages \in 1..10000 /\ RetireAfter \in 1..100
  /\ MaxRefreshes \in Nat

VARIABLES
  onOffer,         \* what the provider offers: [a subset of Models -> Announced]
  rows,            \* the models table: [a subset of Models -> record]
  refresh,         \* [Refreshers -> the loop of refresh()]
  refreshes,       \* bounded by MaxRefreshes
  audited,         \* the details of control.models.reconciled, summed up
  steady           \* history: the models the provider has offered all along

reconcileVars == <<onOffer, rows, refresh, refreshes, audited, steady>>

-----------------------------------------------------------------------------
\* cursor 0 is None at the start; found maps the models seen so far.
NoRefresh == [at |-> "idle", cursor |-> 0, pages |-> 0, found |-> <<>>]

ReconcileInit ==
  /\ onOffer \in [Models -> Announced]
  /\ rows = <<>>
  /\ refresh = [r \in Refreshers |-> NoRefresh]
  /\ refreshes = 0
  /\ audited = [created |-> 0, updated |-> 0, missing |-> 0]
  /\ steady = Models

\* The provider adds, drops or announces.
CatalogChanges ==
  /\ \E m \in Models, life \in Announced :
       \/ m \in DOMAIN onOffer
          /\ onOffer' = [n \in DOMAIN onOffer \ {m} |-> onOffer[n]]
          /\ steady' = steady \ {m}
       \/ onOffer' = [n \in DOMAIN onOffer \union {m} |-> IF n = m THEN life ELSE onOffer[n]]
          /\ steady' = steady
  /\ UNCHANGED <<rows, refresh, refreshes, audited>>

BeginRefresh(r) ==
  /\ refresh[r] = NoRefresh /\ refreshes < MaxRefreshes
  /\ refresh' = [refresh EXCEPT ![r].at = "paging"]
  /\ refreshes' = refreshes + 1
  /\ UNCHANGED <<onOffer, rows, audited, steady>>

\* list_models(cursor, limit), external: the next models after the cursor.
Beyond(cursor) == {m \in DOMAIN onOffer : m > cursor}

Page(cursor) ==
  {m \in Beyond(cursor) : Cardinality({n \in Beyond(cursor) : n < m}) < PageSize}

\* Mutation: a discovery that reaches its page limit is taken as complete.
LastPageOrLimit(items, cursor, pages) == Beyond(cursor) = items \/ pages = MaxPages

\* next_cursor is None: the loop breaks.
LastPage(items, cursor, pages) == Beyond(cursor) = items

\* One round of the loop; the limit of pages raises.
ReadPage(r) ==
  LET items == Page(refresh[r].cursor)
      found == [m \in DOMAIN refresh[r].found \union items |->
                  IF m \in items THEN onOffer[m] ELSE refresh[r].found[m]]
      pages == refresh[r].pages + 1
  IN /\ refresh[r].at = "paging"
     /\ refresh' = [refresh EXCEPT ![r] =
          IF LastPage(items, refresh[r].cursor, pages)
            THEN [NoRefresh EXCEPT !.at = "merging", !.found = found]
          ELSE IF pages < MaxPages
            THEN [at |-> "paging", cursor |-> Max(items), pages |-> pages, found |-> found]
            ELSE NoRefresh]
     /\ UNCHANGED <<onOffer, rows, refreshes, audited, steady>>

\* A page fails, repeats a model or a cursor, or exceeds the limit of items; or
\* the stored rows cannot be read and the transaction is rolled back.
RefreshFails(r) ==
  /\ refresh[r].at # "idle"
  /\ refresh' = [refresh EXCEPT ![r] = NoRefresh]
  /\ UNCHANGED <<onOffer, rows, refreshes, audited, steady>>

NewRow(life) == [lifecycle |-> life, missing |-> 0, revision |-> 1]

Same(row, life) == row.lifecycle = life /\ row.missing = 0

\* A model of the discovery: unchanged, or rewritten with the next revision.
Merged(row, life) ==
  IF Same(row, life) THEN row
  ELSE [lifecycle |-> life, missing |-> 0, revision |-> row.revision + 1]

\* A row whose model was not discovered.
Absent(row) ==
  [lifecycle |-> IF row.missing + 1 >= RetireAfter THEN "retired" ELSE row.lifecycle,
   missing |-> row.missing + 1, revision |-> row.revision + 1]

\* reconcile_models(): one transaction over the rows there are when it begins.
Reconcile(r) ==
  LET found == refresh[r].found
      old == DOMAIN rows
      changed == {m \in old \intersect DOMAIN found : ~Same(rows[m], found[m])}
  IN /\ refresh[r].at = "merging"
     /\ rows' = [m \in old \union DOMAIN found |->
          IF m \notin old THEN NewRow(found[m])
          ELSE IF m \in DOMAIN found THEN Merged(rows[m], found[m])
          ELSE Absent(rows[m])]
     /\ audited' = [created |-> audited.created + Cardinality(DOMAIN found \ old),
                    updated |-> audited.updated + Cardinality(changed),
                    missing |-> audited.missing + Cardinality(old \ DOMAIN found)]
     /\ refresh' = [refresh EXCEPT ![r] = NoRefresh]
     /\ UNCHANGED <<onOffer, refreshes, steady>>

ReconcileNext ==
  \/ CatalogChanges
  \/ \E r \in Refreshers : BeginRefresh(r) \/ ReadPage(r) \/ RefreshFails(r) \/ Reconcile(r)

ReconcileSpec == ReconcileInit /\ [][ReconcileNext]_reconcileVars

-----------------------------------------------------------------------------
\* A model the provider has offered all along is never counted missing, though
\* its offer changes between pages, refreshes overlap, fail half way and merge
\* in another order than they began.  And the rows and the audit agree: every
\* revision of every row is one created, updated or missing model of an event.
CatalogKept ==
  /\ \A m \in steady \intersect DOMAIN rows : rows[m].missing = 0
  /\ SumTo([m \in Nat |-> IF m \in DOMAIN rows THEN rows[m].revision ELSE 0],
           Max(Models \union {0}))
       = audited.created + audited.updated + audited.missing

=============================================================================
