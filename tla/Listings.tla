------------------------------ MODULE Listings ------------------------------
(***************************************************************************)
(* Paged listings.  The admin, compliance, managed-agent and memory        *)
(* clients (zeaz_enterprise) read a collection page by page while others   *)
(* add to it and delete from it; the catalogs of the control plane         *)
(* (files.py, batches.py) are read the same way by its own clients.  Rows  *)
(* are numbers in the order of the listing.  A provider serves the rows it *)
(* has, but the cursor it names may be any.                                *)
(***************************************************************************)
EXTENDS Integers, Sequences, FiniteSets, SequencesExt, Sums

CONSTANTS
  Ids,           \* rows, 1..n in the order of the listing
  PageLimit,     \* page_size, limit
  PagesLimit,    \* max_pages
  ItemsLimit,    \* max_items
  MaxEdits       \* bound: rows added or deleted

ASSUME ListingAssumption ==
  /\ Ids \subseteq Nat \ {0} /\ IsFiniteSet(Ids)
  /\ PageLimit \in Nat \ {0} /\ PagesLimit \in Nat \ {0}
  /\ ItemsLimit \in Nat /\ ItemsLimit >= PageLimit /\ MaxEdits \in Nat

VARIABLES
  collection,    \* the rows that exist
  edits,         \* bound: rows added or deleted so far
  lister,        \* the protocol of the listing
  cursor,        \* the last cursor or token followed, 0 for none
  cursors,       \* those met so far
  listed,        \* items
  pagesRead,     \* requests made
  listing,       \* "asking", "done" (returned) or "failed" (raised)
  lasting        \* history: the rows that were there all the time

listingVars == <<collection, edits, lister, cursor, cursors, listed, pagesRead, listing, lasting>>

\* Cursors that are identifiers of rows, opaque tokens, and the service's own pages.
ById   == {"openai_admin", "anthropic_admin", "activities"}
ByToken == {"organizations", "managed_agents", "agent_memory"}
Own    == {"files", "batches"}

ListingInit ==
  /\ collection \in SUBSET Ids /\ lasting = collection /\ edits = 0
  /\ lister \in ById \union ByToken \union Own
  /\ cursor = 0 /\ cursors = {} /\ listed = <<>> /\ pagesRead = 0
  /\ listing = "asking"

-----------------------------------------------------------------------------
\* The rows behind a position, the page of them, and whether there are more.
Behind(position) == {id \in collection : id > position}

PageRows(position) ==
  Ascending({id \in Behind(position) : Below(Behind(position), id) < PageLimit})

More(position) == Cardinality(Behind(position)) > PageLimit

LastRow(rows) == IF rows = <<>> THEN 0 ELSE Last(rows)

\* A page of a provider: rows from the cursor on, or the first ones again; whether
\* there are more, which it may claim in vain; and a cursor or token, 0 for none.
\* Tokens are opaque: one not met before leads on behind its page.
ProviderPages ==
  UNION {{[rows |-> PageRows(position), more |-> more, next |-> next] :
            more \in {TRUE, More(position)},
            next \in IF lister \in ById THEN Ids \union {0}
                     ELSE {LastRow(PageRows(position))} \union cursors
                            \union (IF More(position) THEN {} ELSE {0})} :
         position \in {cursor, 0}}

\* data: at most page_size objects, no identifier twice, max_items in all.
Accepted(page) ==
  /\ Len(page.rows) <= PageLimit
  /\ ToSet(page.rows) \intersect ToSet(listed) = {}
  /\ Len(listed) + Len(page.rows) <= ItemsLimit

ReturnPage(page) ==
  /\ listed' = listed \o page.rows
  /\ pagesRead' = pagesRead + 1
  /\ listing' = "done"
  /\ UNCHANGED <<cursor, cursors>>

Raise ==
  /\ listing' = "failed"
  /\ pagesRead' = pagesRead + 1
  /\ UNCHANGED <<listed, cursor, cursors>>

\* The next request; after max_pages of them the loop ends and raises.
Follow(page) ==
  /\ listed' = listed \o page.rows
  /\ pagesRead' = pagesRead + 1
  /\ cursor' = page.next
  /\ cursors' = cursors \union {page.next}
  /\ listing' = IF pagesRead + 1 = PagesLimit THEN "failed" ELSE "asking"

\* Mutation: the cursor is not compared with the last row of the page.
NamedCursor(page) == page.next \notin cursors \union {0} /\ page.rows # <<>>

\* last_id is an identifier not met before, that of the page's last row.
RowCursor(page) == NamedCursor(page) /\ page.next = LastRow(page.rows)

\* A token is a string, not met before, and its page has items.
TokenCursor(page) == page.next \notin cursors \union {0} /\ page.rows # <<>>

\* OpenAIAdminAdapter._list_all(), AnthropicAdminAdapter._list_all() and
\* AnthropicComplianceAdapter._list_id_pages(): the same loop three times.
IdPage(page) ==
  IF ~Accepted(page) THEN Raise
  ELSE IF ~page.more THEN ReturnPage(page)
  ELSE IF RowCursor(page) THEN Follow(page) ELSE Raise

\* The request fails: a transport error, a redirect, a status, too many bytes, no
\* JSON object, or keys that are not those of a page.
RequestFails == Raise

IdListing == RequestFails \/ \E page \in ProviderPages : IdPage(page)

OpenAIAdminPage == lister = "openai_admin" /\ IdListing
AnthropicAdminPage == lister = "anthropic_admin" /\ IdListing
ActivityPage == lister = "activities" /\ IdListing

\* _list_opaque_pages(): has_more and next_page have to agree.
OrganizationPage ==
  /\ lister = "organizations"
  /\ RequestFails \/ \E page \in ProviderPages :
       IF ~Accepted(page) THEN Raise
       ELSE IF page.more THEN IF TokenCursor(page) THEN Follow(page) ELSE Raise
       ELSE IF page.next = 0 THEN ReturnPage(page) ELSE Raise

\* A page without has_more: no next_page ends the listing.
TokenPage(page) ==
  IF ~Accepted(page) THEN Raise
  ELSE IF page.next = 0 THEN ReturnPage(page)
  ELSE IF TokenCursor(page) THEN Follow(page) ELSE Raise

TokenListing == RequestFails \/ \E page \in ProviderPages : TokenPage(page)

ManagedAgentPage == lister = "managed_agents" /\ TokenListing
AgentMemoryPage == lister = "agent_memory" /\ TokenListing

\* The listing is read to its end and one of its rows does not validate.
ConversionFails == lister \notin Own /\ ~More(cursor) /\ Raise

\* rows[-1][0] of the rows that are returned
OwnCursor(rows) == LastRow(rows)

\* SELECT ... WHERE id > after ORDER BY id LIMIT limit + 1, cut to limit.
OwnPage ==
  LET rows == PageRows(cursor) IN
  IF More(cursor) THEN Follow([rows |-> rows, next |-> OwnCursor(rows)])
  ELSE ReturnPage([rows |-> rows])

FilesPage == lister = "files" /\ OwnPage
BatchesPage == lister = "batches" /\ OwnPage

ListingStep ==
  /\ listing = "asking"
  /\ \/ OpenAIAdminPage \/ AnthropicAdminPage \/ ActivityPage
     \/ OrganizationPage \/ ManagedAgentPage \/ AgentMemoryPage
     \/ FilesPage \/ BatchesPage
     \/ ConversionFails
  /\ UNCHANGED <<collection, edits, lister, lasting>>

\* Others add and delete rows meanwhile (external).
Edit ==
  /\ listing = "asking" /\ edits < MaxEdits /\ edits' = edits + 1
  /\ \E id \in Ids :
       collection' = IF id \in collection THEN collection \ {id} ELSE collection \union {id}
  /\ lasting' = lasting \intersect collection'
  /\ UNCHANGED <<lister, cursor, cursors, listed, pagesRead, listing>>

ListingNext == ListingStep \/ Edit
ListingSpec == ListingInit /\ [][ListingNext]_listingVars

-----------------------------------------------------------------------------
\* A listing that returns is whole: every row that was there from its first
\* request to its last is in it, no row is in it twice, whatever was added or
\* deleted between two pages and whatever cursor the provider named; one that
\* cannot be is refused, within the limits of pages and of a client's items.
ListingWhole ==
  /\ pagesRead <= PagesLimit /\ (lister \notin Own => Len(listed) <= ItemsLimit)
  /\ listing = "done" => lasting \subseteq ToSet(listed) /\ IsInjective(listed)

=============================================================================
