---------------------------- MODULE LibraryProofs ----------------------------
(***************************************************************************)
(* Proofs about modules that share no state: the containers of LxcBackend, *)
(* the ingestion of UsageCost, the connections of EgressProxy, the files   *)
(* of FileTransfer, the deliveries of Webhooks, the credential of Wif, the *)
(* deletions of Deletion, the tables of AgingTables, the catalog of        *)
(* ModelReconcile, the events of StreamTranslators, the output of          *)
(* ContainerRun, the pages of Listings and the lines of BatchResults, for  *)
(* any number of those who use them.                                       *)
(***************************************************************************)
EXTENDS UsageCost, LxcBackend, EgressProxy, FileTransfer, Webhooks, Wif, Deletion,
        AgingTables, ModelReconcile, StreamTranslators, ContainerRun, Listings,
        BatchResults, SumProofs, TLAPS, FiniteSetTheorems, SequenceTheorems

-----------------------------------------------------------------------------
(* LxcBackend *)

LxcTypes ==
  /\ definition \in [Names -> {"none", "directory", "config"}]
  /\ runtime \in [Names -> {"none", "stopped", "running"}]
  /\ applied \in [Names -> SUBSET Settings]
  /\ commands \subseteq Names
  /\ step \in [Names -> {"idle", "defining", "starting", "verifying", "verified", "undoing"}]

\* While a call creates a container nobody may execute its job, and until the config
\* is there nobody removes its definition.
Creating ==
  \A n \in Names :
    /\ step[n] # "idle" => n \notin commands
    /\ step[n] = "defining" => n \in Managed

\* A container that runs, or may yet start, has a definition or lost it blindly.
Findable ==
  \A n \in Names : runtime[n] = "running" \/ InFlight(n) => n \in Managed \union blind

\* What was read of a container's isolation holds until a late start.
ReadIsolated ==
  \A n \in Names :
    n \in commands \/ step[n] = "verified" => n \in late \/ Verified \subseteq applied[n]

LxcInv == LxcTypes /\ Creating /\ Findable /\ ReadIsolated

\* At the start no container is defined and nobody is at work.
LEMMA LxcStart == LxcInit => LxcInv
  BY DEF LxcInit, LxcInv, LxcTypes, Creating, Findable, InFlight, ReadIsolated

\* A container that boots has settings that were asked for; no other changes.
LEMMA BootKeeps ==
  ASSUME LxcTypes, NEW n \in Names, Boot(n)
  PROVE  /\ runtime' \in [Names -> {"none", "stopped", "running"}]
         /\ applied' \in [Names -> SUBSET Settings]
         /\ \A o \in Names : o # n => runtime'[o] = runtime[o] /\ applied'[o] = applied[o]
  BY DEF LxcTypes, Boot, Rendered

\* What is dismantled does not run and cannot start any more, or its definition went
\* blindly; the others stay as they are.
LEMMA DismantleKeeps ==
  ASSUME LxcTypes, NEW n \in Names, Dismantle(n)
  PROVE  /\ runtime' \in [Names -> {"none", "stopped", "running"}]
         /\ definition' \in [Names -> {"none", "directory", "config"}]
         /\ n \in blind' \/ (runtime'[n] # "running" /\ ~InFlight(n))
         /\ \A o \in Names : o # n =>
              /\ runtime'[o] = runtime[o] /\ definition'[o] = definition[o]
              /\ o \in blind => o \in blind'
<1>1. PICK reported \in Reported(n) :
        /\ runtime' = [runtime EXCEPT ![n] = Stopped(n, reported)]
        /\ blind' = IF InFlight(n) \/ reported # runtime[n]
                      THEN blind \union {n} ELSE blind \ {n}
  BY DEF Dismantle
<1>2. definition' = [definition EXCEPT ![n] = DefinitionRemoved(n)]
  BY DEF Dismantle
<1>3. Stopped(n, reported) \in {"stopped", runtime[n]}
  BY DEF Stopped
<1>4. reported = runtime[n] => Stopped(n, reported) # "running"
  BY DEF Stopped
<1>5. n \in blind' \/ (reported = runtime[n] /\ ~InFlight(n))
  BY <1>1
<1>6. runtime'[n] = Stopped(n, reported)
  BY <1>1 DEF LxcTypes
<1>7. runtime' \in [Names -> {"none", "stopped", "running"}]
  BY <1>1, <1>3 DEF LxcTypes
<1>8. definition' \in [Names -> {"none", "directory", "config"}]
  BY <1>2 DEF LxcTypes, DefinitionRemoved
<1>9. \A o \in Names : o # n =>
        /\ runtime'[o] = runtime[o] /\ definition'[o] = definition[o]
        /\ o \in blind => o \in blind'
  BY <1>1, <1>2 DEF LxcTypes
<1> QED BY <1>4, <1>5, <1>6, <1>7, <1>8, <1>9

\* What only stops a container keeps the states, and starts none.
LEMMA OnlyStoppedKeeps ==
  ASSUME LxcTypes, NEW n \in Names, OnlyStopped(n)
  PROVE  /\ runtime' \in [Names -> {"none", "stopped", "running"}]
         /\ \A o \in Names : runtime'[o] = "running" => runtime[o] = "running"
         /\ UNCHANGED <<definition, blind>>
  BY DEF LxcTypes, OnlyStopped

\* A step of a call on a container, a late start, a death or a crash keeps all of it.
LEMMA LxcStep ==
  ASSUME LxcInv, [LxcNext]_lxcVars
  PROVE  LxcInv'
<1> USE DEF LxcInv
<1>1. CASE Probe
  BY <1>1 DEF Probe, LxcTypes, Creating, Findable, InFlight, Managed, ReadIsolated
<1>2. CASE Crash
  BY <1>2 DEF Crash, LxcTypes, Creating, Findable, InFlight, Managed, ReadIsolated
<1>3. ASSUME NEW n \in Names, CreateDefinition(n) PROVE LxcInv'
  BY <1>3
  DEF CreateDefinition, Goto, LxcTypes, Creating, Findable, InFlight, Managed, ReadIsolated
<1>4. ASSUME NEW n \in Names, WriteConfig(n) PROVE LxcInv'
  BY <1>4
  DEF WriteConfig, Goto, LxcTypes, Creating, Findable, InFlight, Managed, ReadIsolated
<1>5. ASSUME NEW n \in Names, Start(n) PROVE LxcInv'
  <2>1. step[n] = "starting" /\ n \in Managed \union blind /\ n \notin commands
    BY <1>5 DEF Start, Creating, Findable, InFlight
  <2>2. UNCHANGED <<definition, commands, blind, late>>
    BY <1>5 DEF Start
  <2>3. CASE Boot(n) /\ Goto(n, "verifying") /\ UNCHANGED lingering
    BY <2>1, <2>2, <2>3, BootKeeps
    DEF Goto, LxcTypes, Creating, Findable, InFlight, Managed, ReadIsolated
  <2>4. CASE Goto(n, "undoing") /\ UNCHANGED <<runtime, applied, lingering>>
    BY <2>1, <2>2, <2>4
    DEF Goto, LxcTypes, Creating, Findable, InFlight, Managed, ReadIsolated
  <2>5. CASE /\ lingering' = lingering \union {n}
             /\ Goto(n, "undoing") /\ UNCHANGED <<runtime, applied>>
    BY <2>1, <2>2, <2>5
    DEF Goto, LxcTypes, Creating, Findable, InFlight, Managed, ReadIsolated
  <2> QED BY <1>5, <2>3, <2>4, <2>5 DEF Start
<1>6. ASSUME NEW n \in Names, VerifyStarted(n) PROVE LxcInv'
  BY <1>6
  DEF VerifyStarted, Isolated, Goto, LxcTypes, Creating, Findable, InFlight, Managed,
      ReadIsolated
<1>7. ASSUME NEW n \in Names, Created(n) PROVE LxcInv'
  BY <1>7 DEF Created, Goto, LxcTypes, Creating, Findable, InFlight, Managed, ReadIsolated
<1>8. ASSUME NEW n \in Names, Undo(n) PROVE LxcInv'
  <2>1. /\ step[n] = "undoing" /\ Goto(n, "idle")
        /\ UNCHANGED <<applied, commands, lingering, late>>
    BY <1>8 DEF Undo
  <2>2. CASE Dismantle(n)
    BY <2>1, <2>2, DismantleKeeps
    DEF Goto, LxcTypes, Creating, Findable, InFlight, Managed, ReadIsolated
  <2>3. CASE OnlyStopped(n)
    BY <2>1, <2>3, OnlyStoppedKeeps
    DEF Goto, LxcTypes, Creating, Findable, InFlight, Managed, ReadIsolated
  <2> QED BY <1>8, <2>2, <2>3 DEF Undo
<1>9. ASSUME NEW n \in Names, ExecuteJob(n) PROVE LxcInv'
  <2>1. /\ runtime' \in [Names -> {"none", "stopped", "running"}]
        /\ \A o \in Names : runtime'[o] = "running" => runtime[o] = "running"
    BY <1>9 DEF ExecuteJob, Stopped, LxcTypes
  <2> QED
    BY <1>9, <2>1
    DEF ExecuteJob, LxcTypes, Creating, Findable, InFlight, Managed, ReadIsolated
<1>10. ASSUME NEW n \in Names, RemoveContainer(n) PROVE LxcInv'
  <2>1. step[n] # "defining" /\ UNCHANGED <<applied, step, lingering, late>>
    BY <1>10 DEF RemoveContainer
  <2>2. CASE Dismantle(n) /\ commands' = commands \ {n}
    BY <2>1, <2>2, DismantleKeeps
    DEF LxcTypes, Creating, Findable, InFlight, Managed, ReadIsolated
  <2>3. CASE OnlyStopped(n) /\ UNCHANGED commands
    BY <2>1, <2>3, OnlyStoppedKeeps
    DEF LxcTypes, Creating, Findable, InFlight, Managed, ReadIsolated
  <2> QED BY <1>10, <2>2, <2>3 DEF RemoveContainer
<1>11. ASSUME NEW n \in Names, CancelCreate(n) PROVE LxcInv'
  BY <1>11 DEF CancelCreate, Goto, LxcTypes, Creating, Findable, InFlight, Managed, ReadIsolated
<1>12. ASSUME NEW n \in Names, LateStart(n) PROVE LxcInv'
  <2>1. n \in Managed \union blind /\ late' = late \union {n}
    BY <1>12 DEF LateStart, Findable, InFlight
  <2>2. UNCHANGED <<definition, commands, step, blind>> /\ lingering' \subseteq lingering
    BY <1>12 DEF LateStart
  <2> QED
    BY <1>12, <2>1, <2>2, BootKeeps
    DEF LateStart, LxcTypes, Creating, Findable, InFlight, Managed, ReadIsolated
<1>13. ASSUME NEW n \in Names, Dies(n) PROVE LxcInv'
  BY <1>13 DEF Dies, LxcTypes, Creating, Findable, InFlight, Managed, ReadIsolated
<1>14. CASE UNCHANGED lxcVars
  BY <1>14 DEF lxcVars, LxcTypes, Creating, Findable, InFlight, Managed, ReadIsolated
<1> QED
  BY <1>1, <1>2, <1>3, <1>4, <1>5, <1>6, <1>7, <1>8, <1>9, <1>10, <1>11, <1>12, <1>13, <1>14
  DEF LxcNext

\* Whatever fails, is cancelled, dies or is reconciled between two runtime commands of
\* create(), execute() and remove() (lxc_backend.py), a container that runs has a
\* definition to be found by, unless that was removed while a start could still take
\* effect or on lxc-info's false word; and a job that may be executed has a container
\* whose isolation was read, unless a late start has booted it since.
THEOREM ContainersAreFound == LxcSpec => []NoHiddenContainer
<1>1. LxcInv => NoHiddenContainer
  BY DEF LxcInv, LxcTypes, Findable, ReadIsolated, NoHiddenContainer
<1> QED BY <1>1, LxcStart, LxcStep, PTL DEF LxcSpec

-----------------------------------------------------------------------------
(* UsageCost *)

EventIds == {event.id : event \in UsageEvents \cup CostEvents}
Entries == [type : {"control.usage.ingested", "control.cost.ingested"}, id : EventIds]

UsageEntry(event) == [type |-> "control.usage.ingested", id |-> event.id]
CostEntry(event)  == [type |-> "control.cost.ingested", id |-> event.id]

UsageTypes ==
  /\ usageRows \subseteq UsageEvents /\ IsFiniteSet(usageRows)
  /\ costRows \subseteq CostEvents /\ IsFiniteSet(costRows)
  /\ usageAudit \in Seq(Entries)

\* An entry is about a row, and each row has its entry.
EntriesOfRows ==
  \A i \in 1..Len(usageAudit) :
    \/ \E row \in usageRows : usageAudit[i] = UsageEntry(row)
    \/ \E row \in costRows : usageAudit[i] = CostEntry(row)

RowsEntered ==
  \A row \in usageRows : \E i \in 1..Len(usageAudit) : usageAudit[i] = UsageEntry(row)

Counted == Cardinality(usageRows) + Cardinality(costRows) = Len(usageAudit)

EntriesDistinct ==
  \A i, j \in 1..Len(usageAudit) : usageAudit[i] = usageAudit[j] => i = j

CostsBelong ==
  \A cost \in costRows : \E usage \in usageRows :
    /\ usage.id = cost.usage /\ usage.scope = cost.scope
    /\ \E i, j \in 1..Len(usageAudit) :
         i < j /\ usageAudit[i].id = usage.id /\ usageAudit[j].id = cost.id

UsageInv ==
  UsageTypes /\ EntriesOfRows /\ RowsEntered /\ Counted /\ EntriesDistinct /\ CostsBelong

\* Entries of one identifier and type are equal, others are not.
LEMMA EntriesDiffer ==
  ASSUME NEW e, NEW f
  PROVE  /\ UsageEntry(e) # CostEntry(f)
         /\ UsageEntry(e) = UsageEntry(f) => e.id = f.id
         /\ CostEntry(e) = CostEntry(f) => e.id = f.id
<1>1. UsageEntry(e).type # CostEntry(f).type
  BY DEF UsageEntry, CostEntry
<1>2. UsageEntry(e).id = e.id /\ UsageEntry(f).id = f.id
  BY DEF UsageEntry
<1>3. CostEntry(e).id = e.id /\ CostEntry(f).id = f.id
  BY DEF CostEntry
<1> QED BY <1>1, <1>2, <1>3

\* What appending an entry keeps.
LEMMA EntryAppended ==
  ASSUME UsageTypes, NEW e \in Entries, usageAudit' = Append(usageAudit, e)
  PROVE  /\ usageAudit' \in Seq(Entries)
         /\ Len(usageAudit') = Len(usageAudit) + 1
         /\ Len(usageAudit) \in Nat
         /\ usageAudit'[Len(usageAudit) + 1] = e
         /\ \A i \in 1..Len(usageAudit) : usageAudit'[i] = usageAudit[i]
  BY DEF UsageTypes

\* At the start nothing is ingested.
LEMMA UsageStart == UsageInit => UsageInv
<1> SUFFICES ASSUME UsageInit PROVE UsageInv
  OBVIOUS
<1>1. IsFiniteSet({}) /\ Cardinality({}) = 0
  BY FS_EmptySet
<1>2. Len(usageAudit) = 0 /\ usageAudit \in Seq(Entries)
  BY DEF UsageInit
<1> QED
  BY <1>1, <1>2
  DEF UsageInit, UsageInv, UsageTypes, EntriesOfRows, RowsEntered, Counted, EntriesDistinct, CostsBelong

\* A row whose identifier no row has is one more.
LEMMA OneRowMore ==
  ASSUME NEW table, IsFiniteSet(table), NEW event, NoRow(table, event)
  PROVE  /\ IsFiniteSet(table \union {event})
         /\ Cardinality(table \union {event}) = Cardinality(table) + 1
<1>1. event \notin table
  BY DEF NoRow
<1> QED BY <1>1, FS_AddElement

\* Ingesting usage whose id has no row.
LEMMA UsageIngested ==
  ASSUME UsageInv, NEW event \in UsageEvents, IngestUsage(event), NoRow(usageRows, event)
  PROVE  UsageInv'
<1> USE DEF UsageInv
<1>1. /\ usageRows' = usageRows \union {event} /\ costRows' = costRows
      /\ usageAudit' = Append(usageAudit, UsageEntry(event))
  BY DEF IngestUsage, Ingest, Audit, UsageEntry
<1>2. UsageEntry(event) \in Entries
  BY DEF UsageEntry, Entries, EventIds
<1>3. /\ usageAudit' \in Seq(Entries)
      /\ Len(usageAudit') = Len(usageAudit) + 1
      /\ Len(usageAudit) \in Nat
      /\ usageAudit'[Len(usageAudit) + 1] = UsageEntry(event)
      /\ \A i \in 1..Len(usageAudit) : usageAudit'[i] = usageAudit[i]
  BY <1>1, <1>2, EntryAppended
<1>4. IsFiniteSet(usageRows') /\ Cardinality(usageRows') = Cardinality(usageRows) + 1
  BY <1>1, OneRowMore DEF UsageTypes
<1>5. Cardinality(usageRows) \in Nat /\ Cardinality(costRows) \in Nat
  BY FS_CardinalityType DEF UsageTypes
<1>6. UsageTypes' /\ Counted'
  BY <1>1, <1>3, <1>4, <1>5 DEF UsageTypes, Counted
<1>7. EntriesOfRows' /\ RowsEntered'
  BY <1>1, <1>3 DEF EntriesOfRows, RowsEntered
<1>8. \A i \in 1..Len(usageAudit) : usageAudit[i] # UsageEntry(event)
  BY EntriesDiffer DEF EntriesOfRows, NoRow
<1>9. EntriesDistinct'
  BY <1>3, <1>8 DEF EntriesDistinct
<1>10. CostsBelong'
  BY <1>1, <1>3 DEF CostsBelong
<1> QED BY <1>6, <1>7, <1>9, <1>10

\* Ingesting a cost whose id has no row.
LEMMA CostIngested ==
  ASSUME UsageInv, NEW event \in CostEvents, IngestCost(event), NoRow(costRows, event)
  PROVE  UsageInv'
<1> USE DEF UsageInv
<1>1. /\ costRows' = costRows \union {event} /\ usageRows' = usageRows
      /\ usageAudit' = Append(usageAudit, CostEntry(event))
  BY DEF IngestCost, Ingest, Audit, CostEntry
<1>2. CostEntry(event) \in Entries
  BY DEF CostEntry, Entries, EventIds
<1>3. /\ usageAudit' \in Seq(Entries)
      /\ Len(usageAudit') = Len(usageAudit) + 1
      /\ Len(usageAudit) \in Nat
      /\ usageAudit'[Len(usageAudit) + 1] = CostEntry(event)
      /\ \A i \in 1..Len(usageAudit) : usageAudit'[i] = usageAudit[i]
  BY <1>1, <1>2, EntryAppended
<1>4. IsFiniteSet(costRows') /\ Cardinality(costRows') = Cardinality(costRows) + 1
  BY <1>1, OneRowMore DEF UsageTypes
<1>5. Cardinality(usageRows) \in Nat /\ Cardinality(costRows) \in Nat
  BY FS_CardinalityType DEF UsageTypes
<1>6. UsageTypes' /\ Counted'
  BY <1>1, <1>3, <1>4, <1>5 DEF UsageTypes, Counted
<1>7. EntriesOfRows' /\ RowsEntered'
  BY <1>1, <1>3 DEF EntriesOfRows, RowsEntered
<1>8. \A i \in 1..Len(usageAudit) : usageAudit[i] # CostEntry(event)
  BY EntriesDiffer DEF EntriesOfRows, NoRow
<1>9. EntriesDistinct'
  BY <1>3, <1>8 DEF EntriesDistinct
<1>10. CostsBelong'
  <2> SUFFICES ASSUME NEW cost \in costRows'
      PROVE \E usage \in usageRows' :
              /\ usage.id = cost.usage /\ usage.scope = cost.scope
              /\ \E i, j \in 1..Len(usageAudit') :
                   i < j /\ usageAudit'[i].id = usage.id /\ usageAudit'[j].id = cost.id
    BY DEF CostsBelong
  <2>1. CASE cost \in costRows
    BY <2>1, <1>1, <1>3 DEF CostsBelong
  <2>2. CASE cost = event
    <3>1. PICK usage \in usageRows : usage.id = event.usage /\ usage.scope = event.scope
      BY DEF IngestCost, InScope
    <3>2. PICK i \in 1..Len(usageAudit) : usageAudit[i] = UsageEntry(usage)
      BY DEF RowsEntered
    <3>3. /\ i \in 1..Len(usageAudit') /\ Len(usageAudit) + 1 \in 1..Len(usageAudit')
          /\ i < Len(usageAudit) + 1
      BY <1>3
    <3>4. usageAudit'[i].id = usage.id /\ usageAudit'[Len(usageAudit) + 1].id = cost.id
      BY <1>3, <2>2, <3>2 DEF UsageEntry, CostEntry
    <3> QED BY <1>1, <2>2, <3>1, <3>3, <3>4
  <2> QED BY <1>1, <2>1, <2>2
<1> QED BY <1>6, <1>7, <1>9, <1>10

\* What leaves the tables and the audit alone keeps the account.
LEMMA UsageKept ==
  ASSUME UsageInv, usageRows' = usageRows, costRows' = costRows, usageAudit' = usageAudit
  PROVE  UsageInv'
  BY DEF UsageInv, UsageTypes, EntriesOfRows, RowsEntered, Counted, EntriesDistinct, CostsBelong

\* An ingestion, of what is new or known or in conflict, keeps the account.
LEMMA UsageStep ==
  ASSUME UsageInv, [UsageNext]_usageVars
  PROVE  UsageInv'
<1>1. ASSUME NEW event \in UsageEvents, IngestUsage(event) PROVE UsageInv'
  <2>1. CASE NoRow(usageRows, event)
    BY <1>1, <2>1, UsageIngested
  <2>2. CASE ~NoRow(usageRows, event)
    <3>1. UNCHANGED usageVars
      BY <1>1, <2>2 DEF IngestUsage, Ingest, Audit, usageVars
    <3> QED BY <3>1, UsageKept DEF usageVars
  <2> QED BY <2>1, <2>2
<1>2. ASSUME NEW event \in CostEvents, IngestCost(event) PROVE UsageInv'
  <2>1. CASE NoRow(costRows, event)
    BY <1>2, <2>1, CostIngested
  <2>2. CASE ~NoRow(costRows, event)
    <3>1. UNCHANGED usageVars
      BY <1>2, <2>2 DEF IngestCost, Ingest, Audit, usageVars
    <3> QED BY <3>1, UsageKept DEF usageVars
  <2> QED BY <2>1, <2>2
<1>3. CASE UNCHANGED usageVars
  <2>1. usageRows' = usageRows /\ costRows' = costRows /\ usageAudit' = usageAudit
    BY <1>3 DEF usageVars
  <2> QED BY <2>1, UsageKept
<1> QED BY <1>1, <1>2, <1>3 DEF UsageNext

\* However often and in whatever order events are delivered (ingest_usage() and
\* ingest_cost() of usage.py), nothing is charged twice or to a usage that is not there.
THEOREM NothingChargedTwice == UsageSpec => []ChargedOnce
<1>1. UsageInv => ChargedOnce
  <2> SUFFICES ASSUME UsageInv PROVE ChargedOnce
    OBVIOUS
  <2>1. DOMAIN usageAudit = 1..Len(usageAudit)
    BY DEF UsageInv, UsageTypes
  <2> QED BY <2>1 DEF UsageInv, Counted, EntriesDistinct, CostsBelong, ChargedOnce
<1> QED BY <1>1, UsageStart, UsageStep, PTL DEF UsageSpec

-----------------------------------------------------------------------------
(* EgressProxy                                                              *)

Handlers == {"new", "greeting", "request", "resolving", "connecting", "replying", "relaying",
             "closing", "over"}
Statuses == {"no_method", "command_unsupported", "not_allowed", "succeeded", "general_failure"}

ProxyTypes ==
  /\ socks \in [Connections -> Handlers]
  /\ wanted \in [Connections -> SUBSET Destinations]
  /\ resolved \in [Connections -> Seq(Addresses)]
  /\ upstream \in [Connections -> SUBSET Addresses]
  /\ allowance \in [Connections -> Nat]
  /\ reading \in [Connections -> [Directions -> Nat]]
  /\ relayed \in [Connections -> Nat]
  /\ replies \in [Connections -> Seq(Statuses)]

\* An address that the policy lets connection p go to.
Permitted(p, a) == \E d \in wanted[p] : d.allowed /\ SafeResolution(a, d.literal)

\* A handler has answered at most once and no sooner than it knows the outcome; it has
\* addresses only of the destination it was asked for; and what it has relayed and what
\* it may still relay are the allowance.
InOrder(p) ==
  /\ relayed[p] + allowance[p] = MaxRelayed
  /\ Len(replies[p]) <= 1
  /\ socks[p] \notin {"replying", "relaying", "closing", "over"} => replies[p] = <<>>
  /\ socks[p] \in {"new", "greeting", "request", "resolving"} => resolved[p] = <<>> /\ upstream[p] = {}
  /\ socks[p] = "resolving" => \A d \in wanted[p] : d.allowed
  /\ socks[p] = "connecting" => resolved[p] # <<>>
  /\ \A i \in DOMAIN resolved[p] : Permitted(p, resolved[p][i])
  /\ \A a \in upstream[p] : Permitted(p, a)

SlotsTaken == IsFiniteSet(Handling) /\ Cardinality(Handling) <= MaxConnections

ProxyInv == ProxyTypes /\ SlotsTaken /\ \A p \in Connections : InOrder(p)

\* A new listener has no connection.
LEMMA ProxyStart == ProxyInit => ProxyInv
  <1> SUFFICES ASSUME ProxyInit PROVE ProxyInv
    OBVIOUS
  <1>1. ProxyTypes BY ProxyAssumption DEF ProxyInit, ProxyTypes, Handlers, Directions
  <1>2. SlotsTaken
    <2>1. Handling = {} BY DEF ProxyInit, Handling
    <2> QED BY <2>1, FS_EmptySet, ProxyAssumption DEF SlotsTaken
  <1>3. \A p \in Connections : InOrder(p)
    BY ProxyAssumption DEF ProxyInit, InOrder, Permitted
  <1> QED BY <1>1, <1>2, <1>3 DEF ProxyInv

\* What a step of connection p leaves alone.
OthersConnections(p) ==
  \A q \in Connections \ {p} :
    /\ socks'[q] = socks[q] /\ wanted'[q] = wanted[q] /\ resolved'[q] = resolved[q]
    /\ upstream'[q] = upstream[q] /\ allowance'[q] = allowance[q] /\ relayed'[q] = relayed[q]
    /\ replies'[q] = replies[q]

\* A handler that keeps its own connection in order disturbs no other, and only the first step
\* of a handler takes a slot.
LEMMA OwnStepKeeps ==
  ASSUME ProxyInv, NEW p \in Connections, ProxyTypes', OthersConnections(p), InOrder(p)',
         socks'[p] \in {"new", "over"} \/ socks[p] \notin {"new", "over"} \/ TakeSlot(p)
  PROVE  ProxyInv'
  <1>1. \A q \in Connections : InOrder(q)'
    BY DEF ProxyInv, InOrder, Permitted, OthersConnections
  <1>2. SlotsTaken'
    <2>1. Handling' \subseteq Handling \union {p} BY DEF Handling, OthersConnections
    <2>2. CASE TakeSlot(p)
      <3>1. IsFiniteSet(Handling \union {p}) /\ Cardinality(Handling \union {p}) <= MaxConnections
        <4>1. IsFiniteSet(Handling) /\ Cardinality(Handling) < MaxConnections
          BY <2>2 DEF ProxyInv, SlotsTaken, TakeSlot
        <4>2. Cardinality(Handling) \in Nat /\ MaxConnections \in Nat
          BY <4>1, FS_CardinalityType, ProxyAssumption
        <4> QED BY <4>1, <4>2, FS_AddElement
      <3>2. IsFiniteSet(Handling') /\ Cardinality(Handling') <= Cardinality(Handling \union {p})
        BY <2>1, <3>1, FS_Subset
      <3>3. Cardinality(Handling') \in Nat /\ Cardinality(Handling \union {p}) \in Nat
        BY <3>1, <3>2, FS_CardinalityType
      <3> QED BY <3>1, <3>2, <3>3, ProxyAssumption DEF SlotsTaken
    <2>3. CASE ~TakeSlot(p)
      <3>1. Handling' \subseteq Handling BY <2>1, <2>3 DEF Handling
      <3>2. IsFiniteSet(Handling) /\ Cardinality(Handling) <= MaxConnections
        BY DEF ProxyInv, SlotsTaken
      <3>3. IsFiniteSet(Handling') /\ Cardinality(Handling') <= Cardinality(Handling)
        BY <3>1, <3>2, FS_Subset
      <3>4. Cardinality(Handling') \in Nat /\ Cardinality(Handling) \in Nat
        BY <3>2, <3>3, FS_CardinalityType
      <3> QED BY <3>2, <3>3, <3>4, ProxyAssumption DEF SlotsTaken
    <2> QED BY <2>2, <2>3
  <1> QED BY <1>1, <1>2 DEF ProxyInv

\* About sequences: a sequence with a length has an item.
LEMMA SomeItem == ASSUME NEW S, NEW s \in Seq(S), Len(s) # 0 PROVE s # <<>>
  OBVIOUS

\* The handler answers and is on its way out.
LEMMA AnsweredKeeps ==
  ASSUME ProxyInv, NEW p \in Connections, NEW status \in Statuses, Answered(p, status),
         replies[p] = <<>>
  PROVE  /\ socks' \in [Connections -> Handlers] /\ replies' \in [Connections -> Seq(Statuses)]
         /\ socks'[p] = "closing" /\ Len(replies'[p]) <= 1
         /\ \A q \in Connections \ {p} : socks'[q] = socks[q] /\ replies'[q] = replies[q]
  <1>1. /\ socks \in [Connections -> Handlers] /\ replies \in [Connections -> Seq(Statuses)]
    BY DEF ProxyInv, ProxyTypes
  <1>2. Append(replies[p], status) \in Seq(Statuses) /\ Len(Append(replies[p], status)) = 1
    BY <1>1
  <1>3. replies' = [replies EXCEPT ![p] = Append(replies[p], status)] BY <1>1 DEF Answered
  <1> QED BY <1>1, <1>2, <1>3 DEF Answered, Handlers

\* A step of connection p.
LEMMA ProxyMove ==
  ASSUME ProxyInv, NEW p \in Connections,
         \/ TakeSlot(p) \/ Greeting(p) \/ Unsupported(p) \/ Requested(p) \/ Resolved(p)
         \/ Connected(p) \/ ConnectFails(p) \/ BeginRelay(p)
         \/ Interrupted(p) \/ Closed(p)
         \/ \E d \in Directions : Chunk(p, d) \/ EndOfStream(p, d)
  PROVE  ProxyInv'
  <1>3. /\ ProxyTypes /\ InOrder(p) BY DEF ProxyInv
  <1>4. CASE TakeSlot(p)
    <2>1. ProxyTypes' BY <1>3, <1>4 DEF TakeSlot, ProxyTypes, Handlers
    <2>2. InOrder(p)' BY <1>3, <1>4 DEF TakeSlot, ProxyTypes, InOrder, Permitted
    <2>3. OthersConnections(p) BY <1>3, <1>4 DEF TakeSlot, ProxyTypes, OthersConnections
    <2> QED BY <1>4, <2>1, <2>2, <2>3, OwnStepKeeps
  <1>5. ASSUME NEW status \in Statuses, Answered(p, status), socks[p] \in {"greeting", "request"},
               UNCHANGED <<wanted, resolved, upstream, allowance, reading, relayed>>
        PROVE  ProxyInv'
    <2>1. /\ socks' \in [Connections -> Handlers] /\ replies' \in [Connections -> Seq(Statuses)]
          /\ socks'[p] = "closing" /\ Len(replies'[p]) <= 1
          /\ \A q \in Connections \ {p} : socks'[q] = socks[q] /\ replies'[q] = replies[q]
      BY <1>3, <1>5, AnsweredKeeps DEF InOrder
    <2>2. ProxyTypes' BY <1>3, <1>5, <2>1 DEF ProxyTypes
    <2>3. InOrder(p)' BY <1>3, <1>5, <2>1 DEF InOrder, Permitted
    <2>4. OthersConnections(p) BY <1>5, <2>1 DEF OthersConnections
    <2> QED BY <1>5, <2>2, <2>3, <2>4, OwnStepKeeps
  <1>6. CASE Greeting(p)
    <2>1. CASE Answered(p, "no_method") BY <1>5, <1>6, <2>1 DEF Greeting, Statuses
    <2>2. CASE socks' = [socks EXCEPT ![p] = "request"] /\ replies' = replies
      <3>1. ProxyTypes' BY <1>3, <1>6, <2>2 DEF Greeting, ProxyTypes, Handlers
      <3>2. InOrder(p)' BY <1>3, <1>6, <2>2 DEF Greeting, ProxyTypes, InOrder, Permitted
      <3>3. OthersConnections(p) BY <1>3, <1>6, <2>2 DEF Greeting, ProxyTypes, OthersConnections
      <3> QED BY <1>6, <3>1, <3>2, <3>3, OwnStepKeeps DEF Greeting
    <2> QED BY <1>6, <2>1, <2>2 DEF Greeting
  <1>7. CASE Unsupported(p) BY <1>5, <1>7 DEF Unsupported, Statuses
  <1>8. CASE Requested(p)
    <2>1. PICK d \in Destinations :
            /\ wanted' = [wanted EXCEPT ![p] = {d}]
            /\ IF d.allowed
               THEN socks' = [socks EXCEPT ![p] = "resolving"] /\ replies' = replies
               ELSE Answered(p, "not_allowed")
      BY <1>8 DEF Requested
    <2>2. /\ socks[p] = "request" /\ resolved[p] = <<>> /\ upstream[p] = {} /\ replies[p] = <<>>
          /\ UNCHANGED <<resolved, upstream, allowance, reading, relayed>>
      BY <1>3, <1>8 DEF Requested, InOrder
    <2>3. /\ wanted' \in [Connections -> SUBSET Destinations] /\ wanted'[p] = {d}
          /\ \A q \in Connections \ {p} : wanted'[q] = wanted[q]
      BY <1>3, <2>1 DEF ProxyTypes
    <2>4. /\ socks' \in [Connections -> Handlers] /\ replies' \in [Connections -> Seq(Statuses)]
          /\ Len(replies'[p]) <= 1
          /\ \/ socks'[p] = "closing"
             \/ socks'[p] = "resolving" /\ replies'[p] = <<>> /\ d.allowed
          /\ \A q \in Connections \ {p} : socks'[q] = socks[q] /\ replies'[q] = replies[q]
      <3>1. CASE d.allowed BY <1>3, <2>1, <2>2, <3>1 DEF ProxyTypes, Handlers, InOrder
      <3>2. CASE ~d.allowed
        <4>1. "not_allowed" \in Statuses /\ Answered(p, "not_allowed") BY <2>1, <3>2 DEF Statuses
        <4> QED BY <2>2, <4>1, AnsweredKeeps
      <3> QED BY <3>1, <3>2
    <2>5. ProxyTypes' BY <1>3, <2>2, <2>3, <2>4 DEF ProxyTypes
    <2>6. InOrder(p)'
      <3>1. resolved'[p] = <<>> /\ DOMAIN resolved'[p] = {} /\ upstream'[p] = {} BY <2>2
      <3>2. relayed'[p] + allowance'[p] = MaxRelayed BY <1>3, <2>2 DEF InOrder
      <3>3. \A e \in wanted'[p] : e = d BY <2>3
      <3>4. Len(replies'[p]) <= 1 BY <2>4
      <3> QED BY <2>4, <3>1, <3>2, <3>3, <3>4 DEF InOrder
    <2>7. OthersConnections(p) BY <2>2, <2>3, <2>4 DEF OthersConnections
    <2> QED BY <2>2, <2>5, <2>6, <2>7, OwnStepKeeps
  <1>9. CASE Resolved(p)
    <2>1. PICK records \in SUBSET Addresses, d \in wanted[p] :
            LET safe == {a \in records : SafeResolution(a, d.literal)} IN
              /\ \E order \in SetToSeqs(safe) : resolved' = [resolved EXCEPT ![p] = order]
              /\ IF safe = {} THEN Answered(p, "not_allowed")
                 ELSE socks' = [socks EXCEPT ![p] = "connecting"] /\ replies' = replies
      BY <1>9 DEF Resolved
    <2> DEFINE safe == {a \in records : SafeResolution(a, d.literal)}
    <2>2. PICK order \in SetToSeqs(safe) : resolved' = [resolved EXCEPT ![p] = order]
      BY <2>1
    <2>3. /\ socks[p] = "resolving" /\ d.allowed /\ upstream[p] = {} /\ replies[p] = <<>>
          /\ UNCHANGED <<wanted, upstream, allowance, reading, relayed>>
      BY <1>3, <1>9 DEF Resolved, InOrder
    <2>4. IsFiniteSet(safe) /\ Cardinality(safe) \in Nat /\ (Cardinality(safe) = 0 <=> safe = {})
      <3>1. IsFiniteSet(safe)
        <4>1. safe \in SUBSET Addresses /\ IsFiniteSet(Addresses) BY ProxyAssumption
        <4> QED BY <4>1, FS_Subset
      <3> QED BY <3>1, FS_CardinalityType, FS_EmptySet
    <2>5. order \in [1..Cardinality(safe) -> safe] BY DEF SetToSeqs
    <2>6. \A a \in safe : a \in Addresses /\ SafeResolution(a, d.literal) OBVIOUS
    <2>7. /\ IF safe = {} THEN Answered(p, "not_allowed")
             ELSE socks' = [socks EXCEPT ![p] = "connecting"] /\ replies' = replies
      BY <2>1
    <2> HIDE DEF safe
    <2>8. order \in Seq(Addresses) /\ Len(order) = Cardinality(safe) /\ DOMAIN order = 1..Cardinality(safe)
      BY <2>4, <2>5, <2>6
    <2>9. /\ resolved' \in [Connections -> Seq(Addresses)] /\ resolved'[p] = order
          /\ \A q \in Connections \ {p} : resolved'[q] = resolved[q]
      BY <1>3, <2>2, <2>8 DEF ProxyTypes
    <2>10. \A i \in DOMAIN order : SafeResolution(order[i], d.literal) BY <2>5, <2>6
    <2>11. \A i \in DOMAIN resolved'[p] : Permitted(p, resolved[p][i])'
      BY <2>3, <2>9, <2>10 DEF Permitted
    <2>12. /\ socks' \in [Connections -> Handlers] /\ replies' \in [Connections -> Seq(Statuses)]
           /\ Len(replies'[p]) <= 1
           /\ \/ socks'[p] = "closing"
              \/ socks'[p] = "connecting" /\ replies'[p] = <<>> /\ safe # {}
           /\ \A q \in Connections \ {p} : socks'[q] = socks[q] /\ replies'[q] = replies[q]
      <3>1. CASE safe # {} BY <1>3, <2>3, <2>7, <3>1 DEF ProxyTypes, Handlers, InOrder
      <3>2. CASE safe = {}
        <4>1. "not_allowed" \in Statuses /\ Answered(p, "not_allowed") BY <2>7, <3>2 DEF Statuses
        <4> QED BY <2>3, <4>1, AnsweredKeeps
      <3> QED BY <3>1, <3>2
    <2>13. ProxyTypes' BY <1>3, <2>3, <2>9, <2>12 DEF ProxyTypes
    <2>14. socks'[p] = "connecting" => resolved'[p] # <<>> BY <2>4, <2>8, <2>9, <2>12
    <2>15. InOrder(p)'
      <3>1. upstream'[p] = {} BY <2>3
      <3>2. relayed'[p] + allowance'[p] = MaxRelayed BY <1>3, <2>3 DEF InOrder
      <3>3. Len(replies'[p]) <= 1 BY <2>12
      <3> QED BY <2>11, <2>12, <2>14, <3>1, <3>2, <3>3 DEF InOrder
    <2>16. OthersConnections(p) BY <2>3, <2>9, <2>12 DEF OthersConnections
    <2> QED BY <2>3, <2>13, <2>15, <2>16, OwnStepKeeps
  <1>10. CASE Connected(p)
    <2>1. resolved[p] \in Seq(Addresses) /\ resolved[p] # <<>> /\ replies[p] = <<>>
      BY <1>3, <1>10 DEF Connected, ProxyTypes, InOrder
    <2>2. Head(resolved[p]) \in Addresses /\ Permitted(p, Head(resolved[p]))
      <3>1. 1 \in DOMAIN resolved[p] /\ Head(resolved[p]) = resolved[p][1] BY <2>1
      <3> QED BY <1>3, <2>1, <3>1 DEF InOrder
    <2>3. /\ upstream' \in [Connections -> SUBSET Addresses] /\ upstream'[p] = {Head(resolved[p])}
          /\ \A q \in Connections \ {p} : upstream'[q] = upstream[q]
      BY <1>3, <1>10, <2>2 DEF Connected, ProxyTypes
    <2>4. /\ replies' \in [Connections -> Seq(Statuses)] /\ Len(replies'[p]) = 1
          /\ \A q \in Connections \ {p} : replies'[q] = replies[q]
      <3>1. replies \in [Connections -> Seq(Statuses)] BY <1>3 DEF ProxyTypes
      <3>2. /\ Append(replies[p], "succeeded") \in Seq(Statuses)
            /\ Len(Append(replies[p], "succeeded")) = 1
        BY <2>1, <3>1 DEF Statuses
      <3>3. replies' = [replies EXCEPT ![p] = Append(replies[p], "succeeded")]
        BY <1>10 DEF Connected
      <3> QED BY <3>1, <3>2, <3>3
    <2>5. /\ socks' \in [Connections -> Handlers] /\ socks'[p] = "replying" /\ socks[p] = "connecting"
          /\ \A q \in Connections \ {p} : socks'[q] = socks[q]
          /\ UNCHANGED <<wanted, resolved, allowance, reading, relayed>>
      BY <1>3, <1>10 DEF Connected, ProxyTypes, Handlers
    <2>6. ProxyTypes' BY <1>3, <2>3, <2>4, <2>5 DEF ProxyTypes
    <2>7. InOrder(p)' BY <1>3, <2>2, <2>3, <2>4, <2>5 DEF InOrder, Permitted
    <2>8. OthersConnections(p) BY <2>3, <2>4, <2>5 DEF OthersConnections
    <2> QED BY <2>5, <2>6, <2>7, <2>8, OwnStepKeeps
  <1>11. CASE ConnectFails(p)
    <2>1. /\ resolved[p] \in Seq(Addresses) /\ resolved[p] # <<>> /\ replies[p] = <<>>
          /\ socks[p] = "connecting" /\ UNCHANGED <<wanted, upstream, allowance, reading, relayed>>
      BY <1>3, <1>11 DEF ConnectFails, ProxyTypes, InOrder
    <2>2. /\ Tail(resolved[p]) \in Seq(Addresses) /\ Len(Tail(resolved[p])) = Len(resolved[p]) - 1
          /\ \A i \in DOMAIN Tail(resolved[p]) : Permitted(p, Tail(resolved[p])[i])
      <3>1. /\ Tail(resolved[p]) \in Seq(Addresses) /\ Len(Tail(resolved[p])) = Len(resolved[p]) - 1
            /\ \A i \in DOMAIN Tail(resolved[p]) :
                 i + 1 \in DOMAIN resolved[p] /\ Tail(resolved[p])[i] = resolved[p][i + 1]
        BY <2>1
      <3> QED BY <1>3, <3>1 DEF InOrder
    <2>3. /\ resolved' \in [Connections -> Seq(Addresses)] /\ resolved'[p] = Tail(resolved[p])
          /\ \A q \in Connections \ {p} : resolved'[q] = resolved[q]
      BY <1>3, <1>11, <2>2 DEF ConnectFails, ProxyTypes
    <2>4. /\ socks' \in [Connections -> Handlers] /\ replies' \in [Connections -> Seq(Statuses)]
          /\ Len(replies'[p]) <= 1
          /\ \/ socks'[p] = "closing"
             \/ socks'[p] = "connecting" /\ replies'[p] = <<>> /\ Len(resolved[p]) # 1
          /\ \A q \in Connections \ {p} : socks'[q] = socks[q] /\ replies'[q] = replies[q]
      <3>1. CASE Len(resolved[p]) # 1
        BY <1>3, <1>11, <2>1, <3>1 DEF ConnectFails, ProxyTypes, InOrder
      <3>2. CASE Len(resolved[p]) = 1
        <4>1. "general_failure" \in Statuses /\ Answered(p, "general_failure")
          BY <1>11, <3>2 DEF ConnectFails, Statuses
        <4> QED BY <2>1, <4>1, AnsweredKeeps
      <3> QED BY <3>1, <3>2
    <2>5. ProxyTypes' BY <1>3, <2>1, <2>3, <2>4 DEF ProxyTypes
    <2>6. socks'[p] = "connecting" => resolved'[p] # <<>>
      <3>1. Len(resolved[p]) \in Nat /\ Len(resolved[p]) # 0 BY <2>1
      <3>2. Len(resolved[p]) # 1 => Len(Tail(resolved[p])) # 0 BY <2>2, <3>1
      <3>3. Len(resolved[p]) # 1 => Tail(resolved[p]) # <<>> BY <2>2, <3>2, SomeItem
      <3> QED BY <2>3, <2>4, <3>3
    <2>7. \A i \in DOMAIN resolved'[p] : Permitted(p, resolved[p][i])'
      BY <2>1, <2>2, <2>3 DEF Permitted
    <2>8. \A a \in upstream'[p] : Permitted(p, a)'
      BY <1>3, <2>1 DEF InOrder, Permitted
    <2>9. InOrder(p)'
      <3>1. relayed'[p] + allowance'[p] = MaxRelayed BY <1>3, <2>1 DEF InOrder
      <3>2. Len(replies'[p]) <= 1 BY <2>4
      <3> QED BY <2>4, <2>6, <2>7, <2>8, <3>1, <3>2 DEF InOrder
    <2>10. OthersConnections(p) BY <2>1, <2>3, <2>4 DEF OthersConnections
    <2> QED BY <2>1, <2>5, <2>9, <2>10, OwnStepKeeps
  <1>12. CASE BeginRelay(p)
    <2>1. allowance[p] + 1 \in Nat BY <1>3 DEF ProxyTypes
    <2>2. [d \in Directions |-> allowance[p] + 1] \in [Directions -> Nat] BY <2>1
    <2>3. ProxyTypes' BY <1>3, <1>12, <2>2 DEF BeginRelay, ProxyTypes, Handlers
    <2>4. InOrder(p)' BY <1>3, <1>12 DEF BeginRelay, ProxyTypes, InOrder, Permitted
    <2>5. OthersConnections(p) BY <1>3, <1>12 DEF BeginRelay, ProxyTypes, OthersConnections
    <2> QED BY <1>12, <2>3, <2>4, <2>5, OwnStepKeeps DEF BeginRelay
  <1>13. ASSUME NEW at \in {"closing", "over"}, socks' = [socks EXCEPT ![p] = at], socks[p] # "new",
                socks[p] # "over",
                \/ upstream' = [upstream EXCEPT ![p] = {}] \/ upstream' = upstream,
                UNCHANGED <<wanted, resolved, allowance, relayed, replies>>,
                reading' \in [Connections -> [Directions -> Nat]]
         PROVE  ProxyInv'
    <2>1. /\ socks' \in [Connections -> Handlers] /\ socks'[p] = at
          /\ \A q \in Connections \ {p} : socks'[q] = socks[q]
      BY <1>3, <1>13 DEF ProxyTypes, Handlers
    <2>2. /\ upstream' \in [Connections -> SUBSET Addresses] /\ upstream'[p] \subseteq upstream[p]
          /\ \A q \in Connections \ {p} : upstream'[q] = upstream[q]
      BY <1>3, <1>13 DEF ProxyTypes
    <2>3. ProxyTypes' BY <1>3, <1>13, <2>1, <2>2 DEF ProxyTypes
    <2>4. InOrder(p)' BY <1>3, <1>13, <2>1, <2>2 DEF InOrder, Permitted
    <2>5. OthersConnections(p) BY <1>13, <2>1, <2>2 DEF OthersConnections
    <2> QED BY <1>13, <2>3, <2>4, <2>5, OwnStepKeeps
  <1>14. CASE Interrupted(p)
    <2>1. \/ upstream' = [upstream EXCEPT ![p] = {}] \/ upstream' = upstream
      BY <1>3, <1>14 DEF Interrupted, ProxyTypes
    <2> QED BY <1>3, <1>13, <1>14, <2>1 DEF Interrupted, ProxyTypes
  <1>15. CASE Closed(p) BY <1>3, <1>13, <1>15 DEF Closed, ProxyTypes
  <1>16. ASSUME NEW d \in Directions, Chunk(p, d) PROVE ProxyInv'
    <2>1. PICK n \in 1..reading[p][d] :
            IF WithinAllowance(p, d, n)
            THEN /\ allowance' = [allowance EXCEPT ![p] = @ - n]
                 /\ relayed' = [relayed EXCEPT ![p] = @ + n]
                 /\ reading' = [reading EXCEPT ![p][d] = allowance'[p] + 1]
                 /\ UNCHANGED <<socks, upstream>>
            ELSE /\ socks' = [socks EXCEPT ![p] = "closing"]
                 /\ upstream' = [upstream EXCEPT ![p] = {}]
                 /\ UNCHANGED <<allowance, relayed, reading>>
      BY <1>16 DEF Chunk
    <2>2. /\ socks[p] = "relaying" /\ UNCHANGED <<wanted, resolved, replies>>
          /\ reading[p] \in [Directions -> Nat] /\ allowance[p] \in Nat /\ relayed[p] \in Nat
      BY <1>3, <1>16 DEF Chunk, ProxyTypes
    <2>3. n \in Nat BY <2>2
    <2>4. CASE WithinAllowance(p, d, n)
      <3>1. allowance[p] - n \in Nat /\ relayed[p] + n \in Nat
        BY <2>2, <2>3, <2>4 DEF WithinAllowance
      <3>2. /\ allowance' \in [Connections -> Nat] /\ allowance'[p] = allowance[p] - n
            /\ relayed' \in [Connections -> Nat] /\ relayed'[p] = relayed[p] + n
            /\ \A q \in Connections \ {p} : allowance'[q] = allowance[q] /\ relayed'[q] = relayed[q]
        BY <1>3, <2>1, <2>4, <3>1 DEF ProxyTypes
      <3>3. reading' \in [Connections -> [Directions -> Nat]]
        <4>1. allowance'[p] + 1 \in Nat BY <3>1, <3>2
        <4>2. reading' = [reading EXCEPT ![p][d] = allowance'[p] + 1] BY <2>1, <2>4
        <4> QED BY <1>3, <4>1, <4>2 DEF ProxyTypes
      <3>4. ProxyTypes' BY <1>3, <2>1, <2>2, <2>4, <3>2, <3>3 DEF ProxyTypes
      <3>5. relayed'[p] + allowance'[p] = MaxRelayed
        BY <1>3, <2>2, <2>3, <3>2, ProxyAssumption DEF InOrder
      <3>6. InOrder(p)' BY <1>3, <2>1, <2>2, <2>4, <3>5 DEF InOrder, Permitted
      <3>7. OthersConnections(p) BY <2>1, <2>2, <2>4, <3>2 DEF OthersConnections
      <3> QED BY <2>2, <3>4, <3>6, <3>7, OwnStepKeeps
    <2>5. CASE ~WithinAllowance(p, d, n)
      BY <1>3, <1>13, <2>1, <2>2, <2>5 DEF ProxyTypes
    <2> QED BY <2>4, <2>5
  <1>17. ASSUME NEW d \in Directions, EndOfStream(p, d) PROVE ProxyInv'
    <2>1. reading' \in [Connections -> [Directions -> Nat]]
      BY <1>3, <1>17 DEF EndOfStream, ProxyTypes
    <2>2. /\ socks[p] = "relaying" /\ UNCHANGED <<wanted, resolved, allowance, relayed, replies>>
      BY <1>17 DEF EndOfStream
    <2>3. CASE socks' = [socks EXCEPT ![p] = "closing"] /\ upstream' = [upstream EXCEPT ![p] = {}]
      BY <1>13, <2>1, <2>2, <2>3
    <2>4. CASE UNCHANGED <<socks, upstream>>
      <3>1. ProxyTypes' BY <1>3, <2>1, <2>2, <2>4 DEF ProxyTypes
      <3>2. InOrder(p)' BY <1>3, <2>2, <2>4 DEF InOrder, Permitted
      <3>3. OthersConnections(p) BY <2>2, <2>4 DEF OthersConnections
      <3> QED BY <2>2, <3>1, <3>2, <3>3, OwnStepKeeps
    <2> QED BY <1>17, <2>3, <2>4 DEF EndOfStream
  <1> QED BY <1>4, <1>6, <1>7, <1>8, <1>9, <1>10, <1>11, <1>12, <1>14, <1>15, <1>16, <1>17

\* One step of any connection.
LEMMA ProxyStep == ProxyInv /\ [ProxyNext]_proxyVars => ProxyInv'
  <1>1. ASSUME ProxyInv, UNCHANGED proxyVars PROVE ProxyInv'
    BY <1>1 DEF proxyVars, ProxyInv, ProxyTypes, SlotsTaken, Handling, InOrder, Permitted
  <1>2. ASSUME ProxyInv, ProxyNext PROVE ProxyInv'
    BY <1>2, ProxyMove DEF ProxyNext
  <1> QED BY <1>1, <1>2

\* However often it is asked, whatever the name server answers and however the reads of the
\* two directions overlap, the proxy lets a job reach no more than its policy allows.
THEOREM EgressIsContained == ProxySpec => []EgressContained
  <1>1. ProxyInv => EgressContained
    <2> SUFFICES ASSUME ProxyInv PROVE EgressContained
      OBVIOUS
    <2>1. Cardinality({p \in Connections : socks[p] \notin {"new", "over"}}) <= MaxConnections
      BY DEF ProxyInv, SlotsTaken, Handling
    <2>2. ASSUME NEW p \in Connections
          PROVE  relayed[p] <= MaxRelayed /\ Len(replies[p]) <= 1
      BY ProxyAssumption DEF ProxyInv, ProxyTypes, InOrder
    <2>3. ASSUME NEW p \in Connections, NEW a \in upstream[p]
          PROVE  \E d \in wanted[p] : /\ d.allowed /\ a.kind # "loopback"
                                      /\ a.kind = "private" => a \in d.literal
      BY DEF ProxyInv, InOrder, Permitted, SafeResolution
    <2> QED BY <2>1, <2>2, <2>3 DEF EgressContained
  <1> QED BY ProxyStart, ProxyStep, <1>1, PTL DEF ProxySpec

-----------------------------------------------------------------------------
(* FileTransfer                                                             *)

Octets == Tokens \union {"sig"}
Uploads == [at : {"idle", "spooling", "sending"}, id : Nat, media : Media \union {"octets"},
            read : Seq(Tokens)]
FileRows == [id : Nat, bytes : Nat, sha256 : Seq(Tokens), media : Media \union {"octets"}]
Downloads == [at : {"idle", "passing", "complete", "failed"}, row : SUBSET FileRows, got : Seq(Octets)]

TransferTypes ==
  /\ upload \in Uploads
  /\ \A f \in remote : f \in [id : Nat, content : Seq(Octets)]
  /\ \A f \in staging : f \in [id : Nat, content : Seq(Tokens)]
  /\ fileRows \subseteq FileRows
  /\ download \in Downloads

\* What has been read is within the limit, and valid once it is sent.
UploadSound ==
  /\ Len(upload.read) <= MaxUpload
  /\ upload.at = "sending" => upload.read # <<>> /\ ValidContent(upload.media, upload.read)

RowsSound ==
  \A row \in fileRows : row.bytes = Len(row.sha256) /\ row.bytes \in 1..MaxUpload
                        /\ ValidContent(row.media, row.sha256)

\* A download is of one row.
DownloadSound ==
  \A row \in download.row :
    /\ download.row = {row}
    /\ Len(download.got) <= Limit(row)
    /\ download.at = "complete" => download.got = row.sha256

StagingSound ==
  \A f \in staging : f.id \in cutSpools \/ (f.id = upload.id /\ upload.at # "idle")

TransferInv == TransferTypes /\ UploadSound /\ RowsSound /\ DownloadSound /\ StagingSound

\* A new service has no file.
LEMMA TransferStart == TransferInit => TransferInv
  BY TransferAssumption
  DEF TransferInit, TransferInv, TransferTypes, UploadSound, RowsSound, DownloadSound, StagingSound,
      NoUpload, NoDownload, Uploads, Downloads

\* The end of an upload, with its file unlinked.
LEMMA EndKeeps ==
  ASSUME TransferInv, Unlink, EndUpload, cutSpools' = cutSpools
  PROVE  /\ upload' \in Uploads /\ UploadSound' /\ StagingSound'
         /\ \A f \in staging' : f \in [id : Nat, content : Seq(Tokens)]
  <1>1. upload \in Uploads /\ StagingSound /\ UploadSound BY DEF TransferInv, TransferTypes
  <1>2. /\ upload' \in Uploads /\ upload'.at = "idle" /\ upload'.id = upload.id
        /\ upload'.read = upload.read
    BY <1>1 DEF EndUpload, Uploads
  <1>3. StagingSound' BY <1>1, <1>2 DEF StagingSound, Unlink, Staged
  <1>4. UploadSound' BY <1>1, <1>2 DEF UploadSound
  <1>5. staging' \subseteq staging BY DEF Unlink
  <1> QED BY <1>2, <1>3, <1>4, <1>5 DEF TransferInv, TransferTypes

\* A step of the upload alone.
LEMMA UploadKeeps ==
  ASSUME TransferInv, UNCHANGED download, upload' \in Uploads, UploadSound', StagingSound',
         RowsSound', fileRows' \subseteq FileRows,
         \A f \in staging' : f \in [id : Nat, content : Seq(Tokens)],
         \A f \in remote' : f \in [id : Nat, content : Seq(Octets)]
  PROVE  TransferInv'
  BY DEF TransferInv, TransferTypes, DownloadSound, Limit

\* A step of the download alone.
LEMMA DownloadKeeps ==
  ASSUME TransferInv, UNCHANGED <<upload, staging, remote, fileRows, cutSpools>>,
         download' \in Downloads, DownloadSound'
  PROVE  TransferInv'
  BY DEF TransferInv, TransferTypes, UploadSound, RowsSound, StagingSound

\* What a provider keeps instead of a file is made of tokens.
LEMMA RemoteContents ==
  ASSUME NEW s \in Seq(Octets)
  PROVE  Reverse(s) \in Seq(Octets) /\ Append(s, "sig") \in Seq(Octets) /\ <<>> \in Seq(Octets)
  <1>1. Reverse(s) = [i \in 1..Len(s) |-> s[(Len(s) - i) + 1]] BY DEF Reverse
  <1>2. Len(s) \in Nat /\ \A i \in 1..Len(s) : s[i] \in Octets OBVIOUS
  <1>3. \A i \in 1..Len(s) : (Len(s) - i) + 1 \in 1..Len(s) BY <1>2
  <1>4. \A i \in 1..Len(s) : s[(Len(s) - i) + 1] \in Octets BY <1>2, <1>3
  <1>5. Reverse(s) \in [1..Len(s) -> Octets] BY <1>1, <1>4
  <1>6. Reverse(s) \in Seq(Octets) BY <1>2, <1>5
  <1>7. "sig" \in Octets BY DEF Octets
  <1> QED BY <1>6, <1>7

\* What a part of some content is.
LEMMA PartOfContent ==
  ASSUME NEW s \in Seq(Octets), NEW a \in 1..(Len(s) + 1), NEW b \in 0..Len(s), a <= b + 1
  PROVE  SubSeq(s, a, b) \in Seq(Octets) /\ Len(SubSeq(s, a, b)) = b - a + 1
  OBVIOUS

\* About sequences: what two of them make together.
LEMMA JoinedContents ==
  ASSUME NEW S, NEW s \in Seq(S), NEW t \in Seq(S)
  PROVE  s \o t \in Seq(S) /\ Len(s \o t) = Len(s) + Len(t)
  OBVIOUS

\* One step of the upload, the provider or the download.
LEMMA TransferStep == TransferInv /\ [TransferNext]_transferVars => TransferInv'
  <1> SUFFICES ASSUME TransferInv, [TransferNext]_transferVars PROVE TransferInv'
    OBVIOUS
  <1>1. /\ upload \in Uploads /\ download \in Downloads /\ fileRows \subseteq FileRows
        /\ UploadSound /\ RowsSound /\ DownloadSound /\ StagingSound
        /\ \A f \in remote : f \in [id : Nat, content : Seq(Octets)]
        /\ \A f \in staging : f \in [id : Nat, content : Seq(Tokens)]
    BY DEF TransferInv, TransferTypes
  <1>2. ASSUME Unlink, EndUpload, UNCHANGED <<remote, fileRows, download, cutSpools>>
        PROVE  TransferInv'
    <2>1. RowsSound' BY <1>1, <1>2 DEF RowsSound
    <2> QED BY <1>1, <1>2, <2>1, EndKeeps, UploadKeeps
  <1>3. CASE UNCHANGED transferVars
    BY <1>3 DEF transferVars, TransferInv, TransferTypes, UploadSound, RowsSound, DownloadSound,
       StagingSound, Limit
  <1>4. CASE BeginUpload
    <2>1. PICK media \in Media :
            upload' = [at |-> "spooling", id |-> upload.id + 1, media |-> media, read |-> <<>>]
      BY <1>4 DEF BeginUpload
    <2>2. upload.id \in Nat /\ upload.at = "idle" BY <1>1, <1>4 DEF BeginUpload, Uploads
    <2>3. /\ upload' \in Uploads /\ upload'.at = "spooling" /\ upload'.id = upload.id + 1
          /\ upload'.read = <<>>
      BY <2>1, <2>2 DEF Uploads
    <2>4. staging' = staging \union {[id |-> upload.id + 1, content |-> <<>>]}
      BY <1>4 DEF BeginUpload
    <2>5. \A f \in staging' : f \in [id : Nat, content : Seq(Tokens)]
      <3>1. [id |-> upload.id + 1, content |-> <<>>] \in [id : Nat, content : Seq(Tokens)]
        BY <2>2
      <3> QED BY <1>1, <2>4, <3>1
    <2>6. UploadSound' BY <2>3, TransferAssumption DEF UploadSound
    <2>7. StagingSound' BY <1>1, <1>4, <2>2, <2>3, <2>4 DEF StagingSound, BeginUpload
    <2>8. RowsSound' BY <1>1, <1>4 DEF RowsSound, BeginUpload
    <2> QED BY <1>1, <1>4, <2>3, <2>5, <2>6, <2>7, <2>8, UploadKeeps DEF BeginUpload
  <1>5. CASE Spool
    <2>1. PICK chunk \in Chunks(MaxChunkLen + 1) :
            LET content == upload.read \o chunk IN
            IF Len(chunk) <= MaxChunkLen /\ Len(content) <= MaxUpload
            THEN /\ upload' = [upload EXCEPT !.read = content]
                 /\ staging' = (staging \ Staged(upload.id)) \union {[id |-> upload.id, content |-> content]}
            ELSE Unlink /\ EndUpload
      BY <1>5 DEF Spool
    <2>2. PICK content : content = upload.read \o chunk OBVIOUS
    <2>3. content \in Seq(Tokens)
      <3>1. chunk \in Seq(Tokens) BY TransferAssumption DEF Chunks
      <3> QED BY <1>1, <2>2, <3>1 DEF Uploads
    <2>4. CASE /\ upload' = [upload EXCEPT !.read = content] /\ Len(content) <= MaxUpload
               /\ staging' = (staging \ Staged(upload.id)) \union {[id |-> upload.id, content |-> content]}
      <3>1. /\ upload' \in Uploads /\ upload'.at = "spooling" /\ upload'.id = upload.id
            /\ upload'.read = content /\ upload.id \in Nat
        BY <1>1, <1>5, <2>3, <2>4 DEF Uploads, Spool
      <3>2. \A f \in staging' : f \in [id : Nat, content : Seq(Tokens)] BY <1>1, <2>3, <2>4, <3>1
      <3>3. UploadSound' BY <2>4, <3>1 DEF UploadSound
      <3>4. StagingSound' BY <1>1, <1>5, <2>4, <3>1 DEF StagingSound, Spool
      <3>5. RowsSound' BY <1>1, <1>5 DEF RowsSound, Spool
      <3> QED BY <1>1, <1>5, <3>1, <3>2, <3>3, <3>4, <3>5, UploadKeeps DEF Spool
    <2>5. CASE Unlink /\ EndUpload BY <1>2, <1>5, <2>5 DEF Spool
    <2> QED BY <2>1, <2>2, <2>4, <2>5
  <1>6. CASE SpoolFails BY <1>2, <1>6 DEF SpoolFails
  <1>7. CASE SpoolCancelled
    <2>1. /\ upload' \in Uploads /\ upload'.at = "idle" /\ upload'.read = upload.read
      BY <1>1, <1>7 DEF SpoolCancelled, EndUpload, Uploads
    <2>2. UploadSound' BY <1>1, <2>1 DEF UploadSound
    <2>3. StagingSound' BY <1>1, <1>7 DEF StagingSound, SpoolCancelled
    <2>4. RowsSound' BY <1>1, <1>7 DEF RowsSound, SpoolCancelled
    <2> QED BY <1>1, <1>7, <2>1, <2>2, <2>3, <2>4, UploadKeeps DEF SpoolCancelled
  <1>8. CASE Validate
    <2>1. CASE ValidContent(upload.media, upload.read)
      <3>1. upload' = [upload EXCEPT !.at = "sending"] /\ staging' = staging
        BY <1>8, <2>1 DEF Validate
      <3>2. /\ upload' \in Uploads /\ upload'.at = "sending" /\ upload'.read = upload.read
            /\ upload'.media = upload.media /\ upload'.id = upload.id /\ upload.read # <<>>
        BY <1>1, <1>8, <3>1 DEF Uploads, Validate
      <3>3. UploadSound' BY <1>1, <2>1, <3>2 DEF UploadSound
      <3>4. StagingSound' BY <1>1, <1>8, <3>1, <3>2 DEF StagingSound, Validate
      <3>5. RowsSound' BY <1>1, <1>8 DEF RowsSound, Validate
      <3> QED BY <1>1, <1>8, <3>1, <3>2, <3>3, <3>4, <3>5, UploadKeeps DEF Validate
    <2>2. CASE ~ValidContent(upload.media, upload.read) BY <1>2, <1>8, <2>2 DEF Validate
    <2> QED BY <2>1, <2>2
  <1>9. CASE RemoteStores \/ Decay
    <2>1. UNCHANGED <<upload, staging, fileRows, download, cutSpools>>
      BY <1>9 DEF RemoteStores, Decay
    <2>2. \A f \in remote' : f \in [id : Nat, content : Seq(Octets)]
      <3>1. CASE RemoteStores
        <4>0. PICK f \in staging : \E content \in {f.content, Reverse(f.content), <<>>} :
                remote' = remote \union {[f EXCEPT !.content = content]}
          BY <3>1 DEF RemoteStores, Staged
        <4>1. PICK content \in {f.content, Reverse(f.content), <<>>} :
                remote' = remote \union {[f EXCEPT !.content = content]}
          BY <4>0
        <4>2. f \in [id : Nat, content : Seq(Tokens)] BY <1>1
        <4>3. f.content \in Seq(Octets) /\ f.id \in Nat
          <5>1. f.content \in Seq(Tokens) /\ Tokens \subseteq Octets BY <4>2 DEF Octets
          <5> QED BY <4>2, <5>1
        <4>4. content \in Seq(Octets) BY <4>3, RemoteContents
        <4>5. [f EXCEPT !.content = content] \in [id : Nat, content : Seq(Octets)]
          BY <4>2, <4>4
        <4> QED BY <1>1, <4>1, <4>5
      <3>2. CASE Decay
        <4>0. PICK f \in remote : \E content \in {<<>>, Append(f.content, "sig"), Reverse(f.content)} :
                remote' = (remote \ {f}) \union {[f EXCEPT !.content = content]}
          BY <3>2 DEF Decay
        <4>1. PICK content \in {<<>>, Append(f.content, "sig"), Reverse(f.content)} :
                remote' = (remote \ {f}) \union {[f EXCEPT !.content = content]}
          BY <4>0
        <4>2. f \in [id : Nat, content : Seq(Octets)] BY <1>1
        <4>3. content \in Seq(Octets) BY <4>2, RemoteContents
        <4>4. [f EXCEPT !.content = content] \in [id : Nat, content : Seq(Octets)]
          BY <4>2, <4>3
        <4> QED BY <1>1, <4>1, <4>4
      <3> QED BY <1>9, <3>1, <3>2
    <2>3. UploadSound' /\ RowsSound' /\ StagingSound'
      BY <1>1, <2>1 DEF UploadSound, RowsSound, StagingSound
    <2> QED BY <1>1, <2>1, <2>2, <2>3, UploadKeeps
  <1>10. CASE Sent
    <2>1. PICK f \in remote :
            /\ f.id = upload.id
            /\ fileRows' = IF RecordAgrees(f)
                           THEN fileRows \union {[id |-> f.id, bytes |-> Len(upload.read),
                                                  sha256 |-> upload.read, media |-> upload.media]}
                           ELSE fileRows
      BY <1>10 DEF Sent
    <2> DEFINE new == [id |-> f.id, bytes |-> Len(upload.read), sha256 |-> upload.read,
                       media |-> upload.media]
    <2>2. /\ upload.read # <<>> /\ ValidContent(upload.media, upload.read)
          /\ Len(upload.read) <= MaxUpload /\ upload.read \in Seq(Tokens)
      BY <1>1, <1>10 DEF UploadSound, Sent, Uploads
    <2>3. Len(upload.read) \in 1..MaxUpload BY <2>2, TransferAssumption
    <2>4. /\ new \in FileRows /\ new.bytes = Len(new.sha256) /\ new.bytes \in 1..MaxUpload
          /\ ValidContent(new.media, new.sha256)
      BY <1>1, <2>1, <2>2, <2>3 DEF FileRows, Uploads
    <2>5. fileRows' = fileRows \union {new} \/ fileRows' = fileRows BY <2>1
    <2> HIDE DEF new
    <2>6. RowsSound' /\ fileRows' \subseteq FileRows BY <1>1, <2>4, <2>5 DEF RowsSound
    <2> QED BY <1>1, <1>10, <2>6, EndKeeps, UploadKeeps DEF Sent
  <1>11. CASE SendFails BY <1>2, <1>11 DEF SendFails
  <1>12. CASE BeginDownload
    <2>1. PICK row \in fileRows : download' = [at |-> "passing", row |-> {row}, got |-> <<>>]
      BY <1>12 DEF BeginDownload
    <2>2. row \in FileRows BY <1>1
    <2>3. /\ download' \in Downloads /\ download'.at = "passing" /\ download'.row = {row}
          /\ download'.got = <<>>
      BY <2>1, <2>2 DEF Downloads
    <2>4. 0 <= Limit(row) BY <2>2, TransferAssumption DEF Limit, FileRows
    <2>5. DownloadSound' BY <2>3, <2>4 DEF DownloadSound, Limit
    <2> QED BY <1>12, <2>3, <2>5, DownloadKeeps DEF BeginDownload
  <1>13. CASE PassChunk
    <2>1. PICK row \in download.row, f \in remote, n \in 1..MaxChunkLen :
            LET total == Len(download.got) + n IN
            /\ total <= Len(f.content)
            /\ download' = IF total > Limit(row) THEN [download EXCEPT !.at = "failed"]
                           ELSE [download EXCEPT !.got = @ \o SubSeq(f.content, Len(@) + 1, total)]
      BY <1>13 DEF PassChunk
    <2>2. /\ download.got \in Seq(Octets) /\ f.content \in Seq(Octets) /\ row \in FileRows
          /\ Len(download.got) \in Nat /\ n \in Nat \ {0} /\ Len(f.content) \in Nat
      BY <1>1, TransferAssumption DEF Downloads
    <2>3. PICK total \in Nat : total = Len(download.got) + n BY <2>2
    <2>4. total <= Len(f.content) BY <2>1, <2>3
    <2>5. CASE download' = [download EXCEPT !.at = "failed"]
      <3>1. /\ download' \in Downloads /\ download'.at = "failed" /\ download'.row = download.row
            /\ download'.got = download.got
        BY <1>1, <2>5 DEF Downloads
      <3>2. DownloadSound' BY <1>1, <3>1 DEF DownloadSound, Limit
      <3> QED BY <1>13, <3>1, <3>2, DownloadKeeps DEF PassChunk
    <2>6. CASE /\ total <= Limit(row)
               /\ download' = [download EXCEPT
                    !.got = download.got \o SubSeq(f.content, Len(download.got) + 1, total)]
      <3>1. PICK more : more = SubSeq(f.content, Len(download.got) + 1, total) OBVIOUS
      <3>2. more \in Seq(Octets) /\ Len(more) = n
        <4>1. /\ Len(download.got) + 1 \in 1..(Len(f.content) + 1) /\ total \in 0..Len(f.content)
              /\ total - (Len(download.got) + 1) + 1 = n
              /\ Len(download.got) + 1 <= total + 1
          BY <2>2, <2>3, <2>4
        <4> QED BY <2>2, <3>1, <4>1, PartOfContent
      <3>3. PICK got : got = download.got \o more OBVIOUS
      <3>4. got \in Seq(Octets) /\ Len(got) = total
        <4>1. got \in Seq(Octets) /\ Len(got) = Len(download.got) + Len(more)
          BY <2>2, <3>2, <3>3, JoinedContents
        <4> QED BY <2>3, <3>2, <4>1
      <3>5. download' = [download EXCEPT !.got = got] BY <2>6, <3>1, <3>3
      <3>6. /\ download' \in Downloads /\ download'.at = "passing" /\ download'.row = download.row
            /\ download'.got = got
        BY <1>1, <1>13, <3>4, <3>5 DEF Downloads, PassChunk
      <3>7. DownloadSound' BY <1>1, <2>6, <3>4, <3>6 DEF DownloadSound, Limit
      <3> QED BY <1>13, <3>6, <3>7, DownloadKeeps DEF PassChunk
    <2>7. Limit(row) \in Nat BY <2>2, TransferAssumption DEF Limit, FileRows
    <2>8. CASE total > Limit(row) BY <2>1, <2>3, <2>5, <2>8
    <2>9. CASE ~(total > Limit(row))
      <3>1. total <= Limit(row) BY <2>7, <2>9
      <3> QED BY <2>1, <2>3, <2>6, <2>9, <3>1
    <2> QED BY <2>8, <2>9
  <1>14. CASE DownloadEnds
    <2>1. PICK row \in download.row :
            download' = [download EXCEPT !.at = IF Intact(row) THEN "complete" ELSE "failed"]
      BY <1>14 DEF DownloadEnds
    <2>2. /\ download' \in Downloads /\ download'.row = download.row /\ download'.got = download.got
          /\ download'.at = "complete" => Intact(row)
      BY <1>1, <2>1 DEF Downloads
    <2>3. DownloadSound' BY <1>1, <2>2 DEF DownloadSound, Limit, Intact
    <2> QED BY <1>14, <2>2, <2>3, DownloadKeeps DEF DownloadEnds
  <1>15. CASE NextDownload
    <2>1. download' \in Downloads /\ download'.row = {}
      BY <1>15 DEF NextDownload, NoDownload, Downloads
    <2>2. DownloadSound' BY <2>1 DEF DownloadSound
    <2> QED BY <1>15, <2>1, <2>2, DownloadKeeps DEF NextDownload
  <1> QED BY <1>3, <1>4, <1>5, <1>6, <1>7, <1>8, <1>9, <1>10, <1>11, <1>12, <1>13, <1>14, <1>15
      DEF TransferNext

\* Whatever the source, the provider or a caller does meanwhile: what is listed was validated
\* as a whole, what is delivered in full is what was listed, and no staged file is left behind
\* but that of a cancelled spool.
THEOREM TransfersAreFaithful == TransferSpec => []TransferFaithful
  <1>1. TransferInv => TransferFaithful
    BY DEF TransferInv, RowsSound, DownloadSound, StagingSound, TransferFaithful
  <1> QED BY TransferStart, TransferStep, <1>1, PTL DEF TransferSpec
-----------------------------------------------------------------------------
(* Webhooks *)

Handed == [delivery : Deliveries, at : Nat, by : Verifiers]

WebhookTypes ==
  /\ second \in Nat
  /\ claims \subseteq [event : Events, at : Nat]
  /\ verifying \in [Verifiers -> SUBSET [delivery : Deliveries, at : Nat]]
  /\ handed \subseteq Handed

\* A verifier's reading of the clock is recent, and its delivery was acceptable then.
ReadingsRecent ==
  \A v \in Verifiers : \A w \in verifying[v] :
    /\ w.at <= second /\ second <= w.at + LockWait
    /\ ~Stale(w.delivery, w.at)

\* An event that was handed out keeps its row until nobody can bring it again.
HandedRetained ==
  \A h \in handed :
    /\ h.at <= second
    /\ ~Stale(h.delivery, h.at)
    /\ \/ [event |-> h.delivery.event, at |-> h.at] \in claims
       \/ h.at + Retention < second

WebhookInv == WebhookTypes /\ ReadingsRecent /\ HandedRetained /\ ReplayRejected

\* Two acceptable readings of one delivery are at most twice the tolerance apart.
LEMMA ReadingsClose ==
  ASSUME NEW delivery \in Deliveries, NEW s \in Nat, NEW t \in Nat,
         ~Stale(delivery, s), ~Stale(delivery, t)
  PROVE  t - s <= 2 * Tolerance
  BY WebhookAssumption DEF Stale, Deliveries

\* A claim that finds no row is the first of its delivery, if the retention is long enough.
LEMMA NewIsFirst ==
  ASSUME WebhookInv, NEW v \in Verifiers, NEW w \in verifying[v],
         ~Known(w.delivery.event, Retained(w.at)),
         2 * Tolerance + LockWait <= Retention
  PROVE  \A h \in handed : h.delivery # w.delivery
<1> SUFFICES ASSUME NEW h \in handed, h.delivery = w.delivery PROVE FALSE
  OBVIOUS
<1>1. /\ w.delivery \in Deliveries /\ w.at \in Nat /\ h.at \in Nat /\ h.delivery \in Deliveries
      /\ second \in Nat /\ second <= w.at + LockWait
  BY DEF WebhookInv, WebhookTypes, Handed, ReadingsRecent
<1>2. w.at - h.at <= 2 * Tolerance
  BY <1>1, ReadingsClose DEF WebhookInv, ReadingsRecent, HandedRetained
<1>3. CASE h.at + Retention < second
  BY <1>1, <1>2, <1>3, WebhookAssumption
<1>4. CASE [event |-> h.delivery.event, at |-> h.at] \in claims
  <2>1. h.at >= w.at - Retention
    BY <1>1, <1>2, WebhookAssumption
  <2>2. [event |-> h.delivery.event, at |-> h.at] \in Retained(w.at)
    BY <1>4, <2>1 DEF Retained
  <2> QED BY <2>2 DEF Known
<1> QED BY <1>3, <1>4 DEF WebhookInv, HandedRetained

\* What a purge with the reading of a verifier removes is older than the retention.
LEMMA PurgedIsOld ==
  ASSUME WebhookInv, NEW v \in Verifiers, NEW w \in verifying[v], NEW h \in handed
  PROVE  \/ [event |-> h.delivery.event, at |-> h.at] \in Retained(w.at)
         \/ h.at + Retention < second
<1>1. w.at \in Nat /\ h.at \in Nat /\ second \in Nat /\ w.at <= second
  BY DEF WebhookInv, WebhookTypes, Handed, ReadingsRecent
<1> QED BY <1>1, WebhookAssumption DEF WebhookInv, HandedRetained, Retained

\* At the start nothing is claimed or handed on.
LEMMA WebhookStart == WebhookInit => WebhookInv
  BY DEF WebhookInit, WebhookInv, WebhookTypes, ReadingsRecent, HandedRetained, ReplayRejected

\* The clock, a delivery that arrives, its claim and a lock that times out.
LEMMA WebhookStep ==
  ASSUME WebhookInv, [WebhookNext]_webhookVars
  PROVE  WebhookInv'
<1> USE DEF WebhookInv
<1>1. CASE Elapse
  BY <1>1, WebhookAssumption
  DEF Elapse, WebhookTypes, ReadingsRecent, HandedRetained, ReplayRejected, Stale, Deliveries, Handed
<1>2. ASSUME NEW v \in Verifiers, NEW delivery \in Deliveries, CheckDelivery(v, delivery)
      PROVE  WebhookInv'
  <2> USE <1>2 DEF CheckDelivery
  <2>1. WebhookTypes'
    BY DEF WebhookTypes
  <2>2. ReadingsRecent'
    <3> SUFFICES ASSUME NEW u \in Verifiers, NEW w \in verifying'[u]
        PROVE /\ w.at <= second /\ second <= w.at + LockWait
              /\ ~Stale(w.delivery, w.at)
      BY DEF ReadingsRecent, Stale
    <3>1. CASE u = v
      <4>1. w = [delivery |-> delivery, at |-> second]
        BY <3>1 DEF WebhookTypes
      <4> QED BY <4>1, WebhookAssumption DEF WebhookTypes
    <3>2. CASE u # v
      BY <3>2 DEF WebhookTypes, ReadingsRecent
    <3> QED BY <3>1, <3>2
  <2>3. HandedRetained' /\ ReplayRejected'
    BY DEF HandedRetained, ReplayRejected, Stale
  <2> QED BY <2>1, <2>2, <2>3
<1>3. ASSUME NEW v \in Verifiers, Claim(v) PROVE WebhookInv'
  <2>0. PICK w \in verifying[v] :
          /\ verifying' = [verifying EXCEPT ![v] = {}]
          /\ IF Known(w.delivery.event, Retained(w.at))
               THEN claims' = Retained(w.at) /\ handed' = handed
               ELSE /\ claims' = Retained(w.at) \union {[event |-> w.delivery.event, at |-> w.at]}
                    /\ handed' = handed \union {[delivery |-> w.delivery, at |-> w.at, by |-> v]}
          /\ second' = second
    BY <1>3 DEF Claim
  <2>1. w \in [delivery : Deliveries, at : Nat] /\ w.delivery.event \in Events
    BY DEF WebhookTypes, Deliveries
  <2>2. Retained(w.at) \subseteq claims
    BY DEF Retained
  <2>3. WebhookTypes'
    BY <2>0, <2>1, <2>2 DEF WebhookTypes, Handed
  <2>4. ReadingsRecent'
    BY <2>0 DEF WebhookTypes, ReadingsRecent, Stale
  <2>5. HandedRetained'
    <3> SUFFICES ASSUME NEW h \in handed'
        PROVE /\ h.at <= second /\ ~Stale(h.delivery, h.at)
              /\ \/ [event |-> h.delivery.event, at |-> h.at] \in claims'
                 \/ h.at + Retention < second
      BY <2>0 DEF HandedRetained, Stale
    <3>1. CASE h \in handed
      BY <3>1, <2>0, PurgedIsOld DEF HandedRetained
    <3>2. CASE h \notin handed
      BY <3>2, <2>0 DEF ReadingsRecent
    <3> QED BY <3>1, <3>2
  <2>6. ReplayRejected'
    BY <2>0, NewIsFirst DEF ReplayRejected
  <2> QED BY <2>3, <2>4, <2>5, <2>6
<1>4. ASSUME NEW v \in Verifiers, LockTimesOut(v) PROVE WebhookInv'
  BY <1>4 DEF LockTimesOut, WebhookTypes, ReadingsRecent, HandedRetained, ReplayRejected, Stale
<1>5. CASE UNCHANGED webhookVars
  BY <1>5 DEF webhookVars, WebhookTypes, ReadingsRecent, HandedRetained, ReplayRejected, Stale, Retained
<1> QED BY <1>1, <1>2, <1>3, <1>4, <1>5 DEF WebhookNext

\* However many verifiers share the store (verify() and the claim of webhooks.py), no
\* delivery is handed out as new twice, if the retention covers twice the
\* tolerance and the wait for the lock.
THEOREM NoReplay == WebhookSpec => []ReplayRejected
<1>1. WebhookInv => ReplayRejected
  BY DEF WebhookInv
<1> QED BY <1>1, WebhookStart, WebhookStep, PTL DEF WebhookSpec

-----------------------------------------------------------------------------
(* Wif *)

Answers == [issued : Nat, dies : Nat, life : Lives]
Returns == [dies : Nat, at : Nat]

WifTypes ==
  /\ monotonic \in Nat /\ refreshAt \in Nat
  /\ cached \subseteq [dies : Nat]
  /\ answer \subseteq Answers
  /\ returned \subseteq Returns

\* The one answer says how long its credential lives, and is not late.
AnswersTrue ==
  \A a \in answer :
    /\ answer = {a}
    /\ a.dies = a.issued + a.life
    /\ a.issued <= monotonic /\ monotonic <= a.issued + Delay

\* What is cached is refreshed before it dies, or at once.
CacheSafe ==
  \A a \in cached : refreshAt <= a.dies \/ refreshAt <= monotonic

\* The margin covers the way of an answer, and every credential outlives it.
Timely == Delay <= Margin /\ \A life \in Lives : life > Delay

ReturnedAlive == \A r \in returned : r.at < r.dies

WifInv == WifTypes /\ AnswersTrue /\ CacheSafe /\ ReturnedAlive

\* The life of a credential and the part of it that is used are natural numbers.
LEMMA LivesPositive == ASSUME NEW life \in Lives PROVE life \in Nat /\ Usable(life) \in Nat
  BY WifAssumption DEF Usable

\* A credential that is fresh is alive when it is returned.
LEMMA FreshIsAlive ==
  ASSUME WifInv, Fresh, NEW c, Return(c, cached)
  PROVE  returned' \subseteq Returns /\ ReturnedAlive'
  BY DEF WifInv, WifTypes, CacheSafe, ReturnedAlive, Return, Returns, Fresh

\* At the start no credential is cached.
LEMMA WifStart == WifInit => WifInv
  BY DEF WifInit, WifInv, WifTypes, AnswersTrue, CacheSafe, ReturnedAlive

\* A call, an exchange, a cancellation and the clock.
LEMMA WifStep ==
  ASSUME Timely, WifInv, [WifNext]_wifVars
  PROVE  WifInv'
<1> USE DEF WifInv
<1>1. CASE WifTick
  BY <1>1, WifAssumption
  DEF WifTick, WifTypes, AnswersTrue, CacheSafe, ReturnedAlive, Answers
<1>2. CASE Aclose
  BY <1>2 DEF Aclose, WifTypes, AnswersTrue, CacheSafe, ReturnedAlive
<1>3. ASSUME NEW c \in Callers, Credential(c) PROVE WifInv'
  <2>1. CASE Fresh
    BY <1>3, <2>1, FreshIsAlive DEF Credential, WifTypes, AnswersTrue, CacheSafe
  <2>2. CASE ~Fresh
    BY <1>3, <2>2 DEF Credential, WifTypes, AnswersTrue, CacheSafe, ReturnedAlive
  <2> QED BY <2>1, <2>2
<1>4. ASSUME NEW c \in Callers, Enter(c) PROVE WifInv'
  <2>1. CASE Fresh
    BY <1>4, <2>1, FreshIsAlive DEF Enter, WifTypes, AnswersTrue, CacheSafe
  <2>2. CASE ~Fresh
    BY <1>4, <2>2 DEF Enter, WifTypes, AnswersTrue, CacheSafe, ReturnedAlive
  <2> QED BY <2>1, <2>2
<1>5. ASSUME NEW c \in Callers, Issue(c) PROVE WifInv'
  <2>1. PICK life \in Lives :
          answer' = {[issued |-> monotonic, dies |-> monotonic + life, life |-> life]}
    BY <1>5 DEF Issue
  <2>2. life \in Nat
    BY LivesPositive
  <2>3. UNCHANGED <<monotonic, cached, refreshAt, returned>>
    BY <1>5 DEF Issue
  <2>4. WifTypes'
    BY <2>1, <2>2, <2>3 DEF WifTypes, Answers
  <2>5. AnswersTrue'
    BY <2>1, <2>2, <2>3, WifAssumption DEF WifTypes, AnswersTrue
  <2> QED BY <2>3, <2>4, <2>5 DEF CacheSafe, ReturnedAlive
<1>6. ASSUME NEW c \in Callers, Exchanged(c) PROVE WifInv'
  <2>1. PICK a \in answer : refreshAt' = monotonic + Usable(a.life)
    BY <1>6 DEF Exchanged
  <2>2. /\ answer = {a}
        /\ a \in Answers /\ a.dies = a.issued + a.life
        /\ a.issued <= monotonic /\ monotonic <= a.issued + Delay
    BY DEF WifTypes, AnswersTrue
  <2>3. /\ a.issued \in Nat /\ a.dies \in Nat /\ a.life \in Nat /\ Usable(a.life) \in Nat
        /\ monotonic \in Nat /\ a.life > Delay /\ Delay <= Margin
    BY <2>2, LivesPositive DEF Answers, WifTypes, Timely
  <2>4. /\ cached' = {[dies |-> a.dies]} /\ answer' = {} /\ monotonic' = monotonic
        /\ returned' = {[dies |-> a.dies, at |-> monotonic]}
    BY <1>6, <2>2 DEF Exchanged, Return
  <2>5. WifTypes' /\ AnswersTrue'
    BY <2>1, <2>3, <2>4 DEF WifTypes, AnswersTrue, Returns
  <2>6. CacheSafe'
    <3>1. monotonic + Usable(a.life) <= a.dies \/ monotonic + Usable(a.life) <= monotonic
      BY <2>2, <2>3, WifAssumption DEF Usable
    <3> QED BY <2>1, <2>4, <3>1 DEF CacheSafe
  <2>7. ReturnedAlive'
    BY <2>2, <2>3, <2>4, WifAssumption DEF ReturnedAlive
  <2> QED BY <2>5, <2>6, <2>7
<1>7. ASSUME NEW c \in Callers, ExchangeFails(c) PROVE WifInv'
  BY <1>7 DEF ExchangeFails, WifTypes, AnswersTrue, CacheSafe, ReturnedAlive
<1>8. ASSUME NEW c \in Callers, CancelWaiting(c) PROVE WifInv'
  BY <1>8 DEF CancelWaiting, WifTypes, AnswersTrue, CacheSafe, ReturnedAlive
<1>9. CASE UNCHANGED wifVars
  BY <1>9 DEF wifVars, WifTypes, AnswersTrue, CacheSafe, ReturnedAlive
<1> QED BY <1>1, <1>2, <1>3, <1>4, <1>5, <1>6, <1>7, <1>8, <1>9 DEF WifNext

\* credential() of wif.py never hands out what the provider already refuses, whoever
\* calls it, waits for its lock, is cancelled in it or closes the exchange meanwhile:
\* provided that no answer is longer on its way than the margin and each credential
\* outlives its own delivery, which the code does not see to.
THEOREM CredentialsAlive == WifSpec => []HandedOutAlive
<1>1. CASE Timely
  <2>1. WifInv => HandedOutAlive
    BY DEF WifInv, ReturnedAlive, HandedOutAlive
  <2> QED BY <1>1, <2>1, WifStart, WifStep, PTL DEF WifSpec
<1>2. CASE ~Timely
  <2>1. HandedOutAlive
    BY <1>2 DEF Timely, HandedOutAlive
  <2> QED BY <2>1, PTL
<1> QED BY <1>1, <1>2
-----------------------------------------------------------------------------
(* Deletion                                                                 *)

Previews == [digest : Versions, required : {1, 2}, created : Nat, expires : Nat]
Grants == [principal : Principals, plan : Nat, digest : Versions, decision : {"allow", "deny"},
           issued : Nat, expires : Nat]
Executions == [at : {"none", "resolving", "verifying"}, now : Nat, current : SUBSET Versions,
               verified : Seq(Grants), seen : SUBSET Versions]

DeletionTypes ==
  /\ time \in Nat
  /\ target \in Versions
  /\ previewing \subseteq Nat
  /\ previews \in Seq(Previews)
  /\ grants \subseteq Grants /\ IsFiniteSet(grants)
  /\ execution \in Seq(Executions) /\ Len(execution) = Len(previews)

\* A reading of the clock between a plan's dry run and its end.
Unexpired(preview, now) == preview.created <= now /\ now < preview.expires

\* An execution began before its plan expired and has seen the target as it is; what it has resolved is what was previewed;
\* and every grant it has verified allows this plan.
ExecutionSound(p) ==
  LET exec == execution[p]
  IN /\ previews[p].required = RequiredApprovals(previews[p].digest)
     /\ IF exec.at = "none" THEN exec = NoExecution
        ELSE target \in exec.seen /\ Unexpired(previews[p], exec.now)
     /\ exec.at = "resolving" => Len(exec.verified) = 0
     /\ exec.at = "verifying" => exec.current = {previews[p].digest} /\ previews[p].digest \in exec.seen
     /\ \A i \in 1..Len(exec.verified) :
          exec.verified[i] \in grants /\ GrantAllows(exec.verified[i], p, exec.now)

\* The grants that count for a deletion.
Allowing(d) == {g \in grants : /\ g.plan = d.plan /\ g.decision = "allow"
                              /\ g.issued <= d.began /\ d.began < g.expires}

DeletionSound(d) ==
  /\ d.plan \in 1..Len(previews) /\ Unexpired(previews[d.plan], d.began)
  /\ d.resolved = {previews[d.plan].digest} /\ previews[d.plan].digest \in d.seen
  /\ \E g, h \in Allowing(d) :
       RequiredApprovals(previews[d.plan].digest) = 2 => g.principal # h.principal

DeletionInv ==
  /\ DeletionTypes
  /\ \A p \in 1..Len(previews) : ExecutionSound(p)
  /\ \A d \in deletions : DeletionSound(d)

\* A new coordinator has no plan.
LEMMA DeletionStart == DeletionInit => DeletionInv
  <1> SUFFICES ASSUME DeletionInit PROVE DeletionInv
    OBVIOUS
  <1>1. DeletionTypes BY FS_EmptySet DEF DeletionInit, DeletionTypes
  <1> QED BY <1>1 DEF DeletionInit, DeletionInv

\* A step that changes at most the execution of plan p, and deletes nothing.
LEMMA ExecutionKeeps ==
  ASSUME DeletionInv, NEW p \in 1..Len(previews), NEW exec \in Executions,
         execution' = [execution EXCEPT ![p] = exec],
         UNCHANGED <<time, target, previewing, previews, grants>>,
         IF exec.at = "none" THEN exec = NoExecution
         ELSE target \in exec.seen /\ Unexpired(previews[p], exec.now),
         exec.at = "resolving" => Len(exec.verified) = 0,
         exec.at = "verifying" => exec.current = {previews[p].digest} /\ previews[p].digest \in exec.seen,
         \A i \in 1..Len(exec.verified) :
           exec.verified[i] \in grants /\ GrantAllows(exec.verified[i], p, exec.now),
         \A d \in deletions' : DeletionSound(d)
  PROVE  DeletionInv'
  <1>1. DeletionTypes /\ \A q \in 1..Len(previews) : ExecutionSound(q) BY DEF DeletionInv
  <1>2. /\ execution' \in Seq(Executions) /\ Len(execution') = Len(execution)
        /\ execution'[p] = exec
        /\ \A q \in 1..Len(previews) : q # p => execution'[q] = execution[q]
    BY <1>1 DEF DeletionTypes
  <1>3. DeletionTypes' BY <1>1, <1>2 DEF DeletionTypes
  <1>4. ASSUME NEW q \in 1..Len(previews) PROVE ExecutionSound(q)'
    <2>1. ExecutionSound(q) BY <1>1
    <2>2. CASE q = p BY <1>2, <2>1, <2>2 DEF ExecutionSound, GrantAllows
    <2>3. CASE q # p BY <1>2, <2>1, <2>3 DEF ExecutionSound, GrantAllows
    <2> QED BY <2>2, <2>3
  <1>5. \A d \in deletions' : DeletionSound(d)' BY DEF DeletionSound, Allowing
  <1> QED BY <1>3, <1>4, <1>5 DEF DeletionInv

\* A step of the world: the clock, the target and the dry runs leave every execution alone,
\* but for what it has seen; plans and grants are only added.
LEMMA WorldKeeps ==
  ASSUME DeletionInv, DeletionTypes', deletions' = deletions,
         grants \subseteq grants', Len(previews) <= Len(previews'),
         \A p \in 1..Len(previews) :
           /\ previews'[p] = previews[p]
           /\ execution'[p].at = execution[p].at /\ execution'[p].now = execution[p].now
           /\ execution'[p].current = execution[p].current
           /\ execution'[p].verified = execution[p].verified
           /\ execution[p].seen \subseteq execution'[p].seen
           /\ IF execution'[p].at = "none" THEN execution'[p] = NoExecution
              ELSE target' \in execution'[p].seen,
         \A p \in 1..Len(previews') : p > Len(previews) =>
           /\ previews'[p].required = RequiredApprovals(previews'[p].digest)
           /\ execution'[p] = NoExecution
  PROVE  DeletionInv'
  <1>1. DeletionTypes /\ \A q \in 1..Len(previews) : ExecutionSound(q) BY DEF DeletionInv
  <1>2. Len(previews) \in Nat /\ Len(previews') \in Nat BY <1>1 DEF DeletionTypes
  <1>3. ASSUME NEW p \in 1..Len(previews') PROVE ExecutionSound(p)'
    <2>1. CASE p > Len(previews)
      <3>1. /\ execution'[p] = NoExecution /\ execution'[p].at = "none" /\ execution'[p].verified = <<>>
            /\ previews'[p].required = RequiredApprovals(previews'[p].digest)
        BY <2>1 DEF NoExecution
      <3> QED BY <3>1 DEF ExecutionSound
    <2>2. CASE ~(p > Len(previews))
      <3>1. p \in 1..Len(previews) BY <1>2, <2>2
      <3>2. ExecutionSound(p) BY <1>1, <3>1
      <3> QED BY <3>1, <3>2 DEF ExecutionSound, GrantAllows
    <2> QED BY <2>1, <2>2
  <1>4. ASSUME NEW d \in deletions PROVE DeletionSound(d)'
    <2>1. DeletionSound(d) BY DEF DeletionInv
    <2>2. PICK g \in Allowing(d), h \in Allowing(d) :
            RequiredApprovals(previews[d.plan].digest) = 2 => g.principal # h.principal
      BY <2>1 DEF DeletionSound
    <2>3. g \in Allowing(d)' /\ h \in Allowing(d)' BY <2>2 DEF Allowing
    <2>4. d.plan \in 1..Len(previews') /\ previews'[d.plan] = previews[d.plan]
      BY <1>2, <2>1 DEF DeletionSound
    <2> QED BY <2>1, <2>2, <2>3, <2>4 DEF DeletionSound
  <1> QED BY <1>3, <1>4 DEF DeletionInv

\* The executor is called: as many grants as are required have been verified, and their
\* principals are distinct.
LEMMA DeleteKeeps ==
  ASSUME DeletionInv, NEW p \in 1..Len(previews), Delete(p)
  PROVE  \A d \in deletions' : DeletionSound(d)
  <1>1. DeletionTypes /\ ExecutionSound(p) BY DEF DeletionInv
  <1>2. PICK exec : exec = execution[p] OBVIOUS
  <1>3. exec \in Executions BY <1>1, <1>2 DEF DeletionTypes
  <1>4. /\ exec.at = "verifying" /\ Len(exec.verified) = RequiredApprovals(previews[p].digest)
        /\ exec.current = {previews[p].digest} /\ previews[p].digest \in exec.seen
        /\ Unexpired(previews[p], exec.now)
        /\ \A i \in 1..Len(exec.verified) :
             exec.verified[i] \in grants /\ GrantAllows(exec.verified[i], p, exec.now)
    BY <1>1, <1>2 DEF ExecutionSound, Delete
  <1>5. CASE Distinct(exec.verified)
    <2>1. PICK d : d = [plan |-> p, began |-> exec.now, seen |-> exec.seen, resolved |-> exec.current]
      OBVIOUS
    <2>2. deletions' = {d} BY <1>2, <1>5, <2>1 DEF Delete
    <2>3. \A i \in 1..Len(exec.verified) : exec.verified[i] \in Allowing(d)
      BY <1>4, <2>1 DEF Allowing, GrantAllows
    <2>4. \E g, h \in Allowing(d) :
            RequiredApprovals(previews[p].digest) = 2 => g.principal # h.principal
      <3>1. CASE previews[p].digest.wide
        <4>1. Len(exec.verified) = 2 BY <1>4, <3>1 DEF RequiredApprovals
        <4>2. 1 \in 1..Len(exec.verified) /\ 2 \in 1..Len(exec.verified)
              /\ DOMAIN exec.verified = 1..Len(exec.verified)
          BY <1>3, <4>1 DEF Executions
        <4>3. exec.verified[1].principal # exec.verified[2].principal
          BY <1>5, <4>2 DEF Distinct
        <4> QED BY <2>3, <4>2, <4>3
      <3>2. CASE ~previews[p].digest.wide
        <4>1. RequiredApprovals(previews[p].digest) = 1 BY <3>2 DEF RequiredApprovals
        <4>2. 1 \in 1..Len(exec.verified) BY <1>4, <4>1
        <4> QED BY <2>3, <4>1, <4>2
      <3> QED BY <3>1, <3>2
    <2>5. d.plan = p /\ d.resolved = exec.current /\ d.seen = exec.seen /\ d.began = exec.now
      BY <2>1
    <2> HIDE <2>1
    <2>6. DeletionSound(d) BY <1>4, <2>4, <2>5 DEF DeletionSound
    <2> QED BY <2>2, <2>6
  <1>6. CASE ~Distinct(exec.verified)
    BY <1>2, <1>6 DEF Delete, DeletionInv
  <1> QED BY <1>5, <1>6

\* One step.
LEMMA DeletionStep == DeletionInv /\ [DeletionNext]_deletionVars => DeletionInv'
  <1> SUFFICES ASSUME DeletionInv, [DeletionNext]_deletionVars PROVE DeletionInv'
    OBVIOUS
  <1>1. /\ DeletionTypes /\ (\A q \in 1..Len(previews) : ExecutionSound(q))
        /\ \A d \in deletions : DeletionSound(d)
    BY DEF DeletionInv
  <1>2. /\ Plans = 1..Len(previews) /\ Len(previews) \in Nat
        /\ \A q \in 1..Len(previews) : execution[q] \in Executions /\ previews[q] \in Previews
    BY <1>1 DEF DeletionTypes, Plans
  <1>3. NoExecution \in Executions /\ NoExecution.at = "none" /\ Len(NoExecution.verified) = 0
    BY DEF NoExecution, Executions
  <1>4. CASE UNCHANGED <<target, previews, grants, execution, deletions>> /\ DeletionTypes'
    <2>1. \A q \in 1..Len(previews) :
            IF execution[q].at = "none" THEN execution[q] = NoExecution
            ELSE target \in execution[q].seen
      BY <1>1 DEF ExecutionSound
    <2> QED BY <1>2, <1>4, <2>1, WorldKeeps
  <1>5. CASE UNCHANGED deletionVars BY <1>1, <1>4, <1>5 DEF deletionVars, DeletionTypes
  <1>6. CASE ClockTicks BY <1>1, <1>4, <1>6 DEF ClockTicks, DeletionTypes
  <1>7. CASE TargetChanges
    <2>1. ASSUME NEW p \in 1..Len(previews)
          PROVE  /\ execution'[p] \in Executions
                 /\ execution'[p].at = execution[p].at /\ execution'[p].now = execution[p].now
                 /\ execution'[p].current = execution[p].current
                 /\ execution'[p].verified = execution[p].verified
                 /\ execution[p].seen \subseteq execution'[p].seen
                 /\ IF execution'[p].at = "none" THEN execution'[p] = NoExecution
                    ELSE target' \in execution'[p].seen
      <3>1. PICK exec \in Executions : exec = execution[p] BY <1>2
      <3>2. target' \in Versions BY <1>7 DEF TargetChanges
      <3>3. execution'[p] = IF exec.at = "none" THEN NoExecution
                            ELSE [exec EXCEPT !.seen = @ \union {target'}]
        BY <1>2, <1>7, <3>1 DEF TargetChanges
      <3>4. CASE exec.at = "none"
        BY <1>1, <1>3, <3>1, <3>3, <3>4 DEF ExecutionSound
      <3>5. CASE exec.at # "none"
        <4>1. PICK seen : seen = exec.seen \union {target'} OBVIOUS
        <4>2. execution'[p] = [exec EXCEPT !.seen = seen] BY <3>3, <3>5, <4>1
        <4>3. seen \in SUBSET Versions BY <3>2, <4>1 DEF Executions
        <4>4. [exec EXCEPT !.seen = seen] \in Executions BY <4>3 DEF Executions
        <4>5. /\ execution'[p].at = exec.at /\ execution'[p].now = exec.now
              /\ execution'[p].current = exec.current /\ execution'[p].verified = exec.verified
              /\ execution'[p].seen = seen
          BY <4>2 DEF Executions
        <4>6. exec.seen \subseteq seen /\ target' \in seen BY <4>1
        <4> QED BY <3>1, <3>5, <4>2, <4>4, <4>5, <4>6
      <3> QED BY <3>4, <3>5
    <2>2. execution' \in Seq(Executions) /\ Len(execution') = Len(previews)
      <3>1. execution' = [p \in 1..Len(previews) |-> execution'[p]] BY <1>2, <1>7 DEF TargetChanges
      <3>2. execution' \in [1..Len(previews) -> Executions] BY <2>1, <3>1
      <3> QED BY <1>2, <3>2
    <2>3. DeletionTypes' BY <1>1, <1>7, <2>2 DEF DeletionTypes, TargetChanges
    <2>4. UNCHANGED <<previews, grants, deletions>> BY <1>7 DEF TargetChanges
    <2> QED BY <1>2, <2>1, <2>3, <2>4, WorldKeeps
  <1>8. CASE BeginPreview
    BY <1>1, <1>4, <1>8 DEF BeginPreview, DeletionTypes
  <1>9. CASE EndPreview
    <2>1. PICK now \in previewing :
            /\ previewing' = {}
            /\ previews' = Append(previews,
                 [digest |-> target, required |-> RequiredApprovals(target),
                  created |-> now, expires |-> now + Lifetime])
            /\ execution' = Append(execution, NoExecution)
            /\ UNCHANGED <<time, target, grants, deletions>>
      BY <1>9 DEF EndPreview
    <2>2. PICK preview : preview = [digest |-> target, required |-> RequiredApprovals(target),
                                    created |-> now, expires |-> now + Lifetime]
      OBVIOUS
    <2>3. preview \in Previews /\ preview.required = RequiredApprovals(preview.digest)
      <3>1. now \in Nat /\ now + Lifetime \in Nat /\ target \in Versions
        BY <1>1, DeletionAssumption DEF DeletionTypes
      <3>2. RequiredApprovals(target) \in {1, 2} BY DEF RequiredApprovals
      <3> QED BY <2>2, <3>1, <3>2 DEF Previews
    <2>4. previews' = Append(previews, preview) BY <2>1, <2>2
    <2> HIDE <2>2
    <2>5. /\ previews' \in Seq(Previews) /\ Len(previews') = Len(previews) + 1
          /\ \A q \in 1..Len(previews) : previews'[q] = previews[q]
          /\ previews'[Len(previews) + 1] = preview
      BY <1>1, <2>3, <2>4 DEF DeletionTypes
    <2>6. /\ execution' \in Seq(Executions) /\ Len(execution') = Len(previews) + 1
          /\ \A q \in 1..Len(previews) : execution'[q] = execution[q]
          /\ execution'[Len(previews) + 1] = NoExecution
      BY <1>1, <1>3, <2>1 DEF DeletionTypes
    <2>7. DeletionTypes' BY <1>1, <2>1, <2>5, <2>6 DEF DeletionTypes
    <2>8. \A q \in 1..Len(previews) :
            IF execution[q].at = "none" THEN execution[q] = NoExecution
            ELSE target \in execution[q].seen
      BY <1>1 DEF ExecutionSound
    <2>9. \A q \in 1..Len(previews') : q > Len(previews) => q = Len(previews) + 1
      BY <1>2, <2>5
    <2> QED BY <1>2, <2>1, <2>3, <2>5, <2>6, <2>7, <2>8, <2>9, WorldKeeps
  <1>10. CASE PreviewFails
    BY <1>1, <1>4, <1>10 DEF PreviewFails, DeletionTypes
  <1>11. ASSUME NEW p \in 1..Len(previews), NEW principal \in Principals, Authorize(principal, p)
         PROVE DeletionInv'
    <2>1. PICK decision \in {"allow", "deny"} :
            grants' = grants \union
              {[principal |-> principal, plan |-> p, digest |-> previews[p].digest,
                decision |-> decision, issued |-> time, expires |-> time + GrantLife]}
      BY <1>11 DEF Authorize
    <2>2. PICK grant : grant = [principal |-> principal, plan |-> p, digest |-> previews[p].digest,
                decision |-> decision, issued |-> time, expires |-> time + GrantLife]
      OBVIOUS
    <2>3. grant \in Grants
      <3>1. time \in Nat /\ GrantLife \in Nat /\ p \in Nat /\ previews \in Seq(Previews)
        BY <1>1, DeletionAssumption DEF DeletionTypes
      <3>2. time + GrantLife \in Nat BY <3>1
      <3>3. previews[p] \in Previews BY <3>1
      <3>4. previews[p].digest \in Versions BY <3>3 DEF Previews
      <3> QED BY <2>2, <3>1, <3>2, <3>4 DEF Grants
    <2>4. grants' = grants \union {grant} BY <2>1, <2>2
    <2> HIDE <2>2
    <2>5. grants' \subseteq Grants /\ IsFiniteSet(grants')
      BY <1>1, <2>3, <2>4, FS_AddElement DEF DeletionTypes
    <2>6. UNCHANGED <<time, target, previewing, previews, execution, deletions>>
      BY <1>11 DEF Authorize
    <2>7. DeletionTypes' BY <1>1, <2>5, <2>6 DEF DeletionTypes
    <2>8. \A q \in 1..Len(previews) :
            IF execution[q].at = "none" THEN execution[q] = NoExecution
            ELSE target \in execution[q].seen
      BY <1>1 DEF ExecutionSound
    <2> QED BY <1>2, <2>4, <2>6, <2>7, <2>8, WorldKeeps
  <1>12. ASSUME NEW p \in 1..Len(previews), execution' = [execution EXCEPT ![p] = NoExecution],
                UNCHANGED <<time, target, previewing, previews, grants>>,
                \A d \in deletions' : DeletionSound(d)
         PROVE DeletionInv'
    <2>1. \A i \in 1..Len(NoExecution.verified) : FALSE BY <1>3
    <2> QED BY <1>3, <1>12, <2>1, ExecutionKeeps
  <1>13. ASSUME NEW p \in 1..Len(previews), ExecuteDeletion(p) PROVE DeletionInv'
    <2>1. PICK exec : exec = [NoExecution EXCEPT !.at = "resolving", !.now = time, !.seen = {target}]
      OBVIOUS
    <2>2. /\ exec \in Executions /\ exec.at = "resolving" /\ exec.seen = {target}
          /\ Len(exec.verified) = 0 /\ exec.now = time
      <3>1. time \in Nat /\ {target} \in SUBSET Versions BY <1>1 DEF DeletionTypes
      <3>2. exec \in Executions BY <1>3, <2>1, <3>1 DEF Executions
      <3>3. /\ exec.at = "resolving" /\ exec.seen = {target} /\ exec.now = time
            /\ exec.verified = NoExecution.verified
        BY <1>3, <2>1 DEF Executions
      <3> QED BY <1>3, <3>2, <3>3
    <2>3. execution' = [execution EXCEPT ![p] = exec] BY <1>13, <2>1 DEF ExecuteDeletion
    <2> HIDE <2>1
    <2>4. \A i \in 1..Len(exec.verified) : FALSE BY <2>2
    <2>5. UNCHANGED <<time, target, previewing, previews, grants, deletions>>
      BY <1>13 DEF ExecuteDeletion
    <2>6. Unexpired(previews[p], exec.now) BY <1>13, <2>2 DEF ExecuteDeletion, Unexpired
    <2> QED BY <1>1, <2>2, <2>3, <2>4, <2>5, <2>6, ExecutionKeeps
  <1>14. ASSUME NEW p \in 1..Len(previews), ResolveAgain(p) PROVE DeletionInv'
    <2>1. ExecutionSound(p) /\ execution[p] \in Executions BY <1>1, <1>2
    <2>2. CASE SameDigest(target, previews[p])
      <3>1. PICK exec : exec = [execution[p] EXCEPT !.at = "verifying", !.current = {target}]
        OBVIOUS
      <3>2. /\ exec \in Executions /\ exec.at = "verifying" /\ exec.current = {target}
            /\ exec.seen = execution[p].seen /\ exec.verified = execution[p].verified
            /\ exec.now = execution[p].now
        BY <1>1, <2>1, <3>1 DEF Executions, DeletionTypes
      <3>3. execution' = [execution EXCEPT ![p] = exec]
        BY <1>1, <1>14, <2>2, <3>1 DEF ResolveAgain, DeletionTypes
      <3> HIDE <3>1
      <3>4. target = previews[p].digest /\ target \in exec.seen /\ Len(exec.verified) = 0
        BY <1>14, <2>1, <2>2, <3>2 DEF SameDigest, ResolveAgain, ExecutionSound
      <3>5. \A i \in 1..Len(exec.verified) : FALSE BY <3>4
      <3>6. UNCHANGED <<time, target, previewing, previews, grants, deletions>>
        BY <1>14 DEF ResolveAgain
      <3>7. Unexpired(previews[p], exec.now)
        BY <1>14, <2>1, <3>2 DEF ResolveAgain, ExecutionSound
      <3> QED BY <1>1, <3>2, <3>3, <3>4, <3>5, <3>6, <3>7, ExecutionKeeps
    <2>3. CASE ~SameDigest(target, previews[p])
      BY <1>1, <1>3, <1>12, <1>14, <2>3 DEF ResolveAgain
    <2> QED BY <2>2, <2>3
  <1>15. ASSUME NEW p \in 1..Len(previews), NEW grant \in grants, VerifyGrant(p, grant)
         PROVE DeletionInv'
    <2>1. ExecutionSound(p) /\ execution[p] \in Executions BY <1>1, <1>2
    <2>2. CASE GrantAllows(grant, p, execution[p].now)
      <3>1. PICK verified : verified = Append(execution[p].verified, grant) OBVIOUS
      <3>2. execution[p].verified \in Seq(Grants) /\ grant \in Grants
        BY <1>1, <2>1 DEF Executions, DeletionTypes
      <3>3. /\ verified \in Seq(Grants) /\ Len(verified) = Len(execution[p].verified) + 1
            /\ \A i \in 1..Len(execution[p].verified) : verified[i] = execution[p].verified[i]
            /\ verified[Len(execution[p].verified) + 1] = grant
        BY <3>1, <3>2
      <3>4. PICK exec : exec = [execution[p] EXCEPT !.verified = verified] OBVIOUS
      <3>5. /\ exec \in Executions /\ exec.at = execution[p].at /\ exec.now = execution[p].now
            /\ exec.current = execution[p].current /\ exec.seen = execution[p].seen
            /\ exec.verified = verified
        BY <2>1, <3>3, <3>4 DEF Executions
      <3>6. execution' = [execution EXCEPT ![p] = exec]
        <4>1. execution' = [execution EXCEPT ![p] =
                IF GrantAllows(grant, p, execution[p].now)
                  THEN [execution[p] EXCEPT !.verified = Append(execution[p].verified, grant)]
                  ELSE NoExecution]
          BY <1>15 DEF VerifyGrant
        <4>2. exec = [execution[p] EXCEPT !.verified = Append(execution[p].verified, grant)]
          BY <3>1, <3>4
        <4> QED BY <2>2, <4>1, <4>2
      <3> HIDE <3>1, <3>4
      <3>7. Len(execution[p].verified) \in Nat BY <3>2
      <3>8. \A i \in 1..Len(verified) : i \in 1..Len(execution[p].verified) \/ i = Len(execution[p].verified) + 1
        BY <3>3, <3>7
      <3>9. \A i \in 1..Len(exec.verified) :
              exec.verified[i] \in grants /\ GrantAllows(exec.verified[i], p, exec.now)
        BY <2>1, <2>2, <3>3, <3>5, <3>8 DEF ExecutionSound
      <3>10. exec.at = "verifying" /\ exec.current = {previews[p].digest} /\ previews[p].digest \in exec.seen
             /\ target \in exec.seen /\ Unexpired(previews[p], exec.now)
        BY <1>15, <2>1, <3>5 DEF ExecutionSound, VerifyGrant
      <3> QED BY <1>1, <1>15, <3>5, <3>6, <3>9, <3>10, ExecutionKeeps DEF VerifyGrant
    <2>3. CASE ~GrantAllows(grant, p, execution[p].now)
      BY <1>1, <1>3, <1>12, <1>15, <2>3 DEF VerifyGrant
    <2> QED BY <2>2, <2>3
  <1>16. ASSUME NEW p \in 1..Len(previews), Delete(p) PROVE DeletionInv'
    <2>1. \A d \in deletions' : DeletionSound(d) BY <1>16, DeleteKeeps
    <2> QED BY <1>3, <1>12, <1>16, <2>1 DEF Delete
  <1>17. ASSUME NEW p \in 1..Len(previews), Abandon(p) PROVE DeletionInv'
    BY <1>1, <1>3, <1>12, <1>17 DEF Abandon
  <1> QED BY <1>2, <1>5, <1>6, <1>7, <1>8, <1>9, <1>10, <1>11, <1>13, <1>14, <1>15, <1>16, <1>17
      DEF DeletionNext

\* Whatever the target, the clock and the other executions do between the awaits of execute()
\* (deletion.py): the provider deletes only what was previewed and was there during the
\* execution, with the approvals its size asks for, by different principals who knew the plan;
\* neither the plan nor these approvals had expired when the execution began.
THEOREM DeletionsAreAuthorized == DeletionSpec => []DeletedAsAuthorized
  <1>1. DeletionInv => DeletedAsAuthorized
    <2> SUFFICES ASSUME DeletionInv, NEW d \in deletions
                 PROVE  /\ d.resolved = {previews[d.plan].digest}
                        /\ previews[d.plan].digest \in d.seen
                        /\ Unexpired(previews[d.plan], d.began)
                        /\ Cardinality({g.principal : g \in Allowing(d)})
                             >= RequiredApprovals(previews[d.plan].digest)
      BY DEF DeletedAsAuthorized, Allowing, Unexpired
    <2>1. DeletionSound(d) /\ IsFiniteSet(grants) BY DEF DeletionInv, DeletionTypes
    <2>2. PICK S : S = {g.principal : g \in Allowing(d)} OBVIOUS
    <2>3. IsFiniteSet(S) /\ Cardinality(S) \in Nat
      <3>1. IsFiniteSet(Allowing(d)) BY <2>1, FS_Subset DEF Allowing
      <3>2. PICK f : f = [g \in Allowing(d) |-> g.principal] OBVIOUS
      <3>3. f \in Surjection(Allowing(d), S) BY <2>2, <3>2 DEF Surjection
      <3>4. IsFiniteSet(S) BY <3>1, <3>3, FS_Surjection
      <3> QED BY <3>4, FS_CardinalityType
    <2>4. PICK g \in Allowing(d), h \in Allowing(d) :
            RequiredApprovals(previews[d.plan].digest) = 2 => g.principal # h.principal
      BY <2>1 DEF DeletionSound
    <2>5. {g.principal, h.principal} \subseteq S BY <2>2
    <2>6. Cardinality({g.principal, h.principal}) <= Cardinality(S)
      BY <2>3, <2>5, FS_Subset
    <2>7. Cardinality({g.principal, h.principal}) = IF g.principal = h.principal THEN 1 ELSE 2
      <3>1. IsFiniteSet({g.principal}) /\ Cardinality({g.principal}) = 1 BY FS_Singleton
      <3>2. {g.principal, h.principal} = {g.principal} \union {h.principal} OBVIOUS
      <3>3. Cardinality({g.principal, h.principal})
              = IF h.principal \in {g.principal} THEN 1 ELSE 1 + 1
        BY <3>1, <3>2, FS_AddElement
      <3> QED BY <3>3
    <2>8. Cardinality(S) >= RequiredApprovals(previews[d.plan].digest)
      BY <2>3, <2>4, <2>6, <2>7 DEF RequiredApprovals
    <2> QED BY <2>1, <2>2, <2>8 DEF DeletionSound
  <1> QED BY DeletionStart, DeletionStep, <1>1, PTL DEF DeletionSpec

-----------------------------------------------------------------------------
(* AgingTables                                                              *)

Verdicts == [at : Nat, counted : BOOLEAN, ok : BOOLEAN]

AgingTypes ==
  /\ instant \in Nat /\ touched \in Nat
  /\ backend \in {"memory", "redis"}
  /\ window \in Seq(Nat)
  /\ verdicts \in Seq(Verdicts)

\* The window holds times in order, none of them after the last exec.
WindowOrdered ==
  /\ touched <= instant
  /\ \A i \in 1..Len(window) : window[i] <= touched
  /\ \A i, j \in 1..Len(window) : i <= j => window[i] <= window[j]

\* The times of a window that are inside it at a given time, and the verdicts that are.
Inside(times, t) == {i \in 1..Len(times) : times[i] + Window > t}
InsideCounted(told, t) == {j \in 1..Len(told) : told[j].counted /\ told[j].at + Window > t}

\* From now on, as many times are in the window as counted requests are.
WindowTrue ==
  \A t \in Nat : t >= instant =>
    Cardinality(Inside(window, t)) = Cardinality(InsideCounted(verdicts, t))

\* TablesExact of the limiter.
VerdictsExact ==
  \A i \in 1..Len(verdicts) :
    /\ Cardinality(CountedBefore(i)) < RateLimit => verdicts[i].counted \/ Unseen(i)
    /\ verdicts[i].counted => Cardinality(CountedBefore(i)) < RateLimit
    /\ verdicts[i].ok => verdicts[i].counted
    /\ backend = "memory" => (verdicts[i].counted <=> verdicts[i].ok)

\* What a provider announced expires a lifetime after it; what is configured is known.
RecordsKnown ==
  /\ known \in [AllModels -> SUBSET [source : {"configuration", "provider"}, observed : Nat, expires : Nat]]
  /\ \A m \in AllModels :
       /\ \A r \in known[m] : r.source = "provider" => r.expires = r.observed + Ttl
       /\ m \in RouteModels => known[m] # {}

AgingInv == AgingTypes /\ WindowOrdered /\ WindowTrue /\ VerdictsExact /\ RecordsKnown

\* Sets of places are finite.
LEMMA InsideFinite ==
  ASSUME NEW n \in Nat, NEW S \in SUBSET (1..n)
  PROVE  IsFiniteSet(S) /\ Cardinality(S) \in Nat
  <1>1. IsFiniteSet(1..n) BY FS_Interval
  <1>2. IsFiniteSet(S) BY <1>1, FS_Subset
  <1> QED BY <1>2, FS_CardinalityType

\* What one more time, or one more verdict, makes of the number inside.
LEMMA InsideAppended ==
  ASSUME NEW times \in Seq(Nat), NEW moment \in Nat, NEW t \in Nat
  PROVE  Cardinality(Inside(Append(times, moment), t))
           = Cardinality(Inside(times, t)) + (IF moment + Window > t THEN 1 ELSE 0)
  <1>1. PICK more \in Seq(Nat) : more = Append(times, moment) BY Appended
  <1>2. /\ Len(more) = Len(times) + 1 /\ more[Len(times) + 1] = moment /\ Len(times) \in Nat
        /\ \A i \in 1..Len(times) : more[i] = times[i]
    BY <1>1, Appended
  <1>3. Inside(more, t) = IF moment + Window > t THEN Inside(times, t) \union {Len(times) + 1}
                          ELSE Inside(times, t)
    BY <1>2 DEF Inside
  <1>4. /\ IsFiniteSet(Inside(times, t)) /\ Cardinality(Inside(times, t)) \in Nat
        /\ Len(times) + 1 \notin Inside(times, t)
    <2>1. Inside(times, t) \in SUBSET (1..Len(times)) BY DEF Inside
    <2>2. IsFiniteSet(Inside(times, t)) /\ Cardinality(Inside(times, t)) \in Nat
      BY <1>2, <2>1, InsideFinite
    <2> QED BY <1>2, <2>1, <2>2
  <1>5. Cardinality(Inside(times, t) \union {Len(times) + 1}) = Cardinality(Inside(times, t)) + 1
    BY <1>4, FS_AddElement
  <1> QED BY <1>1, <1>3, <1>4, <1>5

\* The same for the verdicts.
LEMMA CountedAppended ==
  ASSUME NEW told \in Seq(Verdicts), NEW verdict \in Verdicts, NEW t \in Nat
  PROVE  Cardinality(InsideCounted(Append(told, verdict), t))
           = Cardinality(InsideCounted(told, t))
               + (IF verdict.counted /\ verdict.at + Window > t THEN 1 ELSE 0)
  <1>1. PICK more \in Seq(Verdicts) : more = Append(told, verdict) BY Appended
  <1>2. /\ Len(more) = Len(told) + 1 /\ more[Len(told) + 1] = verdict /\ Len(told) \in Nat
        /\ \A i \in 1..Len(told) : more[i] = told[i]
    BY <1>1, Appended
  <1>3. CASE verdict.counted /\ verdict.at + Window > t
    <2>1. InsideCounted(more, t) = InsideCounted(told, t) \union {Len(told) + 1}
      BY <1>2, <1>3 DEF InsideCounted
    <2>2. IsFiniteSet(InsideCounted(told, t)) /\ Len(told) + 1 \notin InsideCounted(told, t)
      <3>1. InsideCounted(told, t) \in SUBSET (1..Len(told)) BY DEF InsideCounted
      <3>2. IsFiniteSet(InsideCounted(told, t)) BY <1>2, <3>1, InsideFinite
      <3> QED BY <1>2, <3>1, <3>2
    <2> QED BY <1>1, <1>3, <2>1, <2>2, FS_AddElement
  <1>4. CASE ~(verdict.counted /\ verdict.at + Window > t)
    <2>1. InsideCounted(more, t) = InsideCounted(told, t)
      BY <1>2, <1>4 DEF InsideCounted
    <2>2. Cardinality(InsideCounted(told, t)) \in Nat
      <3>1. InsideCounted(told, t) \in SUBSET (1..Len(told)) BY DEF InsideCounted
      <3> QED BY <1>2, <3>1, InsideFinite
    <2> QED BY <1>1, <1>4, <2>1, <2>2
  <1> QED BY <1>3, <1>4

\* What popleft() leaves of an ordered window: what is inside it now.
LEMMA PrunedIs ==
  ASSUME AgingTypes, WindowOrdered
  PROVE  \E n \in 0..Len(window) :
           /\ Pruned \in Seq(Nat) /\ Len(Pruned) = Len(window) - n
           /\ \A i \in 1..Len(Pruned) : Pruned[i] = window[i + n] /\ InWindow(window[i + n])
           /\ \A i \in 1..n : ~InWindow(window[i])
  <1> DEFINE T == {n \in 0..Len(window) : \A i \in 1..n : ~InWindow(window[i])}
  <1>1. window \in Seq(Nat) /\ Len(window) \in Nat /\ instant \in Nat BY DEF AgingTypes
  <1>2. T \in SUBSET (0..Len(window)) OBVIOUS
  <1>3. 0 \in T BY <1>1
  <1>4. \E n \in T : \A m \in T : n >= m
    <2> HIDE DEF T
    <2> QED BY <1>1, <1>2, <1>3, Greatest
  <1>5. Max(T) \in T /\ \A m \in T : Max(T) >= m BY <1>4 DEF Max
  <1>6. PICK n \in 0..Len(window) : n = Max(T) BY <1>5
  <1>7. n \in T /\ \A m \in T : n >= m BY <1>5, <1>6
  <1>8. Pruned = SubSeq(window, n + 1, Len(window)) BY <1>6 DEF Pruned
  <1>9. /\ Pruned \in Seq(Nat) /\ Len(Pruned) = Len(window) - n
        /\ \A i \in 1..Len(Pruned) : Pruned[i] = window[i + n]
    BY <1>1, <1>8
  <1>10. ASSUME NEW i \in 1..Len(Pruned) PROVE InWindow(window[i + n])
    <2>1. n < Len(window) /\ n + 1 \in 0..Len(window) /\ n + 1 \in 1..Len(window)
          /\ i + n \in 1..Len(window) /\ n + 1 <= i + n
      BY <1>9
    <2>2. n + 1 \notin T BY <1>7, <2>1
    <2>3. PICK j \in 1..(n + 1) : InWindow(window[j]) BY <2>1, <2>2
    <2>4. j \notin 1..n BY <1>7, <2>3
    <2>5. j = n + 1 BY <2>3, <2>4
    <2>6. window[n + 1] <= window[i + n] BY <2>1 DEF WindowOrdered
    <2>7. window[n + 1] \in Nat /\ window[i + n] \in Nat BY <1>1, <2>1
    <2>8. window[n + 1] + Window > instant /\ Window \in Nat
      BY <2>3, <2>5, AgingAssumption DEF InWindow
    <2>9. window[i + n] + Window > instant
      <3>1. \A a, b, w, t \in Nat : a <= b /\ a + w > t => b + w > t OBVIOUS
      <3> QED BY <1>1, <2>6, <2>7, <2>8, <3>1
    <2> QED BY <2>9 DEF InWindow
  <1> QED BY <1>7, <1>9, <1>10

\* From now on as many are inside the pruned window as were in the window.
LEMMA PrunedKeeps ==
  ASSUME AgingTypes, WindowOrdered, NEW t \in Nat, t >= instant
  PROVE  Cardinality(Inside(Pruned, t)) = Cardinality(Inside(window, t))
  <1>1. PICK n \in 0..Len(window) :
           /\ Pruned \in Seq(Nat) /\ Len(Pruned) = Len(window) - n
           /\ \A i \in 1..Len(Pruned) : Pruned[i] = window[i + n] /\ InWindow(window[i + n])
           /\ \A i \in 1..n : ~InWindow(window[i])
    BY PrunedIs
  <1>2. PICK left \in Seq(Nat) : left = Pruned BY <1>1
  <1>3. window \in Seq(Nat) /\ Len(window) \in Nat /\ instant \in Nat BY DEF AgingTypes
  <1>4. PICK f : f = [i \in Inside(left, t) |-> i + n] OBVIOUS
  <1>5. ASSUME NEW i \in Inside(left, t) PROVE i + n \in Inside(window, t)
    <2>1. i \in 1..Len(left) /\ left[i] + Window > t BY DEF Inside
    <2>2. i + n \in 1..Len(window) /\ left[i] = window[i + n] BY <1>1, <1>2, <1>3, <2>1
    <2> QED BY <2>1, <2>2 DEF Inside
  <1>6. f \in Injection(Inside(left, t), Inside(window, t))
    <2>1. f \in [Inside(left, t) -> Inside(window, t)] BY <1>4, <1>5
    <2>2. \A i \in Inside(left, t) : i \in Int BY DEF Inside
    <2>3. \A i, j \in Inside(left, t) : f[i] = f[j] => i = j BY <1>4, <2>2
    <2> QED BY <2>1, <2>3 DEF Injection, IsInjective
  <1>7. ASSUME NEW k \in Inside(window, t) PROVE \E i \in Inside(left, t) : f[i] = k
    <2>1. k \in 1..Len(window) /\ window[k] \in Nat /\ window[k] + Window > t BY <1>3 DEF Inside
    <2>2. InWindow(window[k]) BY <1>3, <2>1, AgingAssumption DEF InWindow
    <2>3. k > n BY <1>1, <2>1, <2>2
    <2>4. k - n \in 1..Len(left) /\ (k - n) + n = k BY <1>1, <1>2, <2>1, <2>3
    <2>5. left[k - n] = window[k] BY <1>1, <1>2, <2>4
    <2>6. k - n \in Inside(left, t) BY <2>1, <2>4, <2>5 DEF Inside
    <2> QED BY <1>4, <2>4, <2>6
  <1>8. f \in Surjection(Inside(left, t), Inside(window, t))
    BY <1>6, <1>7 DEF Injection, Surjection
  <1>9. IsFiniteSet(Inside(left, t))
    <2>1. Inside(left, t) \in SUBSET (1..Len(left)) /\ Len(left) \in Nat BY DEF Inside
    <2> QED BY <2>1, InsideFinite
  <1>10. Cardinality(Inside(window, t)) = Cardinality(Inside(left, t))
    BY <1>6, <1>8, <1>9, FS_Surjection
  <1> QED BY <1>2, <1>10

\* There is room exactly if fewer than the limit of the counted requests are in the window.
LEMMA CountsIs ==
  ASSUME AgingTypes, WindowOrdered, WindowTrue
  PROVE  Counts <=> Cardinality(InsideCounted(verdicts, instant)) < RateLimit
  <1>1. PICK n \in 0..Len(window) :
           /\ Pruned \in Seq(Nat) /\ Len(Pruned) = Len(window) - n
           /\ \A i \in 1..Len(Pruned) : Pruned[i] = window[i + n] /\ InWindow(window[i + n])
    BY PrunedIs
  <1>2. Inside(Pruned, instant) = 1..Len(Pruned) BY <1>1 DEF Inside, InWindow
  <1>3. instant \in Nat BY DEF AgingTypes
  <1>4. Cardinality(1..Len(Pruned)) = Len(Pruned) BY <1>1, FS_Interval
  <1>5. Cardinality(Inside(Pruned, instant)) = Cardinality(InsideCounted(verdicts, instant))
    BY <1>3, PrunedKeeps DEF WindowTrue
  <1> QED BY <1>2, <1>4, <1>5 DEF Counts

\* A new verdict leaves the older ones exact; it is exact if it was counted by the rule.
LEMMA ToldExact ==
  ASSUME AgingTypes, VerdictsExact, NEW verdict \in Verdicts, verdict.at = instant,
         verdicts' = Append(verdicts, verdict), backend' = backend,
         verdict.ok => verdict.counted,
         backend = "memory" => (verdict.counted <=> verdict.ok),
         verdict.counted => Cardinality(InsideCounted(verdicts, instant)) < RateLimit,
         Cardinality(InsideCounted(verdicts, instant)) < RateLimit =>
           verdict.counted \/ (backend = "redis" /\ ~verdict.ok)
  PROVE  VerdictsExact' /\ verdicts' \in Seq(Verdicts)
  <1>1. verdicts \in Seq(Verdicts) /\ Len(verdicts) \in Nat BY DEF AgingTypes
  <1>2. /\ verdicts' \in Seq(Verdicts) /\ Len(verdicts') = Len(verdicts) + 1
        /\ verdicts'[Len(verdicts) + 1] = verdict
        /\ \A i \in 1..Len(verdicts) : verdicts'[i] = verdicts[i]
    BY <1>1
  <1>3. ASSUME NEW i \in 1..Len(verdicts')
        PROVE  /\ Cardinality(CountedBefore(i)') < RateLimit => verdicts'[i].counted \/ Unseen(i)'
               /\ verdicts'[i].counted => Cardinality(CountedBefore(i)') < RateLimit
               /\ verdicts'[i].ok => verdicts'[i].counted
               /\ backend' = "memory" => (verdicts'[i].counted <=> verdicts'[i].ok)
    <2>1. CASE i \in 1..Len(verdicts)
      <3>1. CountedBefore(i)' = CountedBefore(i) /\ verdicts'[i] = verdicts[i]
            /\ (Unseen(i)' <=> Unseen(i))
        BY <1>1, <1>2, <2>1 DEF CountedBefore, Unseen
      <3> QED BY <2>1, <3>1 DEF VerdictsExact
    <2>2. CASE i = Len(verdicts) + 1
      <3>1. CountedBefore(i)' = InsideCounted(verdicts, instant)
        BY <1>1, <1>2, <2>2 DEF CountedBefore, InsideCounted
      <3>2. verdicts'[i] = verdict BY <1>2, <2>2
      <3> QED BY <1>2, <2>2, <3>1, <3>2 DEF Unseen
    <2> QED BY <1>1, <1>2, <2>1, <2>2
  <1> QED BY <1>2, <1>3 DEF VerdictsExact

\* What allow() and the script leave of the window and the verdicts.
LEMMA CountKeeps ==
  ASSUME AgingInv, Count, NEW ok \in BOOLEAN, Told(ok), ok => Counts,
         backend = "memory" => ok = Counts
  PROVE  AgingInv'
  <1>1. /\ AgingTypes /\ WindowOrdered /\ WindowTrue /\ VerdictsExact /\ RecordsKnown
        /\ instant \in Nat /\ window \in Seq(Nat) /\ verdicts \in Seq(Verdicts)
    BY DEF AgingInv, AgingTypes
  <1>2. PICK verdict \in Verdicts :
          verdict = [at |-> instant, counted |-> Counts, ok |-> ok]
    <2>1. instant \in Nat /\ Counts \in BOOLEAN BY <1>1 DEF Counts
    <2>2. PICK verdict : verdict = [at |-> instant, counted |-> Counts, ok |-> ok] OBVIOUS
    <2>3. verdict \in Verdicts BY <2>1, <2>2, Zenon DEF Verdicts
    <2> QED BY <2>2, <2>3
  <1>3. /\ verdicts' = Append(verdicts, verdict) /\ verdict.at = instant
        /\ verdict.counted = Counts /\ verdict.ok = ok
    BY <1>2 DEF Told
  <1>4. UNCHANGED <<instant, known, polling, backend>> /\ touched' = instant
        /\ window' = IF Counts THEN Append(Pruned, instant) ELSE Pruned
    BY DEF Count
  <1>5. PICK n \in 0..Len(window) :
           /\ Pruned \in Seq(Nat) /\ Len(Pruned) = Len(window) - n
           /\ \A i \in 1..Len(Pruned) : Pruned[i] = window[i + n] /\ InWindow(window[i + n])
    BY <1>1, PrunedIs
  <1>6. PICK left \in Seq(Nat) : left = Pruned BY <1>5
  <1>7. VerdictsExact' /\ verdicts' \in Seq(Verdicts)
    <2>1. Counts <=> Cardinality(InsideCounted(verdicts, instant)) < RateLimit BY <1>1, CountsIs
    <2>2. backend' = backend BY <1>4
    <2>3. verdict.counted <=> Cardinality(InsideCounted(verdicts, instant)) < RateLimit
      BY <1>3, <2>1
    <2>4. verdict.ok => verdict.counted BY <1>3
    <2>5. backend = "memory" => (verdict.counted <=> verdict.ok) BY <1>3
    <2> QED BY <1>1, <1>3, <2>2, <2>3, <2>4, <2>5, ToldExact
  <1>8. ASSUME NEW i \in 1..Len(left) PROVE left[i] <= instant
    <2>1. i + n \in 1..Len(window) /\ left[i] = window[i + n] /\ window[i + n] \in Nat
      <3>1. Len(window) \in Nat /\ Len(left) = Len(window) - n BY <1>1, <1>5, <1>6
      <3>2. i + n \in 1..Len(window) BY <3>1
      <3> QED BY <1>1, <1>5, <1>6, <3>2
    <2>2. window[i + n] <= touched /\ touched <= instant /\ touched \in Nat
      BY <1>1, <2>1 DEF WindowOrdered, AgingTypes
    <2> QED BY <1>1, <2>1, <2>2
  <1>9. ASSUME NEW i \in 1..Len(left), NEW j \in 1..Len(left), i <= j PROVE left[i] <= left[j]
    <2>1. i + n \in 1..Len(window) /\ left[i] = window[i + n]
          /\ j + n \in 1..Len(window) /\ left[j] = window[j + n] /\ i + n <= j + n
      <3>1. Len(window) \in Nat /\ Len(left) = Len(window) - n BY <1>1, <1>5, <1>6
      <3>2. i + n \in 1..Len(window) /\ j + n \in 1..Len(window) /\ i + n <= j + n
        BY <1>9, <3>1
      <3> QED BY <1>5, <1>6, <3>2
    <2> QED BY <1>1, <2>1 DEF WindowOrdered
  <1>10. CASE Counts
    <2>1. PICK more \in Seq(Nat) : more = Append(left, instant) BY <1>1, Appended
    <2>2. /\ Len(more) = Len(left) + 1 /\ more[Len(left) + 1] = instant
          /\ \A i \in 1..Len(left) : more[i] = left[i]
          /\ Len(left) \in Nat
      BY <1>1, <2>1, Appended
    <2>3. window' = more BY <1>4, <1>6, <1>10, <2>1
    <2>4. AgingTypes' BY <1>1, <1>4, <1>7, <2>3 DEF AgingTypes
    <2>5. WindowOrdered'
      <3>1. ASSUME NEW i \in 1..Len(more) PROVE more[i] <= instant
        <4>1. CASE i = Len(left) + 1 BY <1>1, <2>2, <4>1
        <4>2. CASE i # Len(left) + 1
          <5>1. i \in 1..Len(left) BY <2>2, <4>2
          <5> QED BY <1>8, <2>2, <5>1
        <4> QED BY <4>1, <4>2
      <3>2. ASSUME NEW i \in 1..Len(more), NEW j \in 1..Len(more), i <= j
            PROVE  more[i] <= more[j]
        <4>1. CASE j = Len(left) + 1 BY <2>2, <3>1, <4>1
        <4>2. CASE j # Len(left) + 1
          <5>1. i \in 1..Len(left) /\ j \in 1..Len(left) BY <2>2, <3>2, <4>2
          <5> QED BY <1>9, <2>2, <3>2, <5>1
        <4> QED BY <4>1, <4>2
      <3>3. touched' = instant /\ instant' = instant /\ window' = more BY <1>4, <2>3
      <3>4. touched' <= instant' BY <1>1, <3>3
      <3> QED BY <3>1, <3>2, <3>3, <3>4 DEF WindowOrdered
    <2>6. WindowTrue'
      <3>1. ASSUME NEW t \in Nat, t >= instant
            PROVE  Cardinality(Inside(more, t)) = Cardinality(InsideCounted(verdicts', t))
        <4>1. Cardinality(Inside(left, t)) = Cardinality(InsideCounted(verdicts, t))
          BY <1>1, <1>6, <3>1, PrunedKeeps DEF WindowTrue
        <4>2. Cardinality(Inside(more, t))
                = Cardinality(Inside(left, t)) + (IF instant + Window > t THEN 1 ELSE 0)
          BY <1>1, <2>1, InsideAppended
        <4>3. Cardinality(InsideCounted(verdicts', t))
                = Cardinality(InsideCounted(verdicts, t))
                    + (IF verdict.counted /\ verdict.at + Window > t THEN 1 ELSE 0)
          BY <1>1, <1>3, CountedAppended
        <4> QED BY <1>3, <1>10, <4>1, <4>2, <4>3
      <3> QED BY <1>4, <2>3, <3>1 DEF WindowTrue
    <2> QED BY <1>1, <1>4, <1>7, <2>4, <2>5, <2>6 DEF AgingInv, RecordsKnown
  <1>11. CASE ~Counts
    <2>1. window' = left BY <1>4, <1>6, <1>11
    <2>2. AgingTypes' BY <1>1, <1>4, <1>7, <2>1 DEF AgingTypes
    <2>3. WindowOrdered'
      <3>1. touched' = instant /\ instant' = instant /\ window' = left BY <1>4, <2>1
      <3>2. touched' <= instant' BY <1>1, <3>1
      <3> QED BY <1>8, <1>9, <3>1, <3>2 DEF WindowOrdered
    <2>4. WindowTrue'
      <3>1. ASSUME NEW t \in Nat, t >= instant
            PROVE  Cardinality(Inside(left, t)) = Cardinality(InsideCounted(verdicts', t))
        <4>1. Cardinality(Inside(left, t)) = Cardinality(InsideCounted(verdicts, t))
          BY <1>1, <1>6, <3>1, PrunedKeeps DEF WindowTrue
        <4>2. Cardinality(InsideCounted(verdicts', t))
                = Cardinality(InsideCounted(verdicts, t))
                    + (IF verdict.counted /\ verdict.at + Window > t THEN 1 ELSE 0)
          BY <1>1, <1>3, CountedAppended
        <4>3. Cardinality(InsideCounted(verdicts, t)) \in Nat
          <5>1. InsideCounted(verdicts, t) \in SUBSET (1..Len(verdicts)) BY DEF InsideCounted
          <5>2. Len(verdicts) \in Nat BY <1>1
          <5> QED BY <5>1, <5>2, InsideFinite
        <4> QED BY <1>3, <1>11, <4>1, <4>2, <4>3
      <3> QED BY <1>4, <2>1, <3>1 DEF WindowTrue
    <2> QED BY <1>1, <1>4, <1>7, <2>2, <2>3, <2>4 DEF AgingInv, RecordsKnown
  <1> QED BY <1>10, <1>11

\* At the start nothing is counted and what is configured is known.
LEMMA AgingStart == AgingInit => AgingInv
  <1> SUFFICES ASSUME AgingInit PROVE AgingInv OBVIOUS
  <1>1. AgingTypes /\ WindowOrdered /\ VerdictsExact
    BY DEF AgingInit, AgingTypes, WindowOrdered, VerdictsExact
  <1>2. WindowTrue
    <2>1. window = <<>> /\ verdicts = <<>> BY DEF AgingInit
    <2>2. \A t \in Nat : Inside(window, t) = {} /\ InsideCounted(verdicts, t) = {}
      BY <2>1 DEF Inside, InsideCounted
    <2> QED BY <2>2 DEF WindowTrue
  <1>3. RecordsKnown
    <2> DEFINE Configured == [source |-> "configuration", observed |-> 0, expires |-> 0]
               Records == [source : {"configuration", "provider"}, observed : Nat, expires : Nat]
    <2>1. Configured \in Records OBVIOUS
    <2>2. \A m \in AllModels : ConfiguredRecord(m) = IF m \in RouteModels THEN {Configured} ELSE {}
      BY DEF ConfiguredRecord
    <2>3. Configured.source # "provider" OBVIOUS
    <2>4. known = [m \in AllModels |-> ConfiguredRecord(m)] BY DEF AgingInit
    <2> HIDE DEF Configured, Records
    <2>5. known \in [AllModels -> SUBSET Records] BY <2>1, <2>2, <2>4
    <2>6. \A m \in AllModels :
            /\ \A r \in known[m] : r.source = "provider" => r.expires = r.observed + Ttl
            /\ m \in RouteModels => known[m] # {}
      BY <2>2, <2>3, <2>4
    <2> QED BY <2>5, <2>6 DEF RecordsKnown, Records
  <1> QED BY <1>1, <1>2, <1>3 DEF AgingInv

\* The clock, a poll, a request and the expiry of the key.
LEMMA AgingStep == AgingInv /\ [AgingNext]_agingVars => AgingInv'
  <1> SUFFICES ASSUME AgingInv, [AgingNext]_agingVars PROVE AgingInv' OBVIOUS
  <1>1. /\ AgingTypes /\ WindowOrdered /\ WindowTrue /\ VerdictsExact /\ RecordsKnown
        /\ instant \in Nat /\ window \in Seq(Nat) /\ verdicts \in Seq(Verdicts) /\ touched \in Nat
    BY DEF AgingInv, AgingTypes
  <1>2. ASSUME UNCHANGED limiterVars, instant' \in Nat, instant' >= instant, RecordsKnown'
        PROVE  AgingInv'
    <2>1. backend' = backend /\ window' = window /\ touched' = touched /\ verdicts' = verdicts
      BY <1>2 DEF limiterVars
    <2>2. AgingTypes' BY <1>1, <1>2, <2>1 DEF AgingTypes
    <2>3. WindowOrdered' BY <1>1, <1>2, <2>1 DEF WindowOrdered
    <2>4. WindowTrue' BY <1>1, <1>2, <2>1 DEF WindowTrue
    <2>5. VerdictsExact' BY <1>1, <2>1 DEF VerdictsExact, CountedBefore, Unseen
    <2> QED BY <1>2, <2>2, <2>3, <2>4, <2>5 DEF AgingInv
  <1>3. CASE PassInstant BY <1>1, <1>2, <1>3 DEF PassInstant, RecordsKnown
  <1>4. CASE Allow
    <2>1. Count /\ Told(Counts) /\ Counts \in BOOLEAN BY <1>4 DEF Allow, Counts
    <2> QED BY <2>1, CountKeeps
  <1>5. CASE AnswerLost
    <2>1. Count /\ Told(FALSE) /\ backend # "memory" BY <1>5 DEF AnswerLost
    <2> QED BY <2>1, CountKeeps
  <1>6. CASE Unreachable
    <2>1. PICK verdict \in Verdicts : verdict = [at |-> instant, counted |-> FALSE, ok |-> FALSE]
      BY <1>1 DEF Verdicts
    <2>2. /\ verdict.at = instant /\ ~verdict.counted /\ ~verdict.ok /\ backend = "redis"
          /\ verdicts' = Append(verdicts, verdict)
          /\ UNCHANGED <<instant, known, polling, backend, window, touched>>
      BY <1>6, <2>1 DEF Unreachable
    <2>3. VerdictsExact' /\ verdicts' \in Seq(Verdicts) BY <1>1, <2>2, ToldExact
    <2>4. WindowTrue'
      <3>1. ASSUME NEW t \in Nat
            PROVE  Cardinality(InsideCounted(verdicts', t)) = Cardinality(InsideCounted(verdicts, t))
        <4>1. Cardinality(InsideCounted(verdicts', t))
                = Cardinality(InsideCounted(verdicts, t))
                    + (IF verdict.counted /\ verdict.at + Window > t THEN 1 ELSE 0)
          BY <1>1, <2>2, CountedAppended
        <4>2. Cardinality(InsideCounted(verdicts, t)) \in Nat
          <5>1. InsideCounted(verdicts, t) \in SUBSET (1..Len(verdicts)) BY DEF InsideCounted
          <5>2. Len(verdicts) \in Nat BY <1>1
          <5> QED BY <5>1, <5>2, InsideFinite
        <4> QED BY <2>2, <4>1, <4>2
      <3> QED BY <1>1, <2>2, <3>1 DEF WindowTrue
    <2> QED BY <1>1, <2>2, <2>3, <2>4 DEF AgingInv, AgingTypes, WindowOrdered, RecordsKnown
  <1>7. CASE KeyExpires
    <2>1. /\ touched + Window <= instant /\ window' = <<>>
          /\ UNCHANGED <<instant, known, polling, backend, touched, verdicts>>
      BY <1>7 DEF KeyExpires
    <2>2. ASSUME NEW t \in Nat, t >= instant PROVE Inside(window, t) = {} /\ Inside(window', t) = {}
      <3>1. \A i \in 1..Len(window) : window[i] \in Nat /\ window[i] <= touched
        BY <1>1 DEF WindowOrdered
      <3> QED BY <1>1, <2>1, <2>2, <3>1, AgingAssumption DEF Inside
    <2>3. WindowTrue' BY <1>1, <2>1, <2>2 DEF WindowTrue
    <2>4. AgingTypes' /\ WindowOrdered'
      BY <1>1, <2>1 DEF AgingTypes, WindowOrdered
    <2>5. VerdictsExact' BY <1>1, <2>1 DEF VerdictsExact, CountedBefore, Unseen
    <2> QED BY <1>1, <2>1, <2>3, <2>4, <2>5 DEF AgingInv, RecordsKnown
  <1>8. ASSUME NEW p \in Pollers, PollAnswer(p) \/ PollFails(p) PROVE AgingInv'
    BY <1>1, <1>2, <1>8 DEF PollAnswer, PollFails, RecordsKnown
  <1>9. ASSUME NEW p \in Pollers, PollRecorded(p) PROVE AgingInv'
    <2>1. PICK named \in SUBSET Announceable :
            known' = [m \in AllModels |->
              IF m \in named
              THEN {[source |-> "provider", observed |-> instant, expires |-> instant + Ttl]}
              ELSE known[m]]
      BY <1>9 DEF PollRecorded
    <2>2. RecordsKnown'
      <3> DEFINE Records == [source : {"configuration", "provider"}, observed : Nat, expires : Nat]
      <3>1. PICK heard : heard = [source |-> "provider", observed |-> instant, expires |-> instant + Ttl]
        OBVIOUS
      <3>2. heard \in Records /\ heard.expires = heard.observed + Ttl
        BY <1>1, <3>1, AgingAssumption
      <3>3. known' = [m \in AllModels |-> IF m \in named THEN {heard} ELSE known[m]]
        BY <2>1, <3>1
      <3>4. known \in [AllModels -> SUBSET Records] BY <1>1 DEF RecordsKnown
      <3> HIDE DEF Records
      <3>5. known' \in [AllModels -> SUBSET Records] BY <3>2, <3>3, <3>4
      <3>6. ASSUME NEW m \in AllModels
            PROVE  /\ \A r \in known'[m] : r.source = "provider" => r.expires = r.observed + Ttl
                   /\ m \in RouteModels => known'[m] # {}
        BY <1>1, <3>2, <3>3 DEF RecordsKnown
      <3> QED BY <3>5, <3>6 DEF RecordsKnown, Records
    <2> QED BY <1>1, <1>2, <1>9, <2>2 DEF PollRecorded
  <1>10. CASE UNCHANGED agingVars
    BY <1>1, <1>2, <1>10 DEF agingVars, RecordsKnown
  <1> QED BY <1>3, <1>4, <1>5, <1>6, <1>7, <1>8, <1>9, <1>10 DEF AgingNext

\* The rate limiter counts a request exactly if there is room for it, whatever
\* pauses, lost answers and expiries went before, and no capability is looked
\* up that is older than its lifetime (security.py, capabilities.py).
THEOREM TablesAreExact == AgingSpec => []TablesExact
  <1>1. AgingInv => TablesExact
    <2> SUFFICES ASSUME AgingInv PROVE TablesExact OBVIOUS
    <2>1. verdicts \in Seq(Verdicts) /\ instant \in Nat /\ VerdictsExact /\ RecordsKnown
      BY DEF AgingInv, AgingTypes
    <2>2. DOMAIN verdicts = 1..Len(verdicts) BY <2>1
    <2>3. ASSUME NEW m \in AllModels
          PROVE  /\ \A r \in Lookup(m) : r.source = "provider" => instant - r.observed < Ttl
                 /\ m \in RouteModels => Lookup(m) # {}
      <3>1. CASE \E r \in known[m] : Expired(r)
        <4>1. Lookup(m) = ConfiguredRecord(m) BY <3>1 DEF Lookup
        <4>2. \A r \in ConfiguredRecord(m) : r.source = "configuration" BY DEF ConfiguredRecord
        <4>3. m \in RouteModels => ConfiguredRecord(m) # {} BY DEF ConfiguredRecord
        <4> QED BY <4>1, <4>2, <4>3
      <3>2. CASE ~\E r \in known[m] : Expired(r)
        <4>1. Lookup(m) = known[m] BY <3>2 DEF Lookup
        <4>2. ASSUME NEW r \in known[m], r.source = "provider" PROVE instant - r.observed < Ttl
          <5>1. r.expires = r.observed + Ttl /\ r.observed \in Nat
            BY <2>1, <4>2 DEF RecordsKnown
          <5>2. ~Expired(r) BY <3>2
          <5> QED BY <2>1, <5>1, <5>2, AgingAssumption DEF Expired
        <4> QED BY <2>1, <4>1, <4>2 DEF RecordsKnown
      <3> QED BY <3>1, <3>2
    <2> QED BY <2>1, <2>2, <2>3 DEF TablesExact, VerdictsExact
  <1> QED BY AgingStart, AgingStep, <1>1, PTL DEF AgingSpec

-----------------------------------------------------------------------------
(* ModelReconcile                                                           *)

LastModel == Max(Models \union {0})

\* The revision of a model's row, none if it has no row.
Revisions(table) == [m \in Nat |-> IF m \in DOMAIN table THEN table[m].revision ELSE 0]

ReconcileTypes ==
  /\ DOMAIN onOffer \subseteq Models
  /\ DOMAIN rows \subseteq Models
  /\ \A m \in DOMAIN rows : rows[m].missing \in Nat /\ rows[m].revision \in Nat
  /\ refresh = [r \in Refreshers |-> refresh[r]]
  /\ \A r \in Refreshers : refresh[r].cursor \in Nat /\ DOMAIN refresh[r].found \subseteq Models
  /\ audited.created \in Nat /\ audited.updated \in Nat /\ audited.missing \in Nat
  /\ steady \subseteq DOMAIN onOffer

\* Up to its cursor, and at the end altogether, a refresh has found what was on offer all along.
SteadyFound ==
  \A r \in Refreshers :
    /\ refresh[r].at = "paging" =>
         \A m \in steady : m <= refresh[r].cursor => m \in DOMAIN refresh[r].found
    /\ refresh[r].at = "merging" => steady \subseteq DOMAIN refresh[r].found

SteadyPresent == \A m \in steady \intersect DOMAIN rows : rows[m].missing = 0

RevisionsAudited ==
  SumTo(Revisions(rows), LastModel) = audited.created + audited.updated + audited.missing

ReconcileInv == ReconcileTypes /\ SteadyFound /\ SteadyPresent /\ RevisionsAudited

\* The models are numbers up to the last.
LEMMA ModelsBounded ==
  /\ LastModel \in Nat
  /\ \A m \in Models : m \in 1..LastModel
  /\ \A S \in SUBSET Models : IsFiniteSet(S) /\ Cardinality(S) \in Nat
  <1>1. \E last \in Models \union {0} : \A m \in Models \union {0} : last >= m
    BY ReconcileAssumption
  <1>2. LastModel \in Models \union {0} /\ \A m \in Models \union {0} : LastModel >= m
    BY <1>1 DEF LastModel, Max
  <1>3. LastModel \in Nat /\ \A m \in Models : m \in 1..LastModel
    BY <1>2, ReconcileAssumption
  <1>4. ASSUME NEW S \in SUBSET Models PROVE IsFiniteSet(S) /\ Cardinality(S) \in Nat
    <2>1. IsFiniteSet(1..LastModel) BY <1>3, FS_Interval
    <2>2. S \in SUBSET (1..LastModel) BY <1>3
    <2>3. IsFiniteSet(S) BY <2>1, <2>2, FS_Subset
    <2> QED BY <2>3, FS_CardinalityType
  <1> QED BY <1>3, <1>4

\* A page is the beginning of what is beyond the cursor.
LEMMA PageIs ==
  ASSUME DOMAIN onOffer \subseteq Models, NEW from \in Nat
  PROVE  /\ Page(from) \subseteq Beyond(from) /\ Beyond(from) \subseteq Models
         /\ Page(from) # Beyond(from) =>
              /\ Max(Page(from)) \in Page(from)
              /\ \A m \in Beyond(from) : m <= Max(Page(from)) => m \in Page(from)
  <1>1. Page(from) \subseteq Beyond(from) /\ Beyond(from) \subseteq Models
    BY DEF Page, Beyond
  <1>2. Models \subseteq Nat /\ PageSize \in Nat \ {0} BY ReconcileAssumption
  <1>3. ASSUME NEW m \in Beyond(from)
        PROVE  IsFiniteSet({n \in Beyond(from) : n < m})
    <2>1. {n \in Beyond(from) : n < m} \in SUBSET Models BY <1>1
    <2> QED BY <2>1, ModelsBounded
  <1>4. ASSUME Page(from) # Beyond(from)
        PROVE  /\ Max(Page(from)) \in Page(from)
               /\ \A m \in Beyond(from) : m <= Max(Page(from)) => m \in Page(from)
    <2>1. Beyond(from) \in SUBSET Nat /\ Beyond(from) # {} BY <1>1, <1>2, <1>4
    <2>2. PICK first \in Beyond(from) : \A m \in Beyond(from) : first <= m
      BY <2>1, Least
    <2>3. {n \in Beyond(from) : n < first} = {} BY <2>1, <2>2
    <2>4. first \in Page(from)
      <3>1. Cardinality({n \in Beyond(from) : n < first}) < PageSize
        BY <1>2, <2>3, FS_EmptySet
      <3> QED BY <2>2, <3>1 DEF Page
    <2>5. Page(from) \in SUBSET (0..LastModel) /\ LastModel \in Nat
      BY <1>1, ModelsBounded
    <2>6. \E x \in Page(from) : \A y \in Page(from) : x >= y BY <2>4, <2>5, Greatest
    <2>7. Max(Page(from)) \in Page(from) BY <2>6 DEF Max
    <2>8. ASSUME NEW m \in Beyond(from), m <= Max(Page(from)) PROVE m \in Page(from)
      <3>1. PICK last \in Page(from) : last = Max(Page(from)) BY <2>7
      <3>2. last \in Beyond(from) /\ last \in Nat /\ m \in Nat /\ m <= last
        BY <1>1, <2>1, <2>8, <3>1
      <3>3. {n \in Beyond(from) : n < m} \in SUBSET {n \in Beyond(from) : n < last}
        BY <2>1, <3>2
      <3>4. Cardinality({n \in Beyond(from) : n < m})
              <= Cardinality({n \in Beyond(from) : n < last})
        BY <1>3, <3>2, <3>3, FS_Subset
      <3>5. Cardinality({n \in Beyond(from) : n < last}) < PageSize BY <3>1 DEF Page
      <3>6. /\ Cardinality({n \in Beyond(from) : n < m}) \in Nat
            /\ Cardinality({n \in Beyond(from) : n < last}) \in Nat
        BY <1>3, <3>2, FS_CardinalityType
      <3>7. Cardinality({n \in Beyond(from) : n < m}) < PageSize BY <1>2, <3>4, <3>5, <3>6
      <3> QED BY <3>7 DEF Page
    <2> QED BY <2>7, <2>8
  <1> QED BY <1>1, <1>4

\* The revisions of the rows and of the rows a merge has left.
LEMMA MergeCounted ==
  ASSUME ReconcileTypes, NEW found, DOMAIN found \subseteq Models, NEW merged,
         merged = [m \in DOMAIN rows \union DOMAIN found |->
                     IF m \notin DOMAIN rows THEN NewRow(found[m])
                     ELSE IF m \in DOMAIN found THEN Merged(rows[m], found[m])
                     ELSE Absent(rows[m])],
         NEW changed,
         changed = {m \in DOMAIN rows \intersect DOMAIN found : ~Same(rows[m], found[m])}
  PROVE  /\ \A m \in DOMAIN merged : merged[m].missing \in Nat /\ merged[m].revision \in Nat
         /\ \A m \in DOMAIN found : merged[m].missing = 0
         /\ Cardinality(DOMAIN found \ DOMAIN rows) \in Nat
         /\ Cardinality(changed) \in Nat
         /\ Cardinality(DOMAIN rows \ DOMAIN found) \in Nat
         /\ SumTo(Revisions(merged), LastModel)
              = SumTo(Revisions(rows), LastModel) + Cardinality(DOMAIN found \ DOMAIN rows)
                  + Cardinality(changed) + Cardinality(DOMAIN rows \ DOMAIN found)
  <1>1. DOMAIN merged = DOMAIN rows \union DOMAIN found OBVIOUS
  <1>2. /\ DOMAIN rows \subseteq Models /\ DOMAIN found \subseteq Models
        /\ \A m \in DOMAIN rows : rows[m].missing \in Nat /\ rows[m].revision \in Nat
    BY DEF ReconcileTypes
  <1>3. ASSUME NEW m \in DOMAIN merged
        PROVE  /\ m \in DOMAIN found \ DOMAIN rows =>
                    merged[m].missing = 0 /\ merged[m].revision = 1
               /\ m \in changed =>
                    merged[m].missing = 0 /\ merged[m].revision = rows[m].revision + 1
               /\ m \in DOMAIN rows \intersect DOMAIN found /\ m \notin changed =>
                    merged[m].missing = 0 /\ merged[m].revision = rows[m].revision
               /\ m \in DOMAIN rows \ DOMAIN found =>
                    /\ merged[m].missing = rows[m].missing + 1
                    /\ merged[m].revision = rows[m].revision + 1
    <2>1. CASE m \notin DOMAIN rows BY <1>1, <2>1 DEF NewRow
    <2>2. CASE m \in DOMAIN rows /\ m \in DOMAIN found
      BY <1>1, <2>2 DEF Merged, Same
    <2>3. CASE m \in DOMAIN rows /\ m \notin DOMAIN found
      BY <1>1, <2>3 DEF Absent
    <2> QED BY <2>1, <2>2, <2>3
  <1>4. \A m \in DOMAIN merged : merged[m].missing \in Nat /\ merged[m].revision \in Nat
    <2> SUFFICES ASSUME NEW m \in DOMAIN merged
                 PROVE  merged[m].missing \in Nat /\ merged[m].revision \in Nat
      OBVIOUS
    <2>1. CASE m \notin DOMAIN rows
      <3>1. m \in DOMAIN found \ DOMAIN rows BY <1>1, <2>1
      <3>2. merged[m].missing = 0 /\ merged[m].revision = 1 BY <1>3, <3>1
      <3> QED BY <3>2
    <2>2. CASE m \in DOMAIN rows
      <3>1. PICK k, v \in Nat : k = rows[m].missing /\ v = rows[m].revision BY <1>2, <2>2
      <3>2. /\ merged[m].missing \in {0, k + 1}
            /\ merged[m].revision \in {v, v + 1}
        <4>1. CASE m \in DOMAIN found BY <1>3, <2>2, <3>1, <4>1
        <4>2. CASE m \notin DOMAIN found BY <1>3, <2>2, <3>1, <4>2
        <4> QED BY <4>1, <4>2
      <3> QED BY <3>1, <3>2
    <2> QED BY <2>1, <2>2
  <1>5. \A m \in DOMAIN found : merged[m].missing = 0 BY <1>1, <1>3
  <1>6. PICK created, updated, missing :
          /\ created = DOMAIN found \ DOMAIN rows /\ updated = changed
          /\ missing = DOMAIN rows \ DOMAIN found
    OBVIOUS
  <1>7. /\ created \in SUBSET Models /\ updated \in SUBSET Models /\ missing \in SUBSET Models
        /\ created \intersect updated = {}
        /\ (created \union updated) \intersect missing = {}
    BY <1>2, <1>6
  <1>8. /\ IsFiniteSet(created) /\ Cardinality(created) \in Nat
        /\ IsFiniteSet(updated) /\ Cardinality(updated) \in Nat
        /\ IsFiniteSet(missing) /\ Cardinality(missing) \in Nat
    BY <1>7, ModelsBounded
  <1>9. PICK D : D = (created \union updated) \union missing OBVIOUS
  <1>10. Cardinality(D) = Cardinality(created) + Cardinality(updated) + Cardinality(missing)
    <2>1. /\ IsFiniteSet(created \union updated)
          /\ Cardinality(created \union updated) = Cardinality(created) + Cardinality(updated)
      BY <1>7, <1>8, FS_Union, FS_EmptySet
    <2>2. Cardinality(D) = Cardinality(created \union updated) + Cardinality(missing)
      <3>1. PICK both : both = created \union updated OBVIOUS
      <3>2. IsFiniteSet(both) /\ both \intersect missing = {} /\ D = both \union missing
        BY <1>7, <1>9, <2>1, <3>1
      <3>3. Cardinality(D)
              = Cardinality(both) + Cardinality(missing) - Cardinality(both \intersect missing)
        BY <1>8, <3>2, FS_Union
      <3>4. Cardinality(both) \in Nat BY <3>2, FS_CardinalityType
      <3>5. Cardinality(both \intersect missing) = 0 BY <3>2, FS_EmptySet
      <3> QED BY <1>8, <3>1, <3>3, <3>4, <3>5
    <2> QED BY <2>1, <2>2
  <1>11. PICK g, f : g = Revisions(rows) /\ f = Revisions(merged) OBVIOUS
  <1>12. ASSUME NEW k \in 1..LastModel
         PROVE  g[k] \in Int /\ f[k] = g[k] + (IF k \in D THEN 1 ELSE 0)
    <2>1. k \in Nat BY ModelsBounded
    <2>2. /\ g[k] = IF k \in DOMAIN rows THEN rows[k].revision ELSE 0
          /\ f[k] = IF k \in DOMAIN merged THEN merged[k].revision ELSE 0
      BY <1>11, <2>1 DEF Revisions
    <2>3. CASE k \notin DOMAIN merged
      BY <1>1, <1>6, <1>9, <2>2, <2>3
    <2>4. CASE k \in DOMAIN merged /\ k \notin DOMAIN rows
      <3>1. k \in DOMAIN found \ DOMAIN rows /\ k \in D BY <1>1, <1>6, <1>9, <2>4
      <3>2. merged[k].revision = 1 BY <1>3, <2>4, <3>1
      <3> QED BY <2>2, <2>4, <3>1, <3>2
    <2>5. CASE k \in DOMAIN rows
      <3>1. rows[k].revision \in Nat /\ k \in DOMAIN merged BY <1>1, <1>2, <2>5
      <3> QED BY <1>1, <1>3, <1>6, <1>9, <2>2, <2>5, <3>1
    <2> QED BY <2>3, <2>4, <2>5
  <1>13. SumTo(f, LastModel) = SumTo(g, LastModel) + Cardinality(D)
    <2>1. LastModel \in Nat /\ D \in SUBSET (1..LastModel) BY <1>7, <1>9, ModelsBounded
    <2> QED BY <1>12, <2>1, SumAdds
  <1>14. SumTo(g, LastModel) \in Int BY <1>12, ModelsBounded, SumType
  <1>15. SumTo(f, LastModel)
           = SumTo(g, LastModel) + Cardinality(created) + Cardinality(updated) + Cardinality(missing)
    BY <1>8, <1>10, <1>13, <1>14
  <1> QED BY <1>4, <1>5, <1>6, <1>8, <1>11, <1>15

\* At the start there are no rows and nothing is audited.
LEMMA ReconcileStart == ReconcileInit => ReconcileInv
  <1> SUFFICES ASSUME ReconcileInit PROVE ReconcileInv OBVIOUS
  <1>1. /\ DOMAIN onOffer = Models /\ rows = <<>> /\ steady = Models
        /\ refresh = [r \in Refreshers |-> NoRefresh]
        /\ audited = [created |-> 0, updated |-> 0, missing |-> 0]
    BY DEF ReconcileInit
  <1>2. NoRefresh.at = "idle" /\ NoRefresh.cursor = 0 /\ DOMAIN NoRefresh.found = {}
    BY DEF NoRefresh
  <1>3. ReconcileTypes /\ SteadyFound /\ SteadyPresent
    BY <1>1, <1>2 DEF ReconcileTypes, SteadyFound, SteadyPresent
  <1>4. PICK g : g = Revisions(rows) OBVIOUS
  <1>5. \A k \in 1..LastModel : g[k] = 0 BY <1>1, <1>4, ModelsBounded DEF Revisions
  <1>6. SumTo(Revisions(rows), LastModel) = 0 BY <1>4, <1>5, ModelsBounded, SumOfNone
  <1> QED BY <1>1, <1>3, <1>6 DEF ReconcileInv, RevisionsAudited

\* A refresh that has gone on, the rows unchanged.
LEMMA RefreshKeeps ==
  ASSUME ReconcileInv, UNCHANGED <<onOffer, rows, audited, steady>>,
         NEW r \in Refreshers, NEW loop, refresh' = [refresh EXCEPT ![r] = loop],
         loop.cursor \in Nat, DOMAIN loop.found \subseteq Models,
         loop.at = "paging" => \A m \in steady : m <= loop.cursor => m \in DOMAIN loop.found,
         loop.at = "merging" => steady \subseteq DOMAIN loop.found
  PROVE  ReconcileInv'
  <1>1. ReconcileTypes /\ SteadyFound /\ SteadyPresent /\ RevisionsAudited BY DEF ReconcileInv
  <1>2. refresh' = [q \in Refreshers |-> IF q = r THEN loop ELSE refresh[q]]
    BY <1>1 DEF ReconcileTypes
  <1>3. ReconcileTypes' BY <1>1, <1>2 DEF ReconcileTypes
  <1>4. SteadyFound' BY <1>1, <1>2 DEF SteadyFound
  <1>5. SteadyPresent' /\ RevisionsAudited' BY <1>1 DEF SteadyPresent, RevisionsAudited
  <1> QED BY <1>3, <1>4, <1>5 DEF ReconcileInv

\* A change of the catalog, a page, a failure or a merge.
LEMMA ReconcileStep == ReconcileInv /\ [ReconcileNext]_reconcileVars => ReconcileInv'
  <1> SUFFICES ASSUME ReconcileInv, [ReconcileNext]_reconcileVars PROVE ReconcileInv' OBVIOUS
  <1>1. ReconcileTypes /\ SteadyFound /\ SteadyPresent /\ RevisionsAudited BY DEF ReconcileInv
  <1>2. NoRefresh.at = "idle" /\ NoRefresh.cursor = 0 /\ DOMAIN NoRefresh.found = {}
    BY DEF NoRefresh
  <1>3. CASE CatalogChanges
    <2>1. steady' \subseteq steady /\ steady' \subseteq DOMAIN onOffer' /\ DOMAIN onOffer' \subseteq Models
          /\ UNCHANGED <<rows, refresh, audited>>
      BY <1>1, <1>3 DEF CatalogChanges, ReconcileTypes
    <2>2. ReconcileTypes' BY <1>1, <2>1 DEF ReconcileTypes
    <2>3. SteadyFound' BY <1>1, <2>1 DEF SteadyFound
    <2>4. SteadyPresent' BY <1>1, <2>1 DEF SteadyPresent
    <2>5. RevisionsAudited' BY <1>1, <2>1 DEF RevisionsAudited
    <2> QED BY <2>2, <2>3, <2>4, <2>5 DEF ReconcileInv
  <1>4. ASSUME NEW r \in Refreshers, BeginRefresh(r) PROVE ReconcileInv'
    <2>1. refresh[r] = NoRefresh /\ refresh' = [refresh EXCEPT ![r].at = "paging"]
          /\ UNCHANGED <<onOffer, rows, audited, steady>>
      BY <1>4 DEF BeginRefresh
    <2>2. PICK loop : loop = [NoRefresh EXCEPT !.at = "paging"] OBVIOUS
    <2>3. loop.at = "paging" /\ loop.cursor = 0 /\ DOMAIN loop.found = {} BY <2>2 DEF NoRefresh
    <2>4. refresh' = [refresh EXCEPT ![r] = loop] BY <2>1, <2>2
    <2>5. \A m \in steady : ~(m <= loop.cursor)
      BY <1>1, <2>3, ReconcileAssumption DEF ReconcileTypes
    <2>6. /\ loop.cursor \in Nat /\ DOMAIN loop.found \subseteq Models /\ loop.at # "merging"
          /\ \A m \in steady : m <= loop.cursor => m \in DOMAIN loop.found
      BY <2>3, <2>5
    <2> QED BY <2>1, <2>4, <2>6, RefreshKeeps
  <1>5. ASSUME NEW r \in Refreshers, ReadPage(r) PROVE ReconcileInv'
    <2>1. PICK from \in Nat : from = refresh[r].cursor BY <1>1 DEF ReconcileTypes
    <2>2. PICK items : items = Page(from) OBVIOUS
    <2>3. PICK found : found = [m \in DOMAIN refresh[r].found \union items |->
                                  IF m \in items THEN onOffer[m] ELSE refresh[r].found[m]]
      OBVIOUS
    <2>4. DOMAIN onOffer \subseteq Models /\ steady \subseteq DOMAIN onOffer
          /\ DOMAIN refresh[r].found \subseteq Models /\ Models \subseteq Nat
      BY <1>1, ReconcileAssumption DEF ReconcileTypes
    <2>5. /\ items \subseteq Beyond(from) /\ Beyond(from) \subseteq Models
          /\ items # Beyond(from) =>
               /\ Max(items) \in items
               /\ \A m \in Beyond(from) : m <= Max(items) => m \in items
      BY <2>2, <2>4, PageIs
    <2>6. DOMAIN found = DOMAIN refresh[r].found \union items /\ DOMAIN found \subseteq Models
      BY <2>3, <2>4, <2>5
    <2>7. refresh[r].at = "paging" /\ UNCHANGED <<onOffer, rows, audited, steady>>
      BY <1>5 DEF ReadPage
    <2>8. \A m \in steady : m \in DOMAIN found \/ (m \in Beyond(from) /\ m \notin items)
      <3> SUFFICES ASSUME NEW m \in steady, m \notin Beyond(from) PROVE m \in DOMAIN found
        BY <2>6
      <3>1. m \in DOMAIN onOffer /\ m \in Nat BY <2>4
      <3>2. ~(m > from) BY <3>1 DEF Beyond
      <3>3. m <= from BY <3>1, <3>2
      <3> QED BY <1>1, <2>1, <2>6, <2>7, <3>3 DEF SteadyFound
    <2>9. CASE items = Beyond(from)
               /\ refresh' = [refresh EXCEPT ![r] = [NoRefresh EXCEPT !.at = "merging", !.found = found]]
      <3>1. PICK loop : loop = [NoRefresh EXCEPT !.at = "merging", !.found = found] OBVIOUS
      <3>2. loop.at = "merging" /\ loop.cursor = 0 /\ loop.found = found BY <3>1 DEF NoRefresh
      <3>3. steady \subseteq DOMAIN found BY <2>8, <2>9
      <3>4. refresh' = [refresh EXCEPT ![r] = loop] BY <2>9, <3>1
      <3>5. /\ loop.cursor \in Nat /\ DOMAIN loop.found \subseteq Models /\ loop.at # "paging"
            /\ steady \subseteq DOMAIN loop.found
        BY <2>6, <3>2, <3>3
      <3> QED BY <2>7, <3>4, <3>5, RefreshKeeps
    <2>10. CASE \E pages : /\ items # Beyond(from)
                /\ refresh' = [refresh EXCEPT ![r] =
                     [at |-> "paging", cursor |-> Max(items), pages |-> pages, found |-> found]]
      <3>1. PICK pages : /\ items # Beyond(from)
                /\ refresh' = [refresh EXCEPT ![r] =
                     [at |-> "paging", cursor |-> Max(items), pages |-> pages, found |-> found]]
        BY <2>10
      <3>2. PICK last \in items : last = Max(items) BY <2>5, <3>1
      <3>3. PICK loop : loop = [at |-> "paging", cursor |-> last, pages |-> pages, found |-> found]
        OBVIOUS
      <3>4. loop.at = "paging" /\ loop.cursor = last /\ loop.found = found BY <3>3
      <3>5. last \in Nat BY <2>4, <2>5
      <3>6. \A m \in steady : m <= last => m \in DOMAIN found BY <2>5, <2>8, <3>1, <3>2
      <3>7. refresh' = [refresh EXCEPT ![r] = loop] BY <3>1, <3>2, <3>3
      <3> QED BY <2>6, <2>7, <3>4, <3>5, <3>6, <3>7, RefreshKeeps
    <2>11. CASE refresh' = [refresh EXCEPT ![r] = NoRefresh]
      <3>1. /\ NoRefresh.cursor \in Nat /\ DOMAIN NoRefresh.found \subseteq Models
            /\ NoRefresh.at # "paging" /\ NoRefresh.at # "merging"
        BY <1>2
      <3> QED BY <2>7, <2>11, <3>1, RefreshKeeps
    <2> QED BY <1>5, <2>1, <2>2, <2>3, <2>9, <2>10, <2>11 DEF ReadPage, LastPage
  <1>6. ASSUME NEW r \in Refreshers, RefreshFails(r) PROVE ReconcileInv'
    <2>1. refresh' = [refresh EXCEPT ![r] = NoRefresh] /\ UNCHANGED <<onOffer, rows, audited, steady>>
      BY <1>6 DEF RefreshFails
    <2>2. /\ NoRefresh.cursor \in Nat /\ DOMAIN NoRefresh.found \subseteq Models
          /\ NoRefresh.at # "paging" /\ NoRefresh.at # "merging"
      BY <1>2
    <2> QED BY <2>1, <2>2, RefreshKeeps
  <1>7. ASSUME NEW r \in Refreshers, Reconcile(r) PROVE ReconcileInv'
    <2>1. PICK found : found = refresh[r].found OBVIOUS
    <2>2. PICK changed :
            changed = {m \in DOMAIN rows \intersect DOMAIN found : ~Same(rows[m], found[m])}
      OBVIOUS
    <2>3. PICK merged :
            merged = [m \in DOMAIN rows \union DOMAIN found |->
                     IF m \notin DOMAIN rows THEN NewRow(found[m])
                     ELSE IF m \in DOMAIN found THEN Merged(rows[m], found[m])
                     ELSE Absent(rows[m])]
      OBVIOUS
    <2>4. /\ refresh[r].at = "merging" /\ rows' = merged
          /\ audited' = [created |-> audited.created + Cardinality(DOMAIN found \ DOMAIN rows),
                         updated |-> audited.updated + Cardinality(changed),
                         missing |-> audited.missing + Cardinality(DOMAIN rows \ DOMAIN found)]
          /\ refresh' = [refresh EXCEPT ![r] = NoRefresh]
          /\ UNCHANGED <<onOffer, steady>>
      BY <1>7, <2>1, <2>2, <2>3 DEF Reconcile
    <2>5. DOMAIN found \subseteq Models /\ steady \subseteq DOMAIN found
      BY <1>1, <2>1, <2>4 DEF ReconcileTypes, SteadyFound
    <2>6. DOMAIN merged = DOMAIN rows \union DOMAIN found BY <2>3
    <2>7. /\ \A m \in DOMAIN merged : merged[m].missing \in Nat /\ merged[m].revision \in Nat
          /\ \A m \in DOMAIN found : merged[m].missing = 0
          /\ Cardinality(DOMAIN found \ DOMAIN rows) \in Nat
          /\ Cardinality(changed) \in Nat
          /\ Cardinality(DOMAIN rows \ DOMAIN found) \in Nat
          /\ SumTo(Revisions(merged), LastModel)
               = SumTo(Revisions(rows), LastModel) + Cardinality(DOMAIN found \ DOMAIN rows)
                   + Cardinality(changed) + Cardinality(DOMAIN rows \ DOMAIN found)
      BY <1>1, <2>2, <2>3, <2>5, MergeCounted
    <2>8. /\ audited.created \in Nat /\ audited.updated \in Nat /\ audited.missing \in Nat
          /\ audited'.created = audited.created + Cardinality(DOMAIN found \ DOMAIN rows)
          /\ audited'.updated = audited.updated + Cardinality(changed)
          /\ audited'.missing = audited.missing + Cardinality(DOMAIN rows \ DOMAIN found)
      BY <1>1, <2>4 DEF ReconcileTypes
    <2>9. refresh' = [q \in Refreshers |-> IF q = r THEN NoRefresh ELSE refresh[q]]
      BY <1>1, <2>4 DEF ReconcileTypes
    <2>10. ReconcileTypes'
      <3>1. DOMAIN rows' \subseteq Models BY <1>1, <2>4, <2>5, <2>6 DEF ReconcileTypes
      <3>2. audited'.created \in Nat /\ audited'.updated \in Nat /\ audited'.missing \in Nat
        BY <2>7, <2>8
      <3>3. \A m \in DOMAIN rows' : rows'[m].missing \in Nat /\ rows'[m].revision \in Nat
        BY <2>4, <2>7
      <3>4. /\ refresh' = [q \in Refreshers |-> refresh'[q]]
            /\ \A q \in Refreshers : refresh'[q].cursor \in Nat /\ DOMAIN refresh'[q].found \subseteq Models
        BY <1>1, <1>2, <2>9 DEF ReconcileTypes
      <3> QED BY <1>1, <2>4, <3>1, <3>2, <3>3, <3>4 DEF ReconcileTypes
    <2>11. SteadyFound' BY <1>1, <1>2, <2>4, <2>9 DEF SteadyFound
    <2>12. SteadyPresent' BY <2>4, <2>5, <2>7 DEF SteadyPresent
    <2>13. RevisionsAudited'
      <3>1. PICK a, b, c \in Nat : /\ a = Cardinality(DOMAIN found \ DOMAIN rows)
                                   /\ b = Cardinality(changed)
                                   /\ c = Cardinality(DOMAIN rows \ DOMAIN found)
        BY <2>7
      <3>2. SumTo(Revisions(rows), LastModel)
              = audited.created + audited.updated + audited.missing
        BY <1>1 DEF RevisionsAudited
      <3>3. SumTo(Revisions(merged), LastModel)
              = audited'.created + audited'.updated + audited'.missing
        BY <2>7, <2>8, <3>1, <3>2
      <3> QED BY <2>4, <3>3 DEF RevisionsAudited
    <2> QED BY <2>10, <2>11, <2>12, <2>13 DEF ReconcileInv
  <1>8. CASE UNCHANGED reconcileVars
    BY <1>1, <1>8 DEF reconcileVars, ReconcileInv, ReconcileTypes, SteadyFound, SteadyPresent,
                      RevisionsAudited
  <1> QED BY <1>3, <1>4, <1>5, <1>6, <1>7, <1>8 DEF ReconcileNext

\* A model that was on offer all along is never counted missing, and the revisions of
\* the rows are what the audit says, however refreshes overlap and fail (models.py).
THEOREM CatalogIsKept == ReconcileSpec => []CatalogKept
  <1>1. ReconcileInv => CatalogKept
    BY DEF ReconcileInv, SteadyPresent, RevisionsAudited, Revisions, LastModel, CatalogKept
  <1> QED BY ReconcileStart, ReconcileStep, <1>1, PTL DEF ReconcileSpec


-----------------------------------------------------------------------------
(* StreamTranslators                                                        *)

Kinds == {"begin", "start", "delta", "content", "stop", "finish", "error", "end"}

StreamEvents ==
  [kind : Kinds, index : Nat, of : {"message", Text, "block"} \union ToolIndexes]

Orders == {"textFirst", "callsFirst"}

Order == IF lawful.callsFirst THEN "callsFirst" ELSE "textFirst"

TranslatorTypes ==
  /\ translator \in {"anthropic_to_chat", "chat_to_anthropic", "chat_to_responses"}
  /\ phase \in {"open", "closed", "failed"}
  /\ begun \in BOOLEAN /\ textBegun \in BOOLEAN
  /\ DOMAIN toolBlocks \subseteq ToolIndexes /\ IsFiniteSet(DOMAIN toolBlocks)
  /\ \A t \in DOMAIN toolBlocks : toolBlocks[t] \in Nat
  /\ nextBlock \in Nat
  /\ events \in Seq(StreamEvents)
  /\ lawful \in [kept : BOOLEAN, callsFirst : BOOLEAN, called : BOOLEAN, finishing : BOOLEAN]

\* What a client needs of what it has been sent, in which n blocks have begun.  The
\* text may share its index with a tool if the calls came first.
BlocksApart(es, order) ==
  \A i, j \in 1..Len(es) :
    /\ es[i].kind = "start" /\ es[j].kind = "start" /\ es[i].index = es[j].index
    /\ order = "textFirst" \/ (es[i].of = Text <=> es[j].of = Text)
    => i = j

Readable(es, n, order) ==
  /\ BlocksApart(es, order)
  /\ \A i \in 1..Len(es) : es[i].kind = "start" => es[i].index < n
  /\ \A d \in 1..Len(es) : es[d].kind = "delta" =>
       \E s \in 1..Len(es) : /\ es[s].kind = "start" /\ s < d
                             /\ es[s].index = es[d].index /\ es[s].of = es[d].of
  /\ \A i \in 1..Len(es) : es[i].kind = "begin" => i = 1

HasStart(es, index, of) ==
  \E s \in 1..Len(es) : es[s].kind = "start" /\ es[s].index = index /\ es[s].of = of

NoText(es) == \A i \in 1..Len(es) : es[i].kind = "start" => es[i].of # Text

HasBegun(es) == Len(es) > 0 /\ es[1].kind = "begin"

NoFinish(es) == \A i \in 1..Len(es) : es[i].kind # "finish"

OneFinish(es) == \E f \in 1..Len(es) : \A i \in 1..Len(es) : es[i].kind = "finish" <=> i = f

AllStopped(es) ==
  \A s \in 1..Len(es) : es[s].kind = "start" =>
    \E t \in 1..Len(es) : es[t].kind = "stop" /\ es[t].index = es[s].index

\* How many blocks the client has been told of.
BlocksBegun ==
  IF translator = "chat_to_anthropic" THEN nextBlock
  ELSE IF translator = "anthropic_to_chat" THEN Cardinality(DOMAIN toolBlocks)
  ELSE IF begun THEN 1 ELSE 0

\* While the stream is open: what was sent fits what the translator remembers.
Going ==
  /\ IF begun THEN HasBegun(events) ELSE events = <<>>
  /\ Readable(events, BlocksBegun, Order)
  /\ IF lawful.finishing THEN OneFinish(events) ELSE NoFinish(events)
  /\ \A t \in DOMAIN toolBlocks : HasStart(events, toolBlocks[t], t)
  /\ translator = "chat_to_responses" /\ begun => HasStart(events, 0, Text)
  /\ translator = "chat_to_anthropic" =>
       /\ IF textBegun THEN HasStart(events, 0, Text) ELSE NoText(events)
       /\ ~lawful.called => /\ DOMAIN toolBlocks = {}
                            /\ nextBlock = IF textBegun THEN 1 ELSE 0
       /\ lawful.finishing => AllStopped(events)

\* When it is over: what the client can make of it.
Over ==
  /\ \E n \in Nat : Readable(events, n, Order)
  /\ phase = "closed" =>
       /\ HasBegun(events) /\ OneFinish(events)
       /\ translator = "chat_to_anthropic" => AllStopped(events)

TranslatorInv ==
  /\ TranslatorTypes
  /\ lawful.kept => IF phase = "open" THEN Going ELSE Over

\* An event.
LEMMA EventIs ==
  ASSUME NEW kind \in Kinds, NEW index \in Nat,
         NEW of \in {"message", Text, "block"} \union ToolIndexes
  PROVE  /\ Ev(kind, index, of) \in StreamEvents /\ Ev(kind, index, of).kind = kind
         /\ Ev(kind, index, of).index = index /\ Ev(kind, index, of).of = of
  BY DEF Ev, StreamEvents

LEMMA TextIs ==
  ASSUME NEW kind \in Kinds
  PROVE  /\ Ev(kind, 0, Text) \in StreamEvents /\ Ev(kind, 0, Text).kind = kind
         /\ Ev(kind, 0, Text).index = 0 /\ Ev(kind, 0, Text).of = Text
  BY DEF Ev, StreamEvents

\* What one more event leaves as it was.
LEMMA EventKeeps ==
  ASSUME NEW es \in Seq(StreamEvents), NEW e \in StreamEvents, NEW more, more = Append(es, e)
  PROVE  /\ more \in Seq(StreamEvents)
         /\ \A index, of : HasStart(es, index, of) => HasStart(more, index, of)
         /\ HasBegun(es) => HasBegun(more)
         /\ e.kind # "finish" => /\ NoFinish(es) => NoFinish(more)
                                 /\ OneFinish(es) => OneFinish(more)
         /\ e.kind = "finish" /\ NoFinish(es) => OneFinish(more)
         /\ e.kind = "start" => HasStart(more, e.index, e.of)
         /\ e.kind # "start" /\ AllStopped(es) => AllStopped(more)
         /\ e.kind # "start" \/ e.of # Text => (NoText(es) => NoText(more))
  <1>1. /\ more \in Seq(StreamEvents) /\ Len(more) = Len(es) + 1 /\ Len(es) \in Nat
        /\ more[Len(es) + 1] = e /\ \A i \in 1..Len(es) : more[i] = es[i]
    BY Appended
  <1>2. \A i \in 1..Len(more) : i \in 1..Len(es) \/ i = Len(es) + 1 BY <1>1
  <1>3. (\A i \in 1..Len(es) : i \in 1..Len(more) /\ i # Len(es) + 1) /\ Len(es) + 1 \in 1..Len(more)
    BY <1>1
  <1>4. \A index, of : HasStart(es, index, of) => HasStart(more, index, of)
    BY <1>1, <1>3 DEF HasStart
  <1>5. HasBegun(es) => HasBegun(more) BY <1>1 DEF HasBegun
  <1>6. e.kind # "finish" /\ NoFinish(es) => NoFinish(more) BY <1>1, <1>2 DEF NoFinish
  <1>7. ASSUME e.kind # "finish", OneFinish(es) PROVE OneFinish(more)
    <2>1. PICK f \in 1..Len(es) : \A i \in 1..Len(es) : es[i].kind = "finish" <=> i = f
      BY <1>7 DEF OneFinish
    <2>2. \A i \in 1..Len(more) : more[i].kind = "finish" <=> i = f BY <1>1, <1>2, <1>3, <1>7, <2>1
    <2> QED BY <1>3, <2>2 DEF OneFinish
  <1>8. ASSUME e.kind = "finish", NoFinish(es) PROVE OneFinish(more)
    <2>1. \A i \in 1..Len(more) : more[i].kind = "finish" <=> i = Len(es) + 1
      BY <1>1, <1>2, <1>3, <1>8 DEF NoFinish
    <2> QED BY <1>3, <2>1 DEF OneFinish
  <1>9. e.kind = "start" => HasStart(more, e.index, e.of) BY <1>1, <1>3 DEF HasStart
  <1>10. ASSUME e.kind # "start", AllStopped(es) PROVE AllStopped(more)
    <2>1. ASSUME NEW s \in 1..Len(more), more[s].kind = "start"
          PROVE  \E t \in 1..Len(more) : more[t].kind = "stop" /\ more[t].index = more[s].index
      <3>1. s \in 1..Len(es) /\ es[s].kind = "start" BY <1>1, <1>2, <1>10, <2>1
      <3>2. PICK t \in 1..Len(es) : es[t].kind = "stop" /\ es[t].index = es[s].index
        BY <1>10, <3>1 DEF AllStopped
      <3> QED BY <1>1, <1>3, <3>1, <3>2
    <2> QED BY <2>1 DEF AllStopped
  <1>11. ASSUME e.kind # "start" \/ e.of # Text, NoText(es) PROVE NoText(more)
    BY <1>1, <1>2, <1>11 DEF NoText
  <1> QED BY <1>1, <1>4, <1>5, <1>6, <1>7, <1>8, <1>9, <1>10, <1>11

\* Which event may come next: the beginning of a block with the next index, a
\* piece of a block that has begun, and anything that is about no block.
LEMMA EventReadable ==
  ASSUME NEW es \in Seq(StreamEvents), NEW e \in StreamEvents, NEW more, more = Append(es, e),
         NEW n \in Nat, NEW order, Readable(es, n, order)
  PROVE  /\ e.kind \notin {"begin", "start", "delta"} => Readable(more, n, order)
         /\ e.kind = "start" /\ e.index = n => Readable(more, n + 1, order)
         /\ e.kind = "start" /\ e.index = 0 /\ e.of = Text /\ NoText(es) /\ order # "textFirst" =>
              Readable(more, n + 1, order)
         /\ e.kind = "delta" /\ HasStart(es, e.index, e.of) => Readable(more, n, order)
         /\ e.kind = "begin" /\ es = <<>> => Readable(more, n, order) /\ HasBegun(more)
  <1>1. /\ more \in Seq(StreamEvents) /\ Len(more) = Len(es) + 1 /\ Len(es) \in Nat
        /\ more[Len(es) + 1] = e /\ \A i \in 1..Len(es) : more[i] = es[i]
    BY Appended
  <1>2. \A i \in 1..Len(more) : i \in 1..Len(es) \/ i = Len(es) + 1 BY <1>1
  <1>3. (\A i \in 1..Len(es) : i \in 1..Len(more) /\ i < Len(es) + 1) /\ Len(es) + 1 \in 1..Len(more)
    BY <1>1
  <1>4. /\ BlocksApart(es, order)
        /\ \A i \in 1..Len(es) : es[i].kind = "start" => es[i].index < n
        /\ \A i \in 1..Len(es) : es[i].kind = "begin" => i = 1
    BY DEF Readable
  <1>5. \A i \in 1..Len(es) : es[i].index \in Nat
    <2>1. \A i \in 1..Len(es) : es[i] \in StreamEvents OBVIOUS
    <2>2. \A x \in StreamEvents : x.index \in Nat BY DEF StreamEvents
    <2> QED BY <2>1, <2>2
  <1>6. ASSUME NEW d \in 1..Len(es), es[d].kind = "delta"
        PROVE  \E s \in 1..Len(more) : /\ more[s].kind = "start" /\ s < d
                                       /\ more[s].index = more[d].index /\ more[s].of = more[d].of
    <2>1. PICK s \in 1..Len(es) : /\ es[s].kind = "start" /\ s < d
                                  /\ es[s].index = es[d].index /\ es[s].of = es[d].of
      BY <1>6 DEF Readable
    <2> QED BY <1>1, <1>3, <2>1
  <1>7. ASSUME e.kind \notin {"begin", "start", "delta"} PROVE Readable(more, n, order)
    <2>1. /\ BlocksApart(more, order)
          /\ \A i \in 1..Len(more) : more[i].kind = "start" => more[i].index < n
          /\ \A i \in 1..Len(more) : more[i].kind = "begin" => i = 1
      BY <1>1, <1>2, <1>4, <1>7 DEF BlocksApart
    <2>2. \A d \in 1..Len(more) : more[d].kind = "delta" => d \in 1..Len(es) /\ es[d].kind = "delta"
      BY <1>1, <1>2, <1>7
    <2> QED BY <1>6, <2>1, <2>2 DEF Readable
  <1>8. ASSUME e.kind = "start", e.index = n PROVE Readable(more, n + 1, order)
    <2>1. \A i \in 1..Len(more) : more[i].kind = "start" =>
            more[i].index \in Nat /\ (more[i].index < n <=> i \in 1..Len(es)) /\ more[i].index < n + 1
      BY <1>1, <1>2, <1>3, <1>4, <1>5, <1>8
    <2>2. BlocksApart(more, order)
      <3> SUFFICES ASSUME NEW i \in 1..Len(more), NEW j \in 1..Len(more),
                          more[i].kind = "start", more[j].kind = "start",
                          more[i].index = more[j].index,
                          order = "textFirst" \/ (more[i].of = Text <=> more[j].of = Text)
                   PROVE  i = j
        BY DEF BlocksApart
      <3>1. i \in 1..Len(es) <=> j \in 1..Len(es) BY <2>1
      <3>2. CASE i \in 1..Len(es)
        <4>1. more[i] = es[i] /\ more[j] = es[j] /\ j \in 1..Len(es) BY <1>1, <3>1, <3>2
        <4> QED BY <1>4, <3>2, <4>1 DEF BlocksApart
      <3>3. CASE i \notin 1..Len(es) BY <1>2, <3>1, <3>3
      <3> QED BY <3>2, <3>3
    <2>3. \A d \in 1..Len(more) : more[d].kind = "delta" => d \in 1..Len(es) /\ es[d].kind = "delta"
      BY <1>1, <1>2, <1>8
    <2>4. \A i \in 1..Len(more) : more[i].kind = "begin" => i = 1 BY <1>1, <1>2, <1>4, <1>8
    <2> QED BY <1>6, <2>1, <2>2, <2>3, <2>4 DEF Readable
  <1>9. ASSUME e.kind = "delta", HasStart(es, e.index, e.of) PROVE Readable(more, n, order)
    <2>1. /\ BlocksApart(more, order)
          /\ \A i \in 1..Len(more) : more[i].kind = "start" => more[i].index < n
          /\ \A i \in 1..Len(more) : more[i].kind = "begin" => i = 1
      BY <1>1, <1>2, <1>4, <1>9 DEF BlocksApart
    <2>2. PICK s \in 1..Len(es) : es[s].kind = "start" /\ es[s].index = e.index /\ es[s].of = e.of
      BY <1>9 DEF HasStart
    <2>3. ASSUME NEW d \in 1..Len(more), more[d].kind = "delta"
          PROVE  \E t \in 1..Len(more) : /\ more[t].kind = "start" /\ t < d
                                         /\ more[t].index = more[d].index /\ more[t].of = more[d].of
      <3>1. CASE d \in 1..Len(es) BY <1>1, <1>6, <2>3, <3>1
      <3>2. CASE d = Len(es) + 1 BY <1>1, <1>3, <2>2, <3>2
      <3> QED BY <1>2, <3>1, <3>2
    <2> QED BY <2>1, <2>3 DEF Readable
  <1>10. ASSUME e.kind = "begin", es = <<>> PROVE Readable(more, n, order) /\ HasBegun(more)
    <2>1. Len(es) = 0 /\ Len(more) = 1 /\ more[1] = e BY <1>1, <1>10
    <2>2. \A i \in 1..Len(more) : i = 1 /\ more[i].kind = "begin" BY <1>10, <2>1
    <2> QED BY <1>10, <2>1, <2>2 DEF Readable, HasBegun, BlocksApart
  <1>11. ASSUME e.kind = "start", e.index = 0, e.of = Text, NoText(es), order # "textFirst"
         PROVE  Readable(more, n + 1, order)
    <2>1. BlocksApart(more, order)
      <3> SUFFICES ASSUME NEW i \in 1..Len(more), NEW j \in 1..Len(more),
                          more[i].kind = "start", more[j].kind = "start",
                          more[i].index = more[j].index, more[i].of = Text <=> more[j].of = Text
                   PROVE  i = j
        BY <1>11 DEF BlocksApart
      <3>1. \A k \in 1..Len(more) : more[k].kind = "start" => (more[k].of = Text <=> k \notin 1..Len(es))
        BY <1>1, <1>2, <1>3, <1>11 DEF NoText
      <3>2. i \in 1..Len(es) <=> j \in 1..Len(es) BY <3>1
      <3>3. CASE i \in 1..Len(es)
        <4>1. more[i] = es[i] /\ more[j] = es[j] /\ j \in 1..Len(es) BY <1>1, <3>2, <3>3
        <4> QED BY <1>4, <3>3, <4>1 DEF BlocksApart
      <3>4. CASE i \notin 1..Len(es) BY <1>2, <3>2, <3>4
      <3> QED BY <3>3, <3>4
    <2>2. \A i \in 1..Len(more) : more[i].kind = "start" => more[i].index < n + 1
      BY <1>1, <1>2, <1>4, <1>5, <1>11
    <2>3. \A d \in 1..Len(more) : more[d].kind = "delta" => d \in 1..Len(es) /\ es[d].kind = "delta"
      BY <1>1, <1>2, <1>11
    <2>4. \A i \in 1..Len(more) : more[i].kind = "begin" => i = 1 BY <1>1, <1>2, <1>4, <1>11
    <2> QED BY <1>6, <2>1, <2>2, <2>3, <2>4 DEF Readable
  <1> QED BY <1>7, <1>8, <1>9, <1>10, <1>11

\* Less is asked when the calls come first.
LEMMA ReadableLess ==
  ASSUME NEW es, NEW n, NEW order, NEW less \in {order, "callsFirst"}, Readable(es, n, order),
         order \in Orders
  PROVE  Readable(es, n, less)
  <1>1. BlocksApart(es, less) BY DEF Readable, BlocksApart, Orders
  <1> QED BY <1>1 DEF Readable

\* Some more events leave what has begun as it was.
Keeps(es, more) ==
  /\ \A index, of : HasStart(es, index, of) => HasStart(more, index, of)
  /\ HasBegun(es) => HasBegun(more)
  /\ NoFinish(es) => NoFinish(more)

\* Events joined.
LEMMA EventsJoined ==
  ASSUME NEW s \in Seq(StreamEvents), NEW t \in Seq(StreamEvents)
  PROVE  /\ s \o t \in Seq(StreamEvents) /\ Len(s \o t) = Len(s) + Len(t)
         /\ Len(s) \in Nat /\ Len(t) \in Nat
         /\ \A i \in 1..(Len(s) + Len(t)) : (s \o t)[i] = IF i <= Len(s) THEN s[i] ELSE t[i - Len(s)]
  OBVIOUS

\* Two events, one, or none, one by one.
LEMMA OneByOne ==
  ASSUME NEW es \in Seq(StreamEvents), NEW a \in StreamEvents, NEW b \in StreamEvents
  PROVE  /\ es \o <<>> = es /\ es \o <<a>> = Append(es, a)
         /\ es \o (<<a>> \o <<b>>) = Append(Append(es, a), b)
         /\ es \o <<a, b>> = Append(Append(es, a), b)
         /\ <<>> \o <<b>> = <<b>> /\ <<a>> \o <<>> = <<a>> /\ <<>> \o <<>> = <<>>
  <1>1. es \o <<>> = es /\ es \o <<a>> = Append(es, a) OBVIOUS
  <1>2. es \o (<<a>> \o <<b>>) = Append(Append(es, a), b)
    <2>1. PICK both : both = <<a>> \o <<b>> OBVIOUS
    <2>2. both \in Seq(StreamEvents) /\ Len(both) = 2 /\ both[1] = a /\ both[2] = b
      <3>1. <<a>> \in Seq(StreamEvents) /\ Len(<<a>>) = 1 /\ <<a>>[1] = a OBVIOUS
      <3>2. <<b>> \in Seq(StreamEvents) /\ Len(<<b>>) = 1 /\ <<b>>[1] = b OBVIOUS
      <3> QED BY <2>1, <3>1, <3>2, EventsJoined
    <2>3. PICK l, m, k : l = es \o both /\ m = Append(es, a) /\ k = Append(m, b) OBVIOUS
    <2>4. /\ l \in Seq(StreamEvents) /\ Len(l) = Len(es) + 2 /\ Len(es) \in Nat
          /\ \A i \in 1..(Len(es) + 2) : l[i] = IF i <= Len(es) THEN es[i] ELSE both[i - Len(es)]
      <3>1. /\ es \o both \in Seq(StreamEvents) /\ Len(es \o both) = Len(es) + Len(both)
            /\ Len(es) \in Nat
            /\ \A i \in 1..(Len(es) + Len(both)) :
                 (es \o both)[i] = IF i <= Len(es) THEN es[i] ELSE both[i - Len(es)]
        BY <2>2, EventsJoined
      <3> QED BY <2>2, <2>3, <3>1
    <2>5. /\ m \in Seq(StreamEvents) /\ Len(m) = Len(es) + 1 /\ m[Len(es) + 1] = a
          /\ \A i \in 1..Len(es) : m[i] = es[i]
      BY <2>3, Appended
    <2>6. /\ k \in Seq(StreamEvents) /\ Len(k) = Len(m) + 1 /\ k[Len(m) + 1] = b
          /\ \A i \in 1..Len(m) : k[i] = m[i]
      BY <2>3, <2>5, Appended
    <2>7. Len(k) = Len(l) BY <2>4, <2>5, <2>6
    <2>8. ASSUME NEW i \in 1..Len(l) PROVE k[i] = l[i]
      <3>1. CASE i \in 1..Len(es) BY <2>4, <2>5, <2>6, <3>1
      <3>2. CASE i = Len(es) + 1
        <4>1. i - Len(es) = 1 /\ ~(i <= Len(es)) /\ i \in 1..Len(m) BY <2>4, <2>5, <3>2
        <4> QED BY <2>2, <2>4, <2>5, <2>6, <3>2, <4>1
      <3>3. CASE i = Len(es) + 2
        <4>1. i - Len(es) = 2 /\ ~(i <= Len(es)) /\ i = Len(m) + 1 BY <2>4, <2>5, <3>3
        <4> QED BY <2>2, <2>4, <2>6, <4>1
      <3> QED BY <2>4, <3>1, <3>2, <3>3
    <2>9. k = l BY <2>4, <2>6, <2>7, <2>8
    <2> QED BY <2>1, <2>3, <2>9
  <1>3. es \o <<a, b>> = Append(Append(es, a), b) OBVIOUS
  <1>4. <<>> \o <<b>> = <<b>> /\ <<a>> \o <<>> = <<a>> /\ <<>> \o <<>> = <<>> OBVIOUS
  <1> QED BY <1>1, <1>2, <1>3, <1>4

\* An event of a kind that is neither the beginning of the stream nor its finish.
LEMMA OneEvent ==
  ASSUME NEW es \in Seq(StreamEvents), NEW kind \in Kinds \ {"begin", "finish"}, NEW index \in Nat,
         NEW of \in {"message", Text, "block"} \union ToolIndexes, NEW order,
         NEW more, more = Append(es, Ev(kind, index, of))
  PROVE  /\ more \in Seq(StreamEvents) /\ Keeps(es, more)
         /\ OneFinish(es) => OneFinish(more)
         /\ kind # "start" /\ AllStopped(es) => AllStopped(more)
         /\ kind # "start" \/ of # Text => (NoText(es) => NoText(more))
         /\ kind \notin {"start", "delta"} => \A n \in Nat : Readable(es, n, order) => Readable(more, n, order)
  <1>1. PICK e \in StreamEvents : /\ e = Ev(kind, index, of) /\ e.kind = kind
                                  /\ e.index = index /\ e.of = of
    BY EventIs
  <1>2. /\ more \in Seq(StreamEvents) /\ Keeps(es, more)
        /\ OneFinish(es) => OneFinish(more)
        /\ kind # "start" /\ AllStopped(es) => AllStopped(more)
        /\ kind # "start" \/ of # Text => (NoText(es) => NoText(more))
    <2>1. /\ more \in Seq(StreamEvents)
          /\ \A i, o : HasStart(es, i, o) => HasStart(more, i, o)
          /\ HasBegun(es) => HasBegun(more)
          /\ e.kind # "finish" => /\ NoFinish(es) => NoFinish(more)
                                  /\ OneFinish(es) => OneFinish(more)
          /\ e.kind # "start" /\ AllStopped(es) => AllStopped(more)
          /\ e.kind # "start" \/ e.of # Text => (NoText(es) => NoText(more))
      BY <1>1, EventKeeps
    <2> QED BY <1>1, <2>1 DEF Keeps
  <1>3. kind \notin {"start", "delta"} => \A n \in Nat : Readable(es, n, order) => Readable(more, n, order)
    BY <1>1, EventReadable
  <1> QED BY <1>2, <1>3

\* The next block begins.
LEMMA StartSent ==
  ASSUME NEW es \in Seq(StreamEvents), NEW index \in Nat,
         NEW of \in {"message", Text, "block"} \union ToolIndexes, NEW order,
         NEW more, more = Append(es, Ev("start", index, of))
  PROVE  /\ more \in Seq(StreamEvents) /\ Keeps(es, more) /\ HasStart(more, index, of)
         /\ of # Text => (NoText(es) => NoText(more))
         /\ index = 0 /\ of = Text /\ NoText(es) /\ order # "textFirst" =>
              \A n \in Nat : Readable(es, n, order) => Readable(more, n + 1, order)
         /\ Readable(es, index, order) => Readable(more, index + 1, order)
  <1>1. PICK e \in StreamEvents : /\ e = Ev("start", index, of) /\ e.kind = "start"
                                  /\ e.index = index /\ e.of = of
    BY EventIs DEF Kinds
  <1>2. more = Append(es, e) BY <1>1
  <1>3. /\ more \in Seq(StreamEvents)
        /\ \A i, o : HasStart(es, i, o) => HasStart(more, i, o)
        /\ HasBegun(es) => HasBegun(more)
        /\ e.kind = "start" => HasStart(more, e.index, e.of)
        /\ e.kind # "finish" => (NoFinish(es) => NoFinish(more))
        /\ e.of # Text => (NoText(es) => NoText(more))
    BY <1>2, EventKeeps
  <1>5. index = 0 /\ of = Text /\ NoText(es) /\ order # "textFirst" =>
          \A n \in Nat : Readable(es, n, order) => Readable(more, n + 1, order)
    BY <1>1, <1>2, EventReadable
  <1>4. ASSUME Readable(es, index, order) PROVE Readable(more, index + 1, order)
    <2>1. e.kind = "start" /\ e.index = index => Readable(more, index + 1, order)
      BY <1>2, <1>4, EventReadable
    <2> QED BY <1>1, <2>1
  <1> QED BY <1>1, <1>3, <1>4, <1>5 DEF Keeps

\* A piece of a block that has begun.
LEMMA DeltaSent ==
  ASSUME NEW es \in Seq(StreamEvents), NEW index \in Nat,
         NEW of \in {"message", Text, "block"} \union ToolIndexes, HasStart(es, index, of),
         NEW order, NEW more, more = Append(es, Ev("delta", index, of))
  PROVE  \A n \in Nat : Readable(es, n, order) => Readable(more, n, order)
  <1>1. PICK e \in StreamEvents : /\ e = Ev("delta", index, of) /\ e.kind = "delta"
                                  /\ e.index = index /\ e.of = of
    BY EventIs DEF Kinds
  <1> QED BY <1>1, EventReadable

\* The opening.
LEMMA OpeningSent ==
  ASSUME TranslatorTypes, NEW more, more = events \o Opening
  PROVE  /\ more \in Seq(StreamEvents)
         /\ Going => /\ HasBegun(more) /\ Readable(more, BlocksBegun, Order) /\ Keeps(events, more)
                     /\ OneFinish(events) => OneFinish(more)
                     /\ translator = "chat_to_anthropic" /\ AllStopped(events) => AllStopped(more)
                     /\ NoText(events) => NoText(more)
  <1>1. events \in Seq(StreamEvents) /\ begun \in BOOLEAN /\ BlocksBegun \in Nat
    <2>1. Cardinality(DOMAIN toolBlocks) \in Nat BY FS_CardinalityType DEF TranslatorTypes
    <2> QED BY <2>1 DEF TranslatorTypes, BlocksBegun
  <1>2. CASE begun
    <2>1. more = events BY <1>1, <1>2, OneByOne DEF Opening
    <2> QED BY <1>1, <1>2, <2>1 DEF Going, Keeps
  <1>3. CASE ~begun
    <2>1. PICK e \in StreamEvents : e = Begin /\ e.kind = "begin" BY EventIs DEF Begin, Kinds
    <2>2. more = Append(events, e) BY <1>1, <1>3, <2>1, OneByOne DEF Opening
    <2>3. more \in Seq(StreamEvents) BY <1>1, <2>2, EventKeeps
    <2>4. ASSUME Going
          PROVE  /\ HasBegun(more) /\ Readable(more, BlocksBegun, Order) /\ Keeps(events, more)
                 /\ OneFinish(events) => OneFinish(more)
                 /\ AllStopped(events) => AllStopped(more)
                 /\ NoText(events) => NoText(more)
      <3>1. events = <<>> /\ Readable(events, BlocksBegun, Order) BY <1>3, <2>4 DEF Going
      <3>2. HasBegun(more) /\ Readable(more, BlocksBegun, Order) BY <1>1, <2>1, <2>2, <3>1, EventReadable
      <3>3. /\ Keeps(events, more)
            /\ OneFinish(events) => OneFinish(more)
            /\ AllStopped(events) => AllStopped(more)
            /\ NoText(events) => NoText(more)
        BY <1>1, <2>1, <2>2, EventKeeps DEF Keeps
      <3> QED BY <3>2, <3>3
    <2> QED BY <2>3, <2>4
  <1> QED BY <1>1, <1>2, <1>3

\* A text: the block with index 0, which is the first unless calls came before.
LEMMA TextSent ==
  ASSUME TranslatorTypes, NEW es \in Seq(StreamEvents), NEW order,
         NEW said, said = (IF textBegun THEN <<>> ELSE <<Ev("start", 0, Text)>>)
                          \o <<Ev("delta", 0, Text)>>,
         NEW more, more = es \o said
  PROVE  /\ more \in Seq(StreamEvents) /\ Keeps(es, more)
         /\ \A n \in Nat :
              /\ Readable(es, n, order) /\ (textBegun => HasStart(es, 0, Text))
              /\ textBegun \/ n = 0 \/ (NoText(es) /\ order # "textFirst")
              => /\ Readable(more, IF textBegun THEN n ELSE n + 1, order)
                 /\ HasStart(more, 0, Text)
  <1>1. textBegun \in BOOLEAN BY DEF TranslatorTypes
  <1>3. CASE textBegun
    <2>1. Ev("delta", 0, Text) \in StreamEvents BY EventIs DEF Kinds
    <2>2. said = <<>> \o <<Ev("delta", 0, Text)>> BY <1>3
    <2>3. more = Append(es, Ev("delta", 0, Text))
      <3>1. PICK d \in StreamEvents : d = Ev("delta", 0, Text) BY <2>1
      <3>2. said = <<d>>
        <4>1. said = <<>> \o <<d>> BY <2>2, <3>1
        <4>2. <<>> \o <<d>> = <<d>> BY OneByOne
        <4> QED BY <4>1, <4>2
      <3>3. es \o <<d>> = Append(es, d) BY OneByOne
      <3> QED BY <3>1, <3>2, <3>3
    <2>4. /\ more \in Seq(StreamEvents) /\ Keeps(es, more)
          /\ HasStart(es, 0, Text) => \A n \in Nat : Readable(es, n, order) => Readable(more, n, order)
      <3>1. more \in Seq(StreamEvents) /\ Keeps(es, more) BY <2>3, OneEvent DEF Kinds
      <3>2. HasStart(es, 0, Text) => \A n \in Nat : Readable(es, n, order) => Readable(more, n, order)
        BY <2>3, DeltaSent
      <3> QED BY <3>1, <3>2
    <2> QED BY <1>3, <2>4 DEF Keeps
  <1>4. CASE ~textBegun
    <2>1. Ev("start", 0, Text) \in StreamEvents /\ Ev("delta", 0, Text) \in StreamEvents
      BY EventIs DEF Kinds
    <2>2. said = <<Ev("start", 0, Text)>> \o <<Ev("delta", 0, Text)>> BY <1>4
    <2>3. PICK fs : fs = Append(es, Ev("start", 0, Text)) OBVIOUS
    <2>4. /\ fs \in Seq(StreamEvents) /\ Keeps(es, fs) /\ HasStart(fs, 0, Text)
          /\ Readable(es, 0, order) => Readable(fs, 0 + 1, order)
          /\ NoText(es) /\ order # "textFirst" =>
               \A n \in Nat : Readable(es, n, order) => Readable(fs, n + 1, order)
      BY <2>3, StartSent
    <2>5. more = Append(fs, Ev("delta", 0, Text))
      <3>1. PICK s \in StreamEvents : s = Ev("start", 0, Text) BY <2>1
      <3>2. PICK d \in StreamEvents : d = Ev("delta", 0, Text) BY <2>1
      <3>3. es \o (<<s>> \o <<d>>) = Append(Append(es, s), d) BY OneByOne
      <3> QED BY <2>2, <2>3, <3>1, <3>2, <3>3
    <2>6. /\ more \in Seq(StreamEvents) /\ Keeps(fs, more)
          /\ HasStart(fs, 0, Text) => \A n \in Nat : Readable(fs, n, order) => Readable(more, n, order)
      <3>1. more \in Seq(StreamEvents) /\ Keeps(fs, more) BY <2>4, <2>5, OneEvent DEF Kinds
      <3>2. HasStart(fs, 0, Text) => \A n \in Nat : Readable(fs, n, order) => Readable(more, n, order)
        BY <2>4, <2>5, DeltaSent
      <3> QED BY <3>1, <3>2
    <2>7. Keeps(es, more) /\ HasStart(more, 0, Text) BY <2>4, <2>6 DEF Keeps
    <2>8. ASSUME NEW n \in Nat, Readable(es, n, order), n = 0 \/ (NoText(es) /\ order # "textFirst")
          PROVE  Readable(more, n + 1, order)
      <3>1. PICK m \in Nat : m = n + 1 OBVIOUS
      <3>2. Readable(fs, m, order) BY <2>4, <2>8, <3>1
      <3> QED BY <2>4, <2>6, <3>1, <3>2
    <2> QED BY <1>4, <2>6, <2>7, <2>8
  <1> QED BY <1>1, <1>3, <1>4

\* What a call's events leave readable.
CallReads(es, more, tool, n, order) ==
  Readable(es, n, order) /\ (tool \in DOMAIN toolBlocks => HasStart(es, toolBlocks[tool], tool)) =>
    /\ Readable(more, IF tool \in DOMAIN toolBlocks THEN n ELSE n + 1, order)
    /\ HasStart(more, BlockOf(tool, n), tool)

\* A call: its block begins if it is not known.
LEMMA CallSent ==
  ASSUME TranslatorTypes, NEW tool \in ToolIndexes, NEW n \in Nat,
         NEW es \in Seq(StreamEvents), NEW order, NEW more,
         \E arguments \in BOOLEAN : more = es \o CallEvents(tool, arguments, n)
  PROVE  /\ more \in Seq(StreamEvents) /\ Keeps(es, more) /\ BlockOf(tool, n) \in Nat
         /\ CallReads(es, more, tool, n, order) /\ (NoText(es) => NoText(more))
  <1>0. PICK arguments \in BOOLEAN : more = es \o CallEvents(tool, arguments, n) OBVIOUS
  <1>1. PICK b \in Nat : /\ b = BlockOf(tool, n)
                         /\ IF tool \in DOMAIN toolBlocks THEN b = toolBlocks[tool] ELSE b = n
    BY DEF BlockOf, TranslatorTypes
  <1>2. Ev("start", b, tool) \in StreamEvents /\ Ev("delta", b, tool) \in StreamEvents
    BY EventIs DEF Kinds
  <1>3. PICK fs : fs = IF tool \in DOMAIN toolBlocks THEN es ELSE Append(es, Ev("start", b, tool))
    OBVIOUS
  <1>4a. tool # Text BY TranslatorAssumption DEF Text
  <1>4. /\ fs \in Seq(StreamEvents) /\ Keeps(es, fs) /\ (NoText(es) => NoText(fs))
        /\ Readable(es, n, order) /\ (tool \in DOMAIN toolBlocks => HasStart(es, b, tool)) =>
             /\ Readable(fs, IF tool \in DOMAIN toolBlocks THEN n ELSE n + 1, order)
             /\ HasStart(fs, b, tool)
    <2>1. CASE tool \in DOMAIN toolBlocks BY <1>3, <2>1 DEF Keeps
    <2>2. CASE tool \notin DOMAIN toolBlocks
      <3>1. fs = Append(es, Ev("start", b, tool)) /\ b = n BY <1>1, <1>3, <2>2
      <3>2. PICK e \in StreamEvents : /\ e = Ev("start", b, tool) /\ e.kind = "start"
                                      /\ e.index = b /\ e.of = tool
        BY <1>2 DEF Ev
      <3>3. fs = Append(es, e) BY <3>1, <3>2
      <3>4. /\ fs \in Seq(StreamEvents) /\ Keeps(es, fs) /\ HasStart(fs, b, tool)
            /\ NoText(es) => NoText(fs)
        <4>1. /\ fs \in Seq(StreamEvents)
              /\ \A i, o : HasStart(es, i, o) => HasStart(fs, i, o)
              /\ HasBegun(es) => HasBegun(fs)
              /\ e.kind # "finish" => (NoFinish(es) => NoFinish(fs))
              /\ e.kind = "start" => HasStart(fs, e.index, e.of)
              /\ e.of # Text => (NoText(es) => NoText(fs))
          BY <3>3, EventKeeps
        <4> QED BY <1>4a, <3>2, <4>1 DEF Keeps
      <3>5. Readable(es, n, order) => Readable(fs, n + 1, order)
        BY <3>1, <3>2, <3>3, EventReadable
      <3> QED BY <2>2, <3>4, <3>5
    <2> QED BY <2>1, <2>2
  <1>5. more = IF arguments THEN Append(fs, Ev("delta", b, tool)) ELSE fs
    <2>1. CallEvents(tool, arguments, n) =
            (IF tool \in DOMAIN toolBlocks THEN <<>> ELSE <<Ev("start", b, tool)>>)
            \o (IF arguments THEN <<Ev("delta", b, tool)>> ELSE <<>>)
      BY <1>1 DEF CallEvents
    <2>2. CASE tool \in DOMAIN toolBlocks /\ arguments BY <1>0, <1>2, <1>3, <2>1, <2>2, OneByOne
    <2>3. CASE tool \in DOMAIN toolBlocks /\ ~arguments BY <1>0, <1>2, <1>3, <2>1, <2>3, OneByOne
    <2>4. CASE tool \notin DOMAIN toolBlocks /\ arguments BY <1>0, <1>2, <1>3, <2>1, <2>4, OneByOne
    <2>5. CASE tool \notin DOMAIN toolBlocks /\ ~arguments BY <1>0, <1>2, <1>3, <2>1, <2>5, OneByOne
    <2> QED BY <2>2, <2>3, <2>4, <2>5
  <1>6. CASE ~arguments
    <2>1. more = fs BY <1>5, <1>6
    <2> QED BY <1>1, <1>4, <2>1 DEF CallReads
  <1>7. CASE arguments
    <2>1. more = Append(fs, Ev("delta", b, tool)) BY <1>5, <1>7
    <2>2. /\ more \in Seq(StreamEvents) /\ Keeps(fs, more) /\ (NoText(fs) => NoText(more))
          /\ HasStart(fs, b, tool) => \A m \in Nat : Readable(fs, m, order) => Readable(more, m, order)
      <3>1. PICK e \in StreamEvents : /\ e = Ev("delta", b, tool) /\ e.kind = "delta"
                                      /\ e.index = b /\ e.of = tool
        BY <1>2 DEF Ev
      <3>2. fs \in Seq(StreamEvents) /\ more = Append(fs, e) BY <1>4, <2>1, <3>1
      <3>3. more \in Seq(StreamEvents) /\ Keeps(fs, more) /\ (NoText(fs) => NoText(more))
        BY <3>1, <3>2, EventKeeps DEF Keeps
      <3>4. HasStart(fs, b, tool) => \A m \in Nat : Readable(fs, m, order) => Readable(more, m, order)
        BY <3>1, <3>2, EventReadable
      <3> QED BY <3>3, <3>4
    <2>3. Keeps(es, more) BY <1>4, <2>2 DEF Keeps
    <2>4. (IF tool \in DOMAIN toolBlocks THEN n ELSE n + 1) \in Nat OBVIOUS
    <2>5. ASSUME Readable(es, n, order), tool \in DOMAIN toolBlocks => HasStart(es, toolBlocks[tool], tool)
          PROVE  /\ Readable(more, IF tool \in DOMAIN toolBlocks THEN n ELSE n + 1, order)
                 /\ HasStart(more, b, tool)
      <3>1. /\ Readable(fs, IF tool \in DOMAIN toolBlocks THEN n ELSE n + 1, order)
            /\ HasStart(fs, b, tool)
        BY <1>1, <1>4, <2>5
      <3> QED BY <2>2, <2>4, <3>1 DEF Keeps
    <2> QED BY <1>1, <1>4, <2>2, <2>3, <2>5 DEF CallReads
  <1> QED BY <1>6, <1>7

\* The end of a message: every block is stopped.
LEMMA ClosingSent ==
  ASSUME NEW n \in Nat, NEW es \in Seq(StreamEvents), NEW order, NEW more,
         more = es \o Closing(n)
  PROVE  /\ more \in Seq(StreamEvents)
         /\ \A index, of : HasStart(es, index, of) => HasStart(more, index, of)
         /\ HasBegun(es) => HasBegun(more)
         /\ NoFinish(es) => OneFinish(more)
         /\ NoText(es) => NoText(more)
         /\ Readable(es, n, order) => Readable(more, n, order) /\ AllStopped(more)
  <1>1. PICK stops : stops = [i \in 1..n |-> Ev("stop", i - 1, "block")] OBVIOUS
  <1>2. /\ stops \in Seq(StreamEvents) /\ Len(stops) = n
        /\ \A i \in 1..n : stops[i].kind = "stop" /\ stops[i].index = i - 1
    <2>1. ASSUME NEW i \in 1..n
          PROVE  /\ Ev("stop", i - 1, "block") \in StreamEvents
                 /\ Ev("stop", i - 1, "block").kind = "stop" /\ Ev("stop", i - 1, "block").index = i - 1
      <3>1. PICK k \in Nat : k = i - 1 OBVIOUS
      <3>2. /\ Ev("stop", k, "block") \in StreamEvents
            /\ Ev("stop", k, "block").kind = "stop" /\ Ev("stop", k, "block").index = k
        BY EventIs DEF Kinds
      <3> QED BY <3>1, <3>2
    <2> QED BY <1>1, <2>1
  <1>3. PICK e \in StreamEvents : e = FinishEvent /\ e.kind = "finish"
    BY EventIs DEF FinishEvent, Kinds
  <1>4. PICK fs : fs = es \o stops OBVIOUS
  <1>5. /\ fs \in Seq(StreamEvents) /\ Len(fs) = Len(es) + n /\ Len(es) \in Nat
        /\ \A i \in 1..Len(es) : fs[i] = es[i]
        /\ \A i \in 1..(Len(es) + n) : i > Len(es) => fs[i] = stops[i - Len(es)]
    <2>1. /\ fs \in Seq(StreamEvents) /\ Len(fs) = Len(es) + n /\ Len(es) \in Nat
          /\ \A i \in 1..(Len(es) + n) : fs[i] = IF i <= Len(es) THEN es[i] ELSE stops[i - Len(es)]
      BY <1>2, <1>4, EventsJoined
    <2> QED BY <2>1
  <1>6. \A i \in 1..Len(fs) : i \in 1..Len(es) \/ (i - Len(es) \in 1..n /\ fs[i].kind = "stop")
    <2> SUFFICES ASSUME NEW i \in 1..Len(fs), i \notin 1..Len(es)
                 PROVE  i - Len(es) \in 1..n /\ fs[i].kind = "stop"
      OBVIOUS
    <2>1. i > Len(es) /\ i <= Len(es) + n BY <1>5
    <2>2. PICK l \in Nat, j \in 1..n : l = Len(es) /\ j = i - l
      <3>1. \A l, m \in Nat : l > 0 /\ m < l /\ l <= m + n => l - m \in 1..n OBVIOUS
      <3>2. i \in Nat /\ i > 0 BY <1>5
      <3>3. i - Len(es) \in 1..n BY <1>5, <2>1, <3>1, <3>2
      <3> QED BY <1>5, <3>3
    <2>3. fs[i] = stops[j] BY <1>5, <2>1, <2>2
    <2> QED BY <1>2, <2>2, <2>3
  <1>7. \A i \in 1..Len(es) : i \in 1..Len(fs) BY <1>5
  <1>8. \A index, of : HasStart(es, index, of) => HasStart(fs, index, of) BY <1>5, <1>7 DEF HasStart
  <1>9. HasBegun(es) => HasBegun(fs) BY <1>5 DEF HasBegun
  <1>10. NoFinish(es) => NoFinish(fs) BY <1>5, <1>6 DEF NoFinish
  <1>15. NoText(es) => NoText(fs) BY <1>5, <1>6 DEF NoText
  <1>11. ASSUME Readable(es, n, order) PROVE Readable(fs, n, order) /\ AllStopped(fs)
    <2>1. \A i \in 1..Len(fs) : fs[i].kind \in {"start", "delta", "begin"} => i \in 1..Len(es)
      BY <1>6
    <2>2. /\ BlocksApart(fs, order)
          /\ \A i \in 1..Len(fs) : fs[i].kind = "start" => fs[i].index < n
          /\ \A i \in 1..Len(fs) : fs[i].kind = "begin" => i = 1
      <3>1. /\ BlocksApart(es, order)
            /\ \A i \in 1..Len(es) : es[i].kind = "start" => es[i].index < n
            /\ \A i \in 1..Len(es) : es[i].kind = "begin" => i = 1
        BY <1>11 DEF Readable
      <3>2. \A i \in 1..Len(es) : fs[i] = es[i] BY <1>5
      <3>3. BlocksApart(fs, order)
        <4> SUFFICES ASSUME NEW i \in 1..Len(fs), NEW j \in 1..Len(fs),
                            fs[i].kind = "start", fs[j].kind = "start", fs[i].index = fs[j].index,
                            order = "textFirst" \/ (fs[i].of = Text <=> fs[j].of = Text)
                     PROVE  i = j
          BY DEF BlocksApart
        <4>1. i \in 1..Len(es) /\ j \in 1..Len(es) BY <2>1
        <4>2. fs[i] = es[i] /\ fs[j] = es[j] BY <3>2, <4>1
        <4> QED BY <3>1, <4>1, <4>2 DEF BlocksApart
      <3> QED BY <2>1, <3>1, <3>2, <3>3
    <2>3. ASSUME NEW d \in 1..Len(fs), fs[d].kind = "delta"
          PROVE  \E s \in 1..Len(fs) : /\ fs[s].kind = "start" /\ s < d
                                       /\ fs[s].index = fs[d].index /\ fs[s].of = fs[d].of
      <3>1. d \in 1..Len(es) /\ es[d].kind = "delta" BY <1>5, <2>1, <2>3
      <3>2. PICK s \in 1..Len(es) : /\ es[s].kind = "start" /\ s < d
                                    /\ es[s].index = es[d].index /\ es[s].of = es[d].of
        BY <1>11, <3>1 DEF Readable
      <3> QED BY <1>5, <1>7, <3>1, <3>2
    <2>4. ASSUME NEW s \in 1..Len(fs), fs[s].kind = "start"
          PROVE  \E t \in 1..Len(fs) : fs[t].kind = "stop" /\ fs[t].index = fs[s].index
      <3>1. PICK k \in Nat : k = fs[s].index /\ k < n
        <4>1. fs[s] \in StreamEvents BY <1>5
        <4>2. fs[s].index \in Nat BY <4>1 DEF StreamEvents
        <4> QED BY <2>2, <2>4, <4>2
      <3>2. PICK t \in 1..Len(fs) : t = Len(es) + (k + 1) BY <1>5, <3>1
      <3>3. /\ t > Len(es) /\ t - Len(es) = k + 1
            /\ k + 1 \in 1..n /\ k + 1 - 1 = k
        <4>1. PICK l \in Nat : l = Len(es) /\ t = l + (k + 1) BY <1>5, <3>2
        <4>2. t > l /\ t - l = k + 1 BY <4>1
        <4>3. k + 1 \in 1..n /\ k + 1 - 1 = k BY <3>1
        <4> QED BY <4>1, <4>2, <4>3
      <3>4. fs[t] = stops[k + 1] BY <1>5, <3>2, <3>3
      <3>5. stops[k + 1].kind = "stop" /\ stops[k + 1].index = k BY <1>2, <3>3
      <3> QED BY <3>1, <3>4, <3>5
    <2> QED BY <2>2, <2>3, <2>4 DEF Readable, AllStopped
  <1>12. more = Append(fs, e)
    <2>1. Closing(n) = stops \o <<e>> BY <1>1, <1>3 DEF Closing
    <2>2. es \o (stops \o <<e>>) = Append(es \o stops, e) BY <1>2
    <2> QED BY <1>4, <2>1, <2>2
  <1>13. /\ more \in Seq(StreamEvents)
         /\ \A index, of : HasStart(fs, index, of) => HasStart(more, index, of)
         /\ HasBegun(fs) => HasBegun(more)
         /\ NoFinish(fs) => OneFinish(more)
         /\ AllStopped(fs) => AllStopped(more)
         /\ NoText(fs) => NoText(more)
    BY <1>3, <1>5, <1>12, EventKeeps
  <1>14. Readable(fs, n, order) => Readable(more, n, order) BY <1>3, <1>5, <1>12, EventReadable
  <1> QED BY <1>8, <1>9, <1>10, <1>11, <1>13, <1>14, <1>15

\* What the client needs follows from the invariant.
LEMMA TranslatorGives ==
  ASSUME TranslatorInv
  PROVE  StreamCoherent
  <1> SUFFICES ASSUME lawful.kept
               PROVE  /\ \A i, j \in Places("start") :
                           /\ events[i].index = events[j].index
                           /\ lawful.callsFirst => OfOneSort(i, j)
                           => i = j
                      /\ \A d \in Places("delta") : \E s \in Places("start") :
                           s < d /\ events[s].index = events[d].index /\ events[s].of = events[d].of
                      /\ \A i \in Places("begin") : i = 1
                      /\ phase = "closed" =>
                           /\ Cardinality(Places("begin")) = 1 /\ Cardinality(Places("finish")) = 1
                           /\ translator = "chat_to_anthropic" =>
                                \A s \in Places("start") :
                                  \E t \in Places("stop") : events[t].index = events[s].index
    BY DEF StreamCoherent
  <1>1. events \in Seq(StreamEvents) /\ DOMAIN events = 1..Len(events) BY DEF TranslatorInv, TranslatorTypes
  <1>2. PICK n : Readable(events, n, Order) BY DEF TranslatorInv, Going, Over
  <1>3. \A kind : Places(kind) = {i \in 1..Len(events) : events[i].kind = kind} BY <1>1 DEF Places
  <1>4. \A i, j \in Places("start") :
          /\ events[i].index = events[j].index
          /\ lawful.callsFirst => OfOneSort(i, j)
          => i = j
    BY <1>2, <1>3 DEF Readable, BlocksApart, OfOneSort, Order
  <1>5. ASSUME NEW d \in Places("delta")
        PROVE  \E s \in Places("start") :
                 s < d /\ events[s].index = events[d].index /\ events[s].of = events[d].of
    <2>1. d \in 1..Len(events) /\ events[d].kind = "delta" BY <1>3
    <2>2. PICK s \in 1..Len(events) : /\ events[s].kind = "start" /\ s < d
                                      /\ events[s].index = events[d].index /\ events[s].of = events[d].of
      BY <1>2, <2>1 DEF Readable
    <2>3. s \in Places("start") BY <1>3, <2>2
    <2> QED BY <2>2, <2>3
  <1>6. \A i \in Places("begin") : i = 1 BY <1>2, <1>3 DEF Readable
  <1>7. ASSUME phase = "closed"
        PROVE  /\ Cardinality(Places("begin")) = 1 /\ Cardinality(Places("finish")) = 1
               /\ translator = "chat_to_anthropic" =>
                    \A s \in Places("start") :
                      \E t \in Places("stop") : events[t].index = events[s].index
    <2>1. /\ HasBegun(events) /\ OneFinish(events)
          /\ translator = "chat_to_anthropic" => AllStopped(events)
      BY <1>7 DEF TranslatorInv, Over
    <2>2. Places("begin") = {1}
      <3>1. 1 \in 1..Len(events) /\ events[1].kind = "begin" BY <1>1, <2>1 DEF HasBegun
      <3>2. 1 \in Places("begin") BY <1>3, <3>1
      <3> QED BY <1>6, <3>2
    <2>3. PICK f \in 1..Len(events) : \A i \in 1..Len(events) : events[i].kind = "finish" <=> i = f
      BY <2>1 DEF OneFinish
    <2>4. Places("finish") = {f} BY <1>3, <2>3
    <2>5. \A x : Cardinality({x}) = 1 BY FS_Singleton
    <2>6. ASSUME translator = "chat_to_anthropic", NEW s \in Places("start")
          PROVE  \E t \in Places("stop") : events[t].index = events[s].index
      <3>1. s \in 1..Len(events) /\ events[s].kind = "start" BY <1>3
      <3>2. PICK t \in 1..Len(events) : events[t].kind = "stop" /\ events[t].index = events[s].index
        BY <2>1, <2>6, <3>1 DEF AllStopped
      <3>3. t \in Places("stop") BY <1>3, <3>2
      <3> QED BY <3>2, <3>3
    <2> QED BY <2>2, <2>4, <2>5, <2>6
  <1> QED BY <1>4, <1>5, <1>6, <1>7

\* To begin with nothing was sent.
LEMMA TranslatorStart ==
  ASSUME TranslatorInit
  PROVE  TranslatorInv
  <1>1. DOMAIN toolBlocks = {} /\ events = <<>> /\ Len(events) = 0 BY DEF TranslatorInit
  <1>2. IsFiniteSet({}) /\ Cardinality({}) = 0 BY FS_EmptySet
  <1>3. lawful \in [kept : BOOLEAN, callsFirst : BOOLEAN, called : BOOLEAN, finishing : BOOLEAN] /\ ~lawful.finishing
    BY DEF TranslatorInit, Lawful
  <1>4. TranslatorTypes
    <2>1. events \in Seq(StreamEvents) BY <1>1
    <2>2. DOMAIN toolBlocks \subseteq ToolIndexes /\ IsFiniteSet(DOMAIN toolBlocks)
          /\ \A t \in DOMAIN toolBlocks : toolBlocks[t] \in Nat
      BY <1>1, <1>2
    <2>3. /\ translator \in {"anthropic_to_chat", "chat_to_anthropic", "chat_to_responses"}
          /\ phase = "open" /\ begun = FALSE /\ textBegun = FALSE /\ nextBlock = 0
      BY DEF TranslatorInit
    <2> QED BY <1>3, <2>1, <2>2, <2>3 DEF TranslatorTypes
  <1>5. Readable(events, BlocksBegun, Order) BY <1>1 DEF Readable, BlocksApart
  <1>6. NoFinish(events) /\ NoText(events) BY <1>1 DEF NoFinish, NoText
  <1>7. Going
    <2>1. ~begun /\ ~textBegun /\ nextBlock = 0 BY DEF TranslatorInit
    <2> QED BY <1>1, <1>3, <1>5, <1>6, <2>1 DEF Going
  <1> QED BY <1>4, <1>7 DEF TranslatorInv, TranslatorInit

\* A step of the history of what the provider has kept to.
LEMMA KeptIs ==
  ASSUME lawful \in [kept : BOOLEAN, callsFirst : BOOLEAN, called : BOOLEAN, finishing : BOOLEAN],
         NEW k \in BOOLEAN, lawful' = [lawful EXCEPT !.kept = k]
  PROVE  /\ lawful' \in [kept : BOOLEAN, callsFirst : BOOLEAN, called : BOOLEAN, finishing : BOOLEAN]
         /\ lawful'.kept = k /\ lawful'.finishing = lawful.finishing
         /\ lawful'.called = lawful.called /\ Order' = Order
  BY DEF Order

\* A chunk of the Anthropic protocol becomes one of the chat protocol.
LEMMA AnthropicKeeps ==
  ASSUME TranslatorInv, AnthropicToChat
  PROVE  TranslatorInv'
  <1>1. /\ translator = "anthropic_to_chat" /\ phase = "open" /\ phase' = phase
        /\ translator' = translator /\ textBegun' = textBegun /\ nextBlock' = nextBlock
    BY DEF AnthropicToChat, Receive
  <1>2. TranslatorTypes /\ (lawful.kept => Going) BY <1>1 DEF TranslatorInv
  <1>3. /\ events \in Seq(StreamEvents) /\ begun \in BOOLEAN
        /\ lawful \in [kept : BOOLEAN, callsFirst : BOOLEAN, called : BOOLEAN, finishing : BOOLEAN]
        /\ lawful.kept \in BOOLEAN
    BY <1>2 DEF TranslatorTypes
  <1>4. PICK n \in Nat : n = Cardinality(DOMAIN toolBlocks)
    BY <1>2, FS_CardinalityType DEF TranslatorTypes
  <1>5. BlocksBegun = n BY <1>1, <1>4 DEF BlocksBegun
  <1>6. CASE MessageStart
    <2>1. PICK k \in BOOLEAN : k <=> lawful.kept /\ ~begun OBVIOUS
    <2>2. lawful' = [lawful EXCEPT !.kept = k] BY <1>3, <1>6, <2>1 DEF MessageStart
    <2>3. events' = Append(events, Begin) /\ begun' = TRUE /\ toolBlocks' = toolBlocks
      BY <1>6 DEF MessageStart
    <2>4. PICK e \in StreamEvents : e = Begin /\ e.kind = "begin" BY EventIs DEF Begin, Kinds
    <2>5. /\ events' \in Seq(StreamEvents)
          /\ \A index, of : HasStart(events, index, of) => HasStart(events', index, of)
          /\ NoFinish(events) => NoFinish(events')
          /\ OneFinish(events) => OneFinish(events')
      BY <1>3, <2>3, <2>4, EventKeeps
    <2>6. TranslatorTypes' BY <1>1, <1>2, <1>3, <2>2, <2>3, <2>5, KeptIs DEF TranslatorTypes
    <2>7. lawful'.kept = k /\ lawful'.finishing = lawful.finishing /\ Order' = Order BY <1>3, <2>2, KeptIs
    <2>8. ASSUME k PROVE Going'
      <3>1. Going /\ events = <<>> BY <1>2, <2>1, <2>8 DEF Going
      <3>2. Readable(events', n, Order) /\ HasBegun(events')
        BY <1>3, <1>5, <2>3, <2>4, <3>1, EventReadable DEF Going
      <3>3. BlocksBegun' = n BY <1>1, <1>4, <2>3 DEF BlocksBegun
      <3> QED BY <1>1, <2>3, <2>5, <2>7, <3>1, <3>2, <3>3 DEF Going
    <2> QED BY <1>1, <2>6, <2>7, <2>8 DEF TranslatorInv
  <1>7. CASE TextDelta \/ ErrorPassed
    <2>1. PICK k \in BOOLEAN : k <=> lawful.kept /\ begun OBVIOUS
    <2>2. lawful' = [lawful EXCEPT !.kept = k] BY <1>3, <1>7, <2>1 DEF TextDelta, ErrorPassed
    <2>3. begun' = begun /\ toolBlocks' = toolBlocks BY <1>7 DEF TextDelta, ErrorPassed
    <2>4. PICK e \in StreamEvents : events' = Append(events, e) /\ e.kind \in {"content", "error"}
      <3>1. CASE TextDelta
        <4>1. events' = Append(events, Ev("content", 0, Text)) BY <3>1 DEF TextDelta
        <4>2. /\ Ev("content", 0, Text) \in StreamEvents
              /\ Ev("content", 0, Text).kind = "content"
          BY TextIs DEF Kinds
        <4> QED BY <4>1, <4>2
      <3>2. CASE ErrorPassed
        <4>1. events' = Append(events, Ev("error", 0, "message")) BY <3>2 DEF ErrorPassed, Failure
        <4>2. /\ Ev("error", 0, "message") \in StreamEvents
              /\ Ev("error", 0, "message").kind = "error"
          BY EventIs DEF Kinds
        <4> QED BY <4>1, <4>2
      <3> QED BY <1>7, <3>1, <3>2
    <2>5. /\ events' \in Seq(StreamEvents) /\ Keeps(events, events')
          /\ OneFinish(events) => OneFinish(events')
          /\ \A m \in Nat : Readable(events, m, Order) => Readable(events', m, Order)
      <3>1. \A m \in Nat : Readable(events, m, Order) => Readable(events', m, Order)
        BY <1>3, <2>4, EventReadable
      <3>2. /\ events' \in Seq(StreamEvents)
            /\ \A index, of : HasStart(events, index, of) => HasStart(events', index, of)
            /\ HasBegun(events) => HasBegun(events')
            /\ NoFinish(events) => NoFinish(events')
            /\ OneFinish(events) => OneFinish(events')
        BY <1>3, <2>4, EventKeeps
      <3> QED BY <3>1, <3>2 DEF Keeps
    <2>6. TranslatorTypes' BY <1>1, <1>2, <1>3, <2>2, <2>3, <2>5, KeptIs DEF TranslatorTypes
    <2>7. lawful'.kept = k /\ lawful'.finishing = lawful.finishing /\ Order' = Order BY <1>3, <2>2, KeptIs
    <2>8. ASSUME k PROVE Going'
      <3>1. Going /\ begun BY <1>2, <2>1, <2>8
      <3>2. BlocksBegun' = n BY <1>1, <1>4, <2>3 DEF BlocksBegun
      <3>3. Readable(events', n, Order) BY <1>5, <2>5, <3>1 DEF Going
      <3> QED BY <1>1, <2>3, <2>5, <2>7, <3>1, <3>2, <3>3 DEF Going, Keeps
    <2> QED BY <1>1, <2>6, <2>7, <2>8 DEF TranslatorInv
  <1>8. CASE MessageDelta
    <2>1. PICK k \in BOOLEAN : k <=> lawful.kept /\ begun /\ ~lawful.finishing OBVIOUS
    <2>2. lawful' = [lawful EXCEPT !.kept = k, !.finishing = TRUE]
      BY <1>3, <1>8, <2>1 DEF MessageDelta
    <2>3. events' = Append(events, FinishEvent) /\ begun' = begun /\ toolBlocks' = toolBlocks
      BY <1>8 DEF MessageDelta
    <2>4. PICK e \in StreamEvents : e = FinishEvent /\ e.kind = "finish"
      BY EventIs DEF FinishEvent, Kinds
    <2>5. /\ events' \in Seq(StreamEvents)
          /\ \A index, of : HasStart(events, index, of) => HasStart(events', index, of)
          /\ HasBegun(events) => HasBegun(events')
          /\ NoFinish(events) => OneFinish(events')
      BY <1>3, <2>3, <2>4, EventKeeps
    <2>6. Readable(events, n, Order) => Readable(events', n, Order) BY <1>3, <2>3, <2>4, EventReadable
    <2>7. lawful'.kept = k /\ lawful'.finishing = TRUE /\ Order' = Order
          /\ lawful' \in [kept : BOOLEAN, callsFirst : BOOLEAN, called : BOOLEAN, finishing : BOOLEAN]
      BY <1>3, <2>2 DEF Order
    <2>8. TranslatorTypes' BY <1>1, <1>2, <2>3, <2>5, <2>7 DEF TranslatorTypes
    <2>9. ASSUME k PROVE Going'
      <3>1. Going /\ begun /\ ~lawful.finishing BY <1>2, <2>1, <2>9
      <3>2. BlocksBegun' = n BY <1>1, <1>4, <2>3 DEF BlocksBegun
      <3>3. Readable(events', n, Order) BY <1>5, <2>6, <3>1 DEF Going
      <3> QED BY <1>1, <2>3, <2>5, <2>7, <3>1, <3>2, <3>3 DEF Going
    <2> QED BY <1>1, <2>7, <2>8, <2>9 DEF TranslatorInv
  <1>9. ASSUME NEW block \in ToolIndexes, ToolStart(block) PROVE TranslatorInv'
    <2>1. PICK k \in BOOLEAN : k <=> lawful.kept /\ begun /\ block \notin DOMAIN toolBlocks OBVIOUS
    <2>2. lawful' = [lawful EXCEPT !.kept = k] BY <1>3, <1>9, <2>1 DEF ToolStart
    <2>3. /\ events' = Append(events, Ev("start", n, block)) /\ begun' = begun
          /\ toolBlocks' = [t \in DOMAIN toolBlocks \union {block} |-> IF t = block THEN n ELSE toolBlocks[t]]
      BY <1>4, <1>9 DEF ToolStart, Extended
    <2>4. /\ events' \in Seq(StreamEvents) /\ Keeps(events, events') /\ HasStart(events', n, block)
          /\ Readable(events, n, Order) => Readable(events', n + 1, Order)
      BY <1>3, <2>3, StartSent
    <2>5. /\ DOMAIN toolBlocks' = DOMAIN toolBlocks \union {block}
          /\ \A t \in DOMAIN toolBlocks' : toolBlocks'[t] = IF t = block THEN n ELSE toolBlocks[t]
      BY <2>3
    <2>6. /\ IsFiniteSet(DOMAIN toolBlocks')
          /\ block \notin DOMAIN toolBlocks => Cardinality(DOMAIN toolBlocks') = n + 1
      BY <1>2, <1>4, <2>5, FS_AddElement DEF TranslatorTypes
    <2>7. lawful'.kept = k /\ lawful'.finishing = lawful.finishing /\ Order' = Order
          /\ lawful' \in [kept : BOOLEAN, callsFirst : BOOLEAN, called : BOOLEAN, finishing : BOOLEAN]
      BY <1>3, <2>2, KeptIs
    <2>8. TranslatorTypes' BY <1>1, <1>2, <2>3, <2>4, <2>5, <2>6, <2>7 DEF TranslatorTypes
    <2>9. ASSUME k PROVE Going'
      <3>1. Going /\ begun /\ block \notin DOMAIN toolBlocks BY <1>2, <2>1, <2>9
      <3>2. BlocksBegun' = n + 1 BY <1>1, <2>6, <3>1 DEF BlocksBegun
      <3>3. Readable(events', n + 1, Order) BY <1>5, <2>4, <3>1 DEF Going
      <3>4. OneFinish(events) => OneFinish(events')
        <4>1. "start" \in Kinds /\ n \in Nat /\ block \in {"message", Text, "block"} \union ToolIndexes
          BY <1>4 DEF Kinds
        <4>2. Ev("start", n, block) \in StreamEvents /\ Ev("start", n, block).kind = "start"
          BY <4>1, EventIs
        <4>3. PICK e \in StreamEvents : e.kind = "start" /\ events' = Append(events, e)
          BY <2>3, <4>2
        <4> QED BY <1>3, <4>3, EventKeeps
      <3>5. \A t \in DOMAIN toolBlocks' : HasStart(events', toolBlocks'[t], t)
        BY <2>4, <2>5, <3>1 DEF Going, Keeps
      <3> QED BY <1>1, <2>3, <2>4, <2>7, <3>1, <3>2, <3>3, <3>4, <3>5 DEF Going, Keeps
    <2> QED BY <1>1, <2>7, <2>8, <2>9 DEF TranslatorInv
  <1>10. ASSUME NEW block \in ToolIndexes, ToolDelta(block) PROVE TranslatorInv'
    <2>1. PICK k \in BOOLEAN : k <=> lawful.kept /\ block \in DOMAIN toolBlocks OBVIOUS
    <2>2. lawful' = [lawful EXCEPT !.kept = k] BY <1>3, <1>10, <2>1 DEF ToolDelta
    <2>3. PICK index \in Nat : index = IF block \in DOMAIN toolBlocks THEN toolBlocks[block] ELSE block
      BY <1>2, TranslatorAssumption DEF TranslatorTypes
    <2>4. events' = Append(events, Ev("delta", index, block)) /\ begun' = begun /\ toolBlocks' = toolBlocks
      BY <1>10, <2>3 DEF ToolDelta
    <2>5. PICK e \in StreamEvents : /\ events' = Append(events, e) /\ e.kind = "delta"
                                    /\ e.index = index /\ e.of = block
      <3>1. /\ Ev("delta", index, block) \in StreamEvents /\ Ev("delta", index, block).kind = "delta"
            /\ Ev("delta", index, block).index = index /\ Ev("delta", index, block).of = block
        <4>1. "delta" \in Kinds /\ index \in Nat
              /\ block \in {"message", Text, "block"} \union ToolIndexes
          BY <2>3 DEF Kinds
        <4> QED BY <4>1, EventIs
      <3> QED BY <2>4, <3>1
    <2>6. /\ events' \in Seq(StreamEvents)
          /\ \A i, o : HasStart(events, i, o) => HasStart(events', i, o)
          /\ HasBegun(events) => HasBegun(events')
          /\ NoFinish(events) => NoFinish(events')
          /\ OneFinish(events) => OneFinish(events')
      BY <1>3, <2>5, EventKeeps
    <2>7. lawful'.kept = k /\ lawful'.finishing = lawful.finishing /\ Order' = Order
          /\ lawful' \in [kept : BOOLEAN, callsFirst : BOOLEAN, called : BOOLEAN, finishing : BOOLEAN]
      BY <1>3, <2>2, KeptIs
    <2>8. TranslatorTypes' BY <1>1, <1>2, <2>4, <2>6, <2>7 DEF TranslatorTypes
    <2>9. ASSUME k PROVE Going'
      <3>1. Going /\ block \in DOMAIN toolBlocks BY <1>2, <2>1, <2>9
      <3>2. HasStart(events, index, block) BY <2>3, <3>1 DEF Going
      <3>3. begun
        <4>1. events # <<>> BY <3>2 DEF HasStart
        <4> QED BY <3>1, <4>1 DEF Going
      <3>4. BlocksBegun' = n BY <1>1, <1>4, <2>4 DEF BlocksBegun
      <3>5. Readable(events, n, Order) BY <1>5, <3>1 DEF Going
      <3>6. Readable(events', n, Order) BY <1>3, <1>4, <2>5, <3>2, <3>5, EventReadable
      <3> QED BY <1>1, <2>4, <2>6, <2>7, <3>1, <3>3, <3>4, <3>6 DEF Going
    <2> QED BY <1>1, <2>7, <2>8, <2>9 DEF TranslatorInv
  <1> QED BY <1>6, <1>7, <1>8, <1>9, <1>10 DEF AnthropicToChat

\* A chunk of the chat protocol becomes events of the Anthropic protocol.
LEMMA ChatKeeps ==
  ASSUME TranslatorInv, NEW text \in BOOLEAN, NEW arguments \in BOOLEAN, NEW finish \in BOOLEAN,
         NEW calls \in {{}} \union {{t} : t \in ToolIndexes},
         ChatToAnthropic(text, calls, arguments, finish)
  PROVE  TranslatorInv'
  <1>1. PICK before : before = BlocksAfterText(text) OBVIOUS
  <1>2. PICK n : n = before + Cardinality(calls \ DOMAIN toolBlocks) OBVIOUS
  <1>3. /\ translator = "chat_to_anthropic" /\ phase = "open" /\ phase' = phase
        /\ translator' = translator /\ begun' = TRUE /\ textBegun' = (textBegun \/ text)
        /\ nextBlock' = n
        /\ toolBlocks' = [t \in DOMAIN toolBlocks \union calls |-> BlockOf(t, before)]
    BY <1>1, <1>2 DEF ChatToAnthropic, Receive
  <1>4. PICK sent : sent = IF calls = {} THEN <<>>
                           ELSE CallEvents(CHOOSE t \in calls : TRUE, arguments, before)
    OBVIOUS
  <1>5. events' = events \o Opening \o TextEvents(text) \o sent
                  \o (IF finish THEN Closing(n) ELSE <<>>)
    BY <1>1, <1>2, <1>4 DEF ChatToAnthropic
  <1>0. PICK o : o = IF lawful.callsFirst \/ (text /\ ~textBegun /\ lawful.called)
                    THEN "callsFirst" ELSE "textFirst"
    OBVIOUS
  <1>6. PICK k \in BOOLEAN, c \in BOOLEAN :
          /\ k <=> lawful.kept /\ ~lawful.finishing
          /\ c <=> lawful.called \/ calls # {}
    OBVIOUS
  <1>7. TranslatorTypes /\ (lawful.kept => Going) BY <1>3 DEF TranslatorInv
  <1>8. /\ events \in Seq(StreamEvents) /\ nextBlock \in Nat
        /\ textBegun \in BOOLEAN /\ begun \in BOOLEAN
        /\ lawful \in [kept : BOOLEAN, callsFirst : BOOLEAN, called : BOOLEAN, finishing : BOOLEAN]
    BY <1>7 DEF TranslatorTypes
  <1>9. lawful' = [kept |-> k, callsFirst |-> o = "callsFirst", called |-> c, finishing |-> finish]
    BY <1>0, <1>6, <1>8 DEF ChatToAnthropic
  <1>10. before \in Nat /\ before = IF text /\ ~textBegun THEN nextBlock + 1 ELSE nextBlock
    BY <1>1, <1>8 DEF BlocksAfterText
  <1>11. PICK e1 : e1 = events \o Opening OBVIOUS
  <1>12. PICK e2 : e2 = e1 \o TextEvents(text) OBVIOUS
  <1>13. PICK e3 : e3 = e2 \o sent OBVIOUS
  <1>14. events' = e3 \o (IF finish THEN Closing(n) ELSE <<>>) BY <1>5, <1>11, <1>12, <1>13
  <1>15. BlocksBegun = nextBlock BY <1>3 DEF BlocksBegun
  <1>15a. Order \in Orders /\ o \in {Order, "callsFirst"} /\ o \in Orders
    BY <1>0 DEF Order, Orders
  <1>16. /\ e1 \in Seq(StreamEvents)
         /\ Going => /\ HasBegun(e1) /\ Readable(e1, nextBlock, o) /\ Keeps(events, e1)
                     /\ NoText(events) => NoText(e1)
    <2>1. /\ e1 \in Seq(StreamEvents)
          /\ Going => /\ HasBegun(e1) /\ Readable(e1, nextBlock, Order) /\ Keeps(events, e1)
                      /\ NoText(events) => NoText(e1)
      BY <1>7, <1>11, <1>15, OpeningSent
    <2>2. Readable(e1, nextBlock, Order) => Readable(e1, nextBlock, o) BY <1>15a, ReadableLess
    <2> QED BY <2>1, <2>2
  <1>17. /\ e2 \in Seq(StreamEvents) /\ Keeps(e1, e2)
         /\ ~text => e2 = e1
         /\ /\ Readable(e1, nextBlock, o) /\ (textBegun => HasStart(e1, 0, Text))
            /\ text /\ ~textBegun => nextBlock = 0 \/ (NoText(e1) /\ o # "textFirst")
            => /\ Readable(e2, before, o)
               /\ textBegun \/ text => HasStart(e2, 0, Text)
    <2>1. CASE text
      <3>0. PICK said : said = (IF textBegun THEN <<>> ELSE <<Ev("start", 0, Text)>>)
                               \o <<Ev("delta", 0, Text)>>
        OBVIOUS
      <3>1. TranslatorTypes /\ e1 \in Seq(StreamEvents) /\ e2 = e1 \o said
        BY <1>7, <1>12, <1>16, <2>1, <3>0 DEF TextEvents
      <3>2. /\ e2 \in Seq(StreamEvents) /\ Keeps(e1, e2)
            /\ \A m \in Nat :
                 /\ Readable(e1, m, o) /\ (textBegun => HasStart(e1, 0, Text))
                 /\ textBegun \/ m = 0 \/ (NoText(e1) /\ o # "textFirst")
                 => /\ Readable(e2, IF textBegun THEN m ELSE m + 1, o)
                    /\ HasStart(e2, 0, Text)
        BY <3>0, <3>1, TextSent
      <3> QED BY <1>8, <1>10, <2>1, <3>2
    <2>2. CASE ~text
      <3>1. e2 = e1 BY <1>12, <1>16, <2>2, OneByOne DEF TextEvents
      <3> QED BY <1>10, <1>16, <2>2, <3>1 DEF Keeps
    <2> QED BY <2>1, <2>2
  <1>18. ASSUME k
         PROVE  /\ Going /\ ~lawful.finishing /\ NoFinish(events)
                /\ HasBegun(e2) /\ Readable(e2, before, o) /\ Keeps(events, e2)
                /\ IF textBegun \/ text THEN HasStart(e2, 0, Text) ELSE NoText(e2)
    <2>1. Going /\ ~lawful.finishing BY <1>6, <1>7, <1>18
    <2>2. NoFinish(events) BY <2>1 DEF Going
    <2>3. textBegun => HasStart(e1, 0, Text) BY <1>3, <1>16, <2>1 DEF Going, Keeps
    <2>3a. ~textBegun => NoText(e1) BY <1>3, <1>16, <2>1 DEF Going
    <2>4. text /\ ~textBegun => nextBlock = 0 \/ (NoText(e1) /\ o # "textFirst")
      BY <1>0, <1>3, <2>1, <2>3a DEF Going
    <2>5. /\ Readable(e2, before, o)
          /\ textBegun \/ text => HasStart(e2, 0, Text)
      BY <1>16, <1>17, <2>1, <2>3, <2>4
    <2>6. HasBegun(e2) /\ Keeps(events, e2) BY <1>16, <1>17, <2>1 DEF Keeps
    <2>7. ~(textBegun \/ text) => NoText(e2) BY <1>17, <2>3a
    <2> QED BY <2>1, <2>2, <2>5, <2>6, <2>7
  <1>19. /\ e3 \in Seq(StreamEvents) /\ Keeps(e2, e3) /\ n \in Nat
         /\ DOMAIN toolBlocks' = DOMAIN toolBlocks \union calls
         /\ DOMAIN toolBlocks' \subseteq ToolIndexes /\ IsFiniteSet(DOMAIN toolBlocks')
         /\ \A t \in DOMAIN toolBlocks' : toolBlocks'[t] \in Nat
         /\ NoText(e2) => NoText(e3)
         /\ k => Readable(e3, n, o) /\ \A t \in DOMAIN toolBlocks' : HasStart(e3, toolBlocks'[t], t)
    <2>1. /\ DOMAIN toolBlocks' = DOMAIN toolBlocks \union calls
          /\ \A t \in DOMAIN toolBlocks' :
               toolBlocks'[t] = IF t \in DOMAIN toolBlocks THEN toolBlocks[t] ELSE before
      BY <1>3 DEF BlockOf
    <2>2. /\ DOMAIN toolBlocks \subseteq ToolIndexes /\ IsFiniteSet(DOMAIN toolBlocks)
          /\ \A t \in DOMAIN toolBlocks : toolBlocks[t] \in Nat
      BY <1>7 DEF TranslatorTypes
    <2>3. \A t \in DOMAIN toolBlocks' : toolBlocks'[t] \in Nat BY <1>10, <2>1, <2>2
    <2>4. CASE calls = {}
      <3>1. e3 = e2 BY <1>4, <1>13, <1>17, <2>4
      <3>2. n = before
        <4>1. calls \ DOMAIN toolBlocks = {} BY <2>4
        <4>2. Cardinality({}) = 0 BY FS_EmptySet
        <4> QED BY <1>2, <1>10, <4>1, <4>2
      <3>3. DOMAIN toolBlocks' = DOMAIN toolBlocks BY <2>1, <2>4
      <3>4. ASSUME k PROVE \A t \in DOMAIN toolBlocks' : HasStart(e3, toolBlocks'[t], t)
        BY <1>18, <2>1, <3>1, <3>3, <3>4 DEF Going, Keeps
      <3> QED BY <1>10, <1>17, <1>18, <2>2, <2>3, <2>4, <3>1, <3>2, <3>3, <3>4 DEF Keeps
    <2>5. CASE calls # {}
      <3>1. PICK tool \in ToolIndexes : calls = {tool} BY <2>5
      <3>2. (CHOOSE t \in calls : TRUE) = tool BY <3>1
      <3>3. e3 = e2 \o CallEvents(tool, arguments, before) BY <1>4, <1>13, <2>5, <3>2
      <3>4. /\ e3 \in Seq(StreamEvents) /\ Keeps(e2, e3) /\ BlockOf(tool, before) \in Nat
            /\ CallReads(e2, e3, tool, before, o) /\ (NoText(e2) => NoText(e3))
        <4>1. TranslatorTypes /\ before \in Nat /\ e2 \in Seq(StreamEvents) /\ tool \in ToolIndexes
          BY <1>7, <1>10, <1>17, <3>1
        <4>2. \E given \in BOOLEAN : e3 = e2 \o CallEvents(tool, given, before) BY Zenon, <3>3
        <4> QED BY <4>1, <4>2, CallSent
      <3>5. n \in Nat /\ n = IF tool \in DOMAIN toolBlocks THEN before ELSE before + 1
        <4>1. CASE tool \in DOMAIN toolBlocks
          <5>1. calls \ DOMAIN toolBlocks = {} BY <3>1, <4>1
          <5>2. Cardinality({}) = 0 BY FS_EmptySet
          <5> QED BY <1>2, <1>10, <4>1, <5>1, <5>2
        <4>2. CASE tool \notin DOMAIN toolBlocks
          <5>1. calls \ DOMAIN toolBlocks = {tool} BY <3>1, <4>2
          <5>2. Cardinality({tool}) = 1 BY FS_Singleton
          <5>3. n = before + 1 BY <1>2, <5>1, <5>2
          <5> QED BY <1>10, <4>2, <5>3
        <4> QED BY <4>1, <4>2
      <3>6. DOMAIN toolBlocks' \subseteq ToolIndexes BY <2>1, <2>2, <3>1
      <3>7. IsFiniteSet(DOMAIN toolBlocks') BY <2>1, <2>2, <3>1, FS_AddElement
      <3>8. ASSUME k
            PROVE  Readable(e3, n, o) /\ \A t \in DOMAIN toolBlocks' : HasStart(e3, toolBlocks'[t], t)
        <4>1. \A t \in DOMAIN toolBlocks : HasStart(e2, toolBlocks[t], t)
          BY <1>18, <3>8 DEF Going, Keeps
        <4>2. Readable(e3, n, o) /\ HasStart(e3, BlockOf(tool, before), tool)
          BY <1>18, <3>4, <3>5, <3>8, <4>1 DEF CallReads
        <4>3. \A t \in DOMAIN toolBlocks : HasStart(e3, toolBlocks[t], t)
          BY <3>4, <4>1 DEF Keeps
        <4>4. BlockOf(tool, before) = toolBlocks'[tool] BY <2>1, <3>1 DEF BlockOf
        <4> QED BY <2>1, <3>1, <4>2, <4>3, <4>4
      <3> QED BY <2>1, <2>3, <3>4, <3>5, <3>6, <3>7, <3>8
    <2> QED BY <2>4, <2>5
  <1>20. /\ events' \in Seq(StreamEvents)
         /\ \A index, of : HasStart(e3, index, of) => HasStart(events', index, of)
         /\ HasBegun(e3) => HasBegun(events')
         /\ NoText(e3) => NoText(events')
         /\ NoFinish(e3) => IF finish THEN OneFinish(events') ELSE NoFinish(events')
         /\ Readable(e3, n, o) => Readable(events', n, o) /\ (finish => AllStopped(events'))
    <2>1. CASE finish
      <3>1. events' = e3 \o Closing(n) BY <1>14, <2>1
      <3> QED BY <1>19, <2>1, <3>1, ClosingSent
    <2>2. CASE ~finish
      <3>1. events' = e3 BY <1>14, <1>19, <2>2
      <3> QED BY <1>19, <2>2, <3>1
    <2> QED BY <2>1, <2>2
  <1>21. lawful' \in [kept : BOOLEAN, callsFirst : BOOLEAN, called : BOOLEAN, finishing : BOOLEAN]
         /\ lawful'.kept = k /\ lawful'.called = c /\ lawful'.finishing = finish
         /\ Order' = o
    BY <1>9, <1>15a DEF Order, Orders
  <1>22. textBegun' \in BOOLEAN BY <1>3
  <1>23. TranslatorTypes' BY <1>3, <1>7, <1>19, <1>20, <1>21, <1>22 DEF TranslatorTypes
  <1>24. ASSUME k PROVE Going'
    <2>1. BlocksBegun' = n BY <1>3 DEF BlocksBegun
    <2>2. HasBegun(events') /\ Readable(events', n, o)
      BY <1>18, <1>19, <1>20, <1>24 DEF Keeps
    <2>3. IF lawful'.finishing THEN OneFinish(events') ELSE NoFinish(events')
      BY <1>18, <1>19, <1>20, <1>21, <1>24 DEF Keeps
    <2>4. \A t \in DOMAIN toolBlocks' : HasStart(events', toolBlocks'[t], t)
      BY <1>19, <1>20, <1>24
    <2>5. IF textBegun' THEN HasStart(events', 0, Text) ELSE NoText(events')
      BY <1>3, <1>18, <1>19, <1>20, <1>24 DEF Keeps
    <2>6. ASSUME ~c
          PROVE  DOMAIN toolBlocks' = {} /\ nextBlock' = IF textBegun' THEN 1 ELSE 0
      <3>1. ~lawful.called /\ calls = {} BY <1>6, <2>6
      <3>2. DOMAIN toolBlocks = {} /\ nextBlock = IF textBegun THEN 1 ELSE 0
        BY <1>3, <1>18, <1>24, <3>1 DEF Going
      <3>3. DOMAIN toolBlocks' = {} BY <1>19, <3>1, <3>2
      <3>4. n = before
        <4>1. calls \ DOMAIN toolBlocks = {} BY <3>1
        <4>2. Cardinality({}) = 0 BY FS_EmptySet
        <4> QED BY <1>2, <1>10, <4>1, <4>2
      <3>5. before = IF textBegun \/ text THEN 1 ELSE 0 BY <1>8, <1>10, <3>2
      <3> QED BY <1>3, <3>3, <3>4, <3>5
    <2>7. lawful'.finishing => AllStopped(events') BY <1>19, <1>20, <1>21, <1>24
    <2> QED BY <1>3, <1>21, <2>1, <2>2, <2>3, <2>4, <2>5, <2>6, <2>7 DEF Going
  <1> QED BY <1>3, <1>21, <1>23, <1>24 DEF TranslatorInv

\* The item of chat_to_responses_stream() is opened once.
LEMMA ItemSent ==
  ASSUME TranslatorTypes, translator = "chat_to_responses", NEW more, more = events \o OpeningItem
  PROVE  /\ more \in Seq(StreamEvents)
         /\ Going => /\ HasBegun(more) /\ Readable(more, 1, Order) /\ HasStart(more, 0, Text)
                     /\ ~lawful.finishing => NoFinish(more)
                     /\ \A index, of : HasStart(events, index, of) => HasStart(more, index, of)
  <1>1. events \in Seq(StreamEvents) /\ begun \in BOOLEAN BY DEF TranslatorTypes
  <1>2. CASE begun
    <2>1. more = events BY <1>1, <1>2, OneByOne DEF OpeningItem
    <2>2. BlocksBegun = 1 BY <1>2 DEF BlocksBegun
    <2> QED BY <1>1, <1>2, <2>1, <2>2 DEF Going
  <1>3. CASE ~begun
    <2>1. PICK b \in StreamEvents, a \in StreamEvents :
            /\ b = Begin /\ b.kind = "begin"
            /\ a = Ev("start", 0, Text) /\ a.kind = "start"
      BY EventIs, TextIs DEF Begin, Kinds
    <2>2. PICK fs : fs = Append(events, b) OBVIOUS
    <2>3. more = Append(fs, a)
      <3>1. OpeningItem = <<b, a>> BY <1>3, <2>1 DEF OpeningItem
      <3> QED BY <1>1, <2>2, <3>1, OneByOne
    <2>4. fs \in Seq(StreamEvents) /\ (NoFinish(events) => NoFinish(fs)) BY <1>1, <2>1, <2>2, EventKeeps
    <2>5. more = Append(fs, Ev("start", 0, Text)) BY <2>1, <2>3
    <2>6. /\ more \in Seq(StreamEvents) /\ Keeps(fs, more) /\ HasStart(more, 0, Text)
          /\ Readable(fs, 0, Order) => Readable(more, 0 + 1, Order)
      BY <2>4, <2>5, StartSent
    <2>7. ASSUME Going
          PROVE  /\ HasBegun(more) /\ Readable(more, 1, Order) /\ HasStart(more, 0, Text)
                 /\ ~lawful.finishing => NoFinish(more)
                 /\ \A index, of : HasStart(events, index, of) => HasStart(more, index, of)
      <3>1. events = <<>> /\ Readable(events, 0, Order) BY <1>3, <2>7 DEF Going, BlocksBegun
      <3>2. Readable(fs, 0, Order) /\ HasBegun(fs) BY <1>1, <2>1, <2>2, <3>1, EventReadable
      <3>3. NoFinish(events) /\ \A index, of : ~HasStart(events, index, of)
        BY <3>1 DEF NoFinish, HasStart
      <3> QED BY <2>4, <2>6, <3>2, <3>3 DEF Keeps
    <2> QED BY <2>6, <2>7
  <1> QED BY <1>2, <1>3

\* A chunk of the chat protocol becomes events of the Responses protocol.
LEMMA ResponsesKeeps ==
  ASSUME TranslatorInv, NEW text \in BOOLEAN, NEW finish \in BOOLEAN, NEW calls,
         ChatToResponses(text, calls, finish)
  PROVE  TranslatorInv'
  <1>1. /\ translator = "chat_to_responses" /\ phase = "open" /\ phase' = phase
        /\ translator' = translator /\ begun' = TRUE /\ textBegun' = textBegun
        /\ toolBlocks' = toolBlocks /\ nextBlock' = nextBlock
        /\ events' = events \o OpeningItem
             \o (IF text THEN <<Ev("delta", 0, Text)>> ELSE <<>>)
             \o (IF finish THEN <<FinishEvent>> ELSE <<>>)
    BY DEF ChatToResponses, Receive
  <1>2. TranslatorTypes /\ (lawful.kept => Going) BY <1>1 DEF TranslatorInv
  <1>3. /\ events \in Seq(StreamEvents)
        /\ lawful \in [kept : BOOLEAN, callsFirst : BOOLEAN, called : BOOLEAN, finishing : BOOLEAN]
    BY <1>2 DEF TranslatorTypes
  <1>4. PICK k \in BOOLEAN : k <=> lawful.kept /\ ~lawful.finishing OBVIOUS
  <1>5. lawful' = [lawful EXCEPT !.kept = k, !.finishing = finish]
    BY <1>3, <1>4 DEF ChatToResponses
  <1>6. lawful'.kept = k /\ lawful'.finishing = finish /\ Order' = Order
        /\ lawful' \in [kept : BOOLEAN, callsFirst : BOOLEAN, called : BOOLEAN, finishing : BOOLEAN]
    BY <1>3, <1>5 DEF Order
  <1>7. PICK e1 : e1 = events \o OpeningItem OBVIOUS
  <1>8. /\ e1 \in Seq(StreamEvents)
        /\ Going => /\ HasBegun(e1) /\ Readable(e1, 1, Order) /\ HasStart(e1, 0, Text)
                    /\ ~lawful.finishing => NoFinish(e1)
                    /\ \A index, of : HasStart(events, index, of) => HasStart(e1, index, of)
    BY <1>1, <1>2, <1>7, ItemSent
  <1>9. PICK e2 : e2 = e1 \o (IF text THEN <<Ev("delta", 0, Text)>> ELSE <<>>) OBVIOUS
  <1>10. /\ e2 \in Seq(StreamEvents) /\ Keeps(e1, e2)
         /\ Readable(e1, 1, Order) /\ HasStart(e1, 0, Text) => Readable(e2, 1, Order)
    <2>1. CASE text
      <3>1. Ev("delta", 0, Text) \in StreamEvents BY EventIs DEF Kinds
      <3>2. e2 = Append(e1, Ev("delta", 0, Text)) BY <1>8, <1>9, <2>1, <3>1, OneByOne
      <3>3. PICK e \in StreamEvents : /\ e = Ev("delta", 0, Text) /\ e.kind = "delta"
                                      /\ e.index = 0 /\ e.of = Text
        BY TextIs DEF Kinds
      <3>4. e2 = Append(e1, e) BY <3>2, <3>3
      <3>5. e2 \in Seq(StreamEvents) /\ Keeps(e1, e2)
        BY <1>8, <3>3, <3>4, EventKeeps DEF Keeps
      <3>6. HasStart(e1, 0, Text) /\ Readable(e1, 1, Order) => Readable(e2, 1, Order)
        BY <1>8, <3>3, <3>4, EventReadable
      <3> QED BY <3>5, <3>6
    <2>2. CASE ~text
      <3>1. e2 = e1 BY <1>8, <1>9, <2>2
      <3> QED BY <1>8, <3>1 DEF Keeps
    <2> QED BY <2>1, <2>2
  <1>11. events' = e2 \o (IF finish THEN <<FinishEvent>> ELSE <<>>) BY <1>1, <1>7, <1>9
  <1>12. /\ events' \in Seq(StreamEvents)
         /\ \A index, of : HasStart(e2, index, of) => HasStart(events', index, of)
         /\ HasBegun(e2) => HasBegun(events')
         /\ NoFinish(e2) => IF finish THEN OneFinish(events') ELSE NoFinish(events')
         /\ Readable(e2, 1, Order) => Readable(events', 1, Order)
    <2>1. CASE finish
      <3>1. PICK e \in StreamEvents : e = FinishEvent /\ e.kind = "finish"
        BY EventIs DEF FinishEvent, Kinds
      <3>2. events' = Append(e2, e) BY <1>10, <1>11, <2>1, <3>1, OneByOne
      <3>3. Readable(e2, 1, Order) => Readable(events', 1, Order) BY <1>10, <3>1, <3>2, EventReadable
      <3>4. /\ events' \in Seq(StreamEvents)
            /\ \A index, of : HasStart(e2, index, of) => HasStart(events', index, of)
            /\ HasBegun(e2) => HasBegun(events')
            /\ NoFinish(e2) => OneFinish(events')
        BY <1>10, <3>1, <3>2, EventKeeps
      <3> QED BY <2>1, <3>3, <3>4
    <2>2. CASE ~finish
      <3>1. events' = e2 BY <1>10, <1>11, <2>2
      <3> QED BY <1>10, <2>2, <3>1
    <2> QED BY <2>1, <2>2
  <1>13. TranslatorTypes' BY <1>1, <1>2, <1>6, <1>12 DEF TranslatorTypes
  <1>14. ASSUME k PROVE Going'
    <2>1. Going /\ ~lawful.finishing BY <1>2, <1>4, <1>14
    <2>2. BlocksBegun' = 1 BY <1>1 DEF BlocksBegun
    <2>3. HasBegun(events') /\ Readable(events', 1, Order) /\ HasStart(events', 0, Text)
      BY <1>8, <1>10, <1>12, <2>1 DEF Keeps
    <2>4. IF lawful'.finishing THEN OneFinish(events') ELSE NoFinish(events')
      BY <1>6, <1>8, <1>10, <1>12, <2>1 DEF Keeps
    <2>5. \A t \in DOMAIN toolBlocks' : HasStart(events', toolBlocks'[t], t)
      BY <1>1, <1>8, <1>10, <1>12, <2>1 DEF Going, Keeps
    <2> QED BY <1>1, <1>6, <2>2, <2>3, <2>4, <2>5 DEF Going
  <1> QED BY <1>1, <1>6, <1>13, <1>14 DEF TranslatorInv

\* Malformed data ends the stream with an error.
LEMMA MalformedKeeps ==
  ASSUME TranslatorInv, NEW opened \in BOOLEAN, Malformed(opened)
  PROVE  TranslatorInv'
  <1>1. /\ phase = "open" /\ phase' = "failed" /\ translator' = translator /\ begun' = begun
        /\ textBegun' = textBegun /\ toolBlocks' = toolBlocks /\ nextBlock' = nextBlock
        /\ lawful' = lawful /\ (opened => translator # "anthropic_to_chat")
        /\ events' = events \o (IF ~opened THEN <<>>
                                ELSE IF translator = "chat_to_anthropic" THEN Opening ELSE OpeningItem)
                     \o <<Failure>>
    BY DEF Malformed
  <1>2. TranslatorTypes /\ (lawful.kept => Going) BY <1>1 DEF TranslatorInv
  <1>3. events \in Seq(StreamEvents) BY <1>2 DEF TranslatorTypes
  <1>4. PICK e1 : e1 = events \o (IF ~opened THEN <<>>
                                  ELSE IF translator = "chat_to_anthropic" THEN Opening ELSE OpeningItem)
    OBVIOUS
  <1>5. e1 \in Seq(StreamEvents) /\ (Going => \E n \in Nat : Readable(e1, n, Order))
    <2>1. BlocksBegun \in Nat
      <3>1. Cardinality(DOMAIN toolBlocks) \in Nat BY <1>2, FS_CardinalityType DEF TranslatorTypes
      <3> QED BY <1>2, <3>1 DEF TranslatorTypes, BlocksBegun
    <2>2. CASE ~opened
      <3>1. e1 = events BY <1>3, <1>4, <2>2
      <3> QED BY <1>3, <2>1, <3>1 DEF Going
    <2>3. CASE opened /\ translator = "chat_to_anthropic"
      <3>1. e1 = events \o Opening BY <1>4, <2>3
      <3> QED BY <1>2, <2>1, <3>1, OpeningSent
    <2>4. CASE opened /\ translator # "chat_to_anthropic"
      <3>1. e1 = events \o OpeningItem /\ translator = "chat_to_responses"
        BY <1>1, <1>2, <1>4, <2>4 DEF TranslatorTypes
      <3>2. e1 \in Seq(StreamEvents) /\ (Going => Readable(e1, 1, Order)) BY <1>2, <3>1, ItemSent
      <3> QED BY <3>2
    <2> QED BY <2>2, <2>3, <2>4
  <1>6. PICK e \in StreamEvents : e = Failure /\ e.kind = "error" BY EventIs DEF Failure, Kinds
  <1>7. events' = Append(e1, e) BY <1>1, <1>4, <1>5, <1>6, OneByOne
  <1>8. events' \in Seq(StreamEvents) BY <1>5, <1>7, EventKeeps
  <1>9. \A n \in Nat : Readable(e1, n, Order) => Readable(events', n, Order) BY <1>5, <1>6, <1>7, EventReadable
  <1>10. TranslatorTypes' BY <1>1, <1>2, <1>8 DEF TranslatorTypes
  <1>11. lawful.kept => Over' BY <1>1, <1>2, <1>5, <1>9 DEF Over, Order
  <1> QED BY <1>1, <1>10, <1>11 DEF TranslatorInv

\* A stream ends as it should only after its finish.
LEMMA StreamEndKeeps ==
  ASSUME TranslatorInv, StreamEnds
  PROVE  TranslatorInv'
  <1>1. /\ phase = "open" /\ phase' = "closed" /\ translator' = translator /\ begun' = begun
        /\ textBegun' = textBegun /\ toolBlocks' = toolBlocks /\ nextBlock' = nextBlock
        /\ events' = events \o (IF translator = "chat_to_anthropic" THEN Opening ELSE <<>>)
                     \o <<Ev("end", 0, "message")>>
    BY DEF StreamEnds
  <1>2. TranslatorTypes /\ (lawful.kept => Going) BY <1>1 DEF TranslatorInv
  <1>3. /\ events \in Seq(StreamEvents) /\ begun \in BOOLEAN
        /\ lawful \in [kept : BOOLEAN, callsFirst : BOOLEAN, called : BOOLEAN, finishing : BOOLEAN]
    BY <1>2 DEF TranslatorTypes
  <1>4. PICK k \in BOOLEAN : k <=> lawful.kept /\ lawful.finishing OBVIOUS
  <1>5. lawful' = [lawful EXCEPT !.kept = k] BY <1>3, <1>4 DEF StreamEnds
  <1>6. lawful'.kept = k /\ Order' = Order /\ lawful' \in [kept : BOOLEAN, callsFirst : BOOLEAN, called : BOOLEAN, finishing : BOOLEAN]
    BY <1>3, <1>5, KeptIs
  <1>7. PICK e1 : e1 = events \o (IF translator = "chat_to_anthropic" THEN Opening ELSE <<>>) OBVIOUS
  <1>8. e1 \in Seq(StreamEvents) /\ (begun => e1 = events)
    <2>1. CASE translator = "chat_to_anthropic"
      <3>1. e1 = events \o Opening BY <1>7, <2>1
      <3>2. e1 \in Seq(StreamEvents) BY <1>2, <3>1, OpeningSent
      <3>3. begun => Opening = <<>> BY DEF Opening
      <3> QED BY <1>3, <3>1, <3>2, <3>3
    <2>2. CASE translator # "chat_to_anthropic"
      <3>1. e1 = events BY <1>3, <1>7, <2>2
      <3> QED BY <1>3, <3>1
    <2> QED BY <2>1, <2>2
  <1>9. PICK e \in StreamEvents : e = Ev("end", 0, "message") /\ e.kind = "end" BY EventIs DEF Kinds
  <1>10. events' = Append(e1, e) BY <1>1, <1>7, <1>8, <1>9, OneByOne
  <1>11. /\ events' \in Seq(StreamEvents)
         /\ HasBegun(e1) => HasBegun(events')
         /\ OneFinish(e1) => OneFinish(events')
         /\ AllStopped(e1) => AllStopped(events')
    BY <1>8, <1>9, <1>10, EventKeeps
  <1>12. \A n \in Nat : Readable(e1, n, Order) => Readable(events', n, Order) BY <1>8, <1>9, <1>10, EventReadable
  <1>13. TranslatorTypes' BY <1>1, <1>2, <1>6, <1>11 DEF TranslatorTypes
  <1>14. ASSUME k PROVE Over'
    <2>1. Going /\ lawful.finishing BY <1>2, <1>4, <1>14
    <2>2. OneFinish(events) BY <2>1 DEF Going
    <2>3. begun
      <3>1. Len(events) > 0 BY <1>3, <2>2 DEF OneFinish
      <3> QED BY <2>1, <3>1 DEF Going
    <2>4. e1 = events BY <1>8, <2>3
    <2>5. HasBegun(events) /\ (translator = "chat_to_anthropic" => AllStopped(events))
      BY <2>1, <2>3 DEF Going
    <2>6. BlocksBegun \in Nat /\ Readable(events, BlocksBegun, Order)
      <3>1. Cardinality(DOMAIN toolBlocks) \in Nat BY <1>2, FS_CardinalityType DEF TranslatorTypes
      <3> QED BY <1>2, <2>1, <3>1 DEF TranslatorTypes, BlocksBegun, Going
    <2>7. \E n \in Nat : Readable(events', n, Order) BY <1>12, <2>4, <2>6
    <2> QED BY <1>1, <1>6, <1>11, <2>2, <2>4, <2>5, <2>7 DEF Over
  <1> QED BY <1>1, <1>6, <1>13, <1>14 DEF TranslatorInv

\* From a provider that keeps to its own protocol, whether its text or its calls come
\* first: the stream begins once and first, no two tools share an index, nor do text and
\* tool if the text came first, every piece comes after the beginning of its block and
\* with its index, and a stream that ends is finished once with its blocks stopped (the
\* three translators of streaming.py).
THEOREM StreamsAreCoherent == TranslatorSpec => []StreamCoherent
  <1>1. TranslatorInit => TranslatorInv BY TranslatorStart
  <1>2. TranslatorInv /\ [TranslatorNext]_translatorVars => TranslatorInv'
    <2> SUFFICES ASSUME TranslatorInv, [TranslatorNext]_translatorVars PROVE TranslatorInv'
      OBVIOUS
    <2>1. CASE translatorVars' = translatorVars
      BY <2>1 DEF translatorVars, TranslatorInv, TranslatorTypes, Going, Over, BlocksBegun, Order
    <2>2. CASE TranslatorNext
      <3>1. ASSUME NEW text \in BOOLEAN, NEW arguments \in BOOLEAN, NEW finish \in BOOLEAN,
                   NEW calls \in {{}} \union {{t} : t \in ToolIndexes},
                   ChatToAnthropic(text, calls, arguments, finish) \/ ChatToResponses(text, calls, finish)
            PROVE  TranslatorInv'
        BY <3>1, ChatKeeps, ResponsesKeeps
      <3>2. ASSUME NEW opened \in BOOLEAN, Malformed(opened) PROVE TranslatorInv'
        BY <3>2, MalformedKeeps
      <3> QED BY <2>2, <3>1, <3>2, AnthropicKeeps, StreamEndKeeps DEF TranslatorNext
    <2> QED BY <2>1, <2>2
  <1>3. TranslatorInv => StreamCoherent BY TranslatorGives
  <1> QED BY <1>1, <1>2, <1>3, PTL DEF TranslatorSpec

-----------------------------------------------------------------------------
(* ContainerRun: what the redactor makes of its input                       *)

Shows == Bytes \union {Mark}
Drained == [out : Seq(Shows), rest : Seq(Bytes)]

\* What one turn of _drain()'s loop shows, and what it leaves.
Shown(b) == IF SecretsAt(b) # {} THEN Mark ELSE Head(b)
After(b) == IF SecretsAt(b) # {} THEN SubSeq(b, MatchedLength(b) + 1, Len(b)) ELSE Tail(b)

\* The loop ends with b in the buffer; K are the buffers it does not decide.
Waits(b, K) == SecretsAt(b) = {} /\ b \in K

Turn(b, K, d) ==
  IF b = <<>> THEN [out |-> <<>>, rest |-> <<>>]
  ELSE IF Waits(b, K) THEN [out |-> <<>>, rest |-> b]
  ELSE [out |-> <<Shown(b)>> \o d[After(b)].out, rest |-> d[After(b)].rest]

\* A beginning, byte by byte.
LEMMA BytesBegin ==
  ASSUME NEW s \in Seq(Bytes), NEW b \in Seq(Bytes)
  PROVE  IsPrefix(s, b) <=> Len(s) <= Len(b) /\ \A i \in 1..Len(s) : s[i] = b[i]
  <1>1. SubSeq(s, 1, Len(s)) = s OBVIOUS
  <1>2. ASSUME Len(s) <= Len(b)
        PROVE  SubSeq(s, 1, Len(s)) = SubSeq(b, 1, Len(s)) <=> \A i \in 1..Len(s) : s[i] = b[i]
    <2>1. PICK u : u = SubSeq(b, 1, Len(s)) OBVIOUS
    <2>2. u \in Seq(Bytes) /\ Len(u) = Len(s) /\ \A i \in 1..Len(s) : u[i] = b[i] BY <1>2, <2>1
    <2>3. (\A i \in 1..Len(s) : s[i] = u[i]) => s = u BY <2>2
    <2> QED BY <1>1, <2>1, <2>2, <2>3
  <1> QED BY <1>2 DEF IsPrefix

\* The secret that is matched is the longest that b begins with.
LEMMA MatchedIs ==
  ASSUME NEW b \in Seq(Bytes), SecretsAt(b) # {}
  PROVE  \E s \in SecretsAt(b) : MatchedLength(b) = Len(s) /\ Len(s) \in 1..Len(b)
  <1>1. PICK T : T = {Len(s) : s \in SecretsAt(b)} OBVIOUS
  <1>2. \A s \in SecretsAt(b) : Len(s) \in 1..Len(b)
    <2> SUFFICES ASSUME NEW s \in SecretsAt(b) PROVE Len(s) \in 1..Len(b) OBVIOUS
    <2>1. s \in Seq(Bytes) /\ s # <<>> /\ IsPrefix(s, b) BY RunAssumption DEF SecretsAt
    <2> QED BY <2>1, BytesBegin
  <1>3. T \in SUBSET (0..Len(b)) /\ T # {} /\ Len(b) \in Nat BY <1>1, <1>2
  <1>4. \E x \in T : \A y \in T : x >= y BY <1>3, Greatest
  <1>5. PICK n : n = CHOOSE x \in T : \A y \in T : y <= x OBVIOUS
  <1>6. \E x \in T : \A y \in T : y <= x BY <1>3, <1>4
  <1>7. n \in T BY <1>5, <1>6
  <1>8. MatchedLength(b) = n BY <1>1, <1>5 DEF MatchedLength
  <1> QED BY <1>1, <1>2, <1>7, <1>8

\* Each turn leaves less.
LEMMA TurnsEnd ==
  ASSUME NEW b \in Seq(Bytes), b # <<>>
  PROVE  Shown(b) \in Shows /\ After(b) \in Seq(Bytes) /\ Len(After(b)) < Len(b)
  <1>1. CASE SecretsAt(b) = {}
    <2>1. Head(b) \in Bytes /\ Tail(b) \in Seq(Bytes) /\ Len(Tail(b)) < Len(b) OBVIOUS
    <2> QED BY <1>1, <2>1 DEF Shown, After, Shows
  <1>2. CASE SecretsAt(b) # {}
    <2>1. PICK s \in SecretsAt(b) : MatchedLength(b) = Len(s) /\ Len(s) \in 1..Len(b)
      BY <1>2, MatchedIs
    <2>2. PICK n : n = MatchedLength(b) OBVIOUS
    <2>3. n \in 1..Len(b) BY <2>1, <2>2
    <2>4. SubSeq(b, n + 1, Len(b)) \in Seq(Bytes) /\ Len(SubSeq(b, n + 1, Len(b))) < Len(b)
      BY <2>3
    <2> QED BY <1>2, <2>2, <2>4 DEF Shown, After, Shows
  <1> QED BY <1>1, <1>2

\* The buffers of at most n bytes.
UpTo(n) == {b \in Seq(Bytes) : Len(b) <= n}

\* d is what the loop makes of the buffers of at most n bytes.
IsDrain(d, n, K) ==
  /\ d \in [UpTo(n) -> Drained]
  /\ \A b \in UpTo(n) : d[b] = Turn(b, K, d)

LEMMA TurnIs ==
  ASSUME NEW b \in Seq(Bytes), NEW K, NEW d,
         b # <<>> => d[After(b)] \in Drained
  PROVE  Turn(b, K, d) \in Drained
  <1>1. CASE b = <<>> BY <1>1 DEF Turn, Drained
  <1>2. CASE b # <<>> /\ Waits(b, K) BY <1>2 DEF Turn, Drained
  <1>3. CASE b # <<>> /\ ~Waits(b, K)
    <2>1. d[After(b)].out \in Seq(Shows) /\ d[After(b)].rest \in Seq(Bytes) BY <1>3 DEF Drained
    <2>2. Shown(b) \in Shows BY <1>3, TurnsEnd
    <2>3. <<Shown(b)>> \o d[After(b)].out \in Seq(Shows) BY <2>1, <2>2
    <2> QED BY <1>3, <2>1, <2>3 DEF Turn, Drained
  <1> QED BY <1>1, <1>2, <1>3

\* Two that agree on what is left agree.
LEMMA TurnSame ==
  ASSUME NEW b \in Seq(Bytes), NEW K, NEW d, NEW e,
         b # <<>> => d[After(b)] = e[After(b)]
  PROVE  Turn(b, K, d) = Turn(b, K, e)
  BY DEF Turn

LEMMA DrainsExist ==
  ASSUME NEW n \in Nat, NEW K
  PROVE  \E d : IsDrain(d, n, K)
  <1> DEFINE T == {m \in Nat : ~\E d : IsDrain(d, m, K)}
  <1>1. SUFFICES ASSUME T # {} PROVE FALSE OBVIOUS
  <1>2. T \in SUBSET Nat OBVIOUS
  <1>3. PICK m \in T : \A l \in T : m <= l
    <2> HIDE DEF T
    <2> QED BY <1>1, <1>2, Least
  <1>4. CASE m = 0
    <2>1. PICK d : d = [b \in UpTo(0) |-> [out |-> <<>>, rest |-> <<>>]] OBVIOUS
    <2>2. \A b \in UpTo(0) : b = <<>> BY DEF UpTo
    <2>3. d \in [UpTo(0) -> Drained]
      <3>1. [out |-> <<>>, rest |-> <<>>] \in Drained BY DEF Drained
      <3> QED BY <2>1, <3>1
    <2>4. IsDrain(d, 0, K) BY <2>1, <2>2, <2>3 DEF IsDrain, Turn
    <2> QED BY <1>4, <2>4
  <1>5. CASE m # 0
    <2>1. m - 1 \in Nat /\ ~(m <= m - 1) /\ m \in Nat BY <1>5
    <2>2. PICK d : IsDrain(d, m - 1, K) BY <1>3, <2>1
    <2>3. PICK e : e = [b \in UpTo(m) |-> IF Len(b) = m THEN Turn(b, K, d) ELSE d[b]] OBVIOUS
    <2>4. ASSUME NEW b \in UpTo(m) PROVE e[b] = Turn(b, K, e) /\ e[b] \in Drained
      <3>1. b \in Seq(Bytes) /\ Len(b) <= m BY DEF UpTo
      <3>2. b # <<>> => /\ After(b) \in UpTo(m - 1) /\ After(b) \in UpTo(m)
                        /\ Len(After(b)) # m
        <4> SUFFICES ASSUME b # <<>>
                     PROVE  /\ After(b) \in UpTo(m - 1) /\ After(b) \in UpTo(m)
                            /\ Len(After(b)) # m
          OBVIOUS
        <4>1. After(b) \in Seq(Bytes) /\ Len(After(b)) < Len(b) /\ Len(After(b)) \in Nat
          BY <3>1, TurnsEnd
        <4>2. Len(b) \in Nat BY <3>1
        <4> QED BY <2>1, <3>1, <4>1, <4>2 DEF UpTo
      <3>3. b # <<>> => e[After(b)] = d[After(b)] /\ d[After(b)] \in Drained
        BY <2>2, <2>3, <3>2 DEF IsDrain
      <3>4. Turn(b, K, e) = Turn(b, K, d) /\ Turn(b, K, d) \in Drained
        BY <3>1, <3>3, TurnIs, TurnSame
      <3>5. CASE Len(b) = m BY <2>3, <3>4, <3>5
      <3>6. CASE Len(b) # m
        <4>1. b \in UpTo(m - 1)
          <5>1. Len(b) \in Nat BY <3>1
          <5> QED BY <2>1, <3>1, <3>6, <5>1 DEF UpTo
        <4> QED BY <2>2, <2>3, <3>4, <3>6, <4>1 DEF IsDrain
      <3> QED BY <3>5, <3>6
    <2>5. e \in [UpTo(m) -> Drained] BY <2>3, <2>4
    <2>6. IsDrain(e, m, K) BY <2>4, <2>5 DEF IsDrain
    <2> QED BY <2>6
  <1> QED BY <1>4, <1>5

\* d follows the loop on the buffers B.
Solves(d, B, K) == \A b \in B : d[b] = Turn(b, K, d)

\* What is left of one of them is another.
ClosedUnder(B) == B \in SUBSET Seq(Bytes) /\ \A b \in B : b # <<>> => After(b) \in B

\* Two that follow the loop agree where both are defined.
LEMMA DrainsAgree ==
  ASSUME NEW B, NEW K, NEW d, NEW e, ClosedUnder(B), Solves(d, B, K), Solves(e, B, K)
  PROVE  \A b \in B : d[b] = e[b]
  <1> DEFINE T == {Len(b) : b \in {a \in B : d[a] # e[a]}}
  <1>1. SUFFICES ASSUME T # {} PROVE FALSE OBVIOUS
  <1>2. T \in SUBSET Nat BY DEF ClosedUnder
  <1>3. PICK m \in T : \A l \in T : m <= l
    <2> HIDE DEF T
    <2> QED BY <1>1, <1>2, Least
  <1>4. PICK b \in B : m = Len(b) /\ d[b] # e[b] OBVIOUS
  <1>5. b \in Seq(Bytes) /\ d[b] = Turn(b, K, d) /\ e[b] = Turn(b, K, e)
    BY DEF ClosedUnder, Solves
  <1>6. ASSUME b # <<>> PROVE d[After(b)] = e[After(b)]
    <2>1. After(b) \in B /\ Len(After(b)) < Len(b) /\ Len(b) \in Nat /\ Len(After(b)) \in Nat
      BY <1>5, <1>6, TurnsEnd DEF ClosedUnder
    <2>2. Len(After(b)) \notin T BY <1>3, <1>4, <2>1
    <2> QED BY <2>1, <2>2
  <1>7. Turn(b, K, d) = Turn(b, K, e) BY <1>5, <1>6, TurnSame
  <1> QED BY <1>4, <1>5, <1>7

\* A turn as _drain() has it.
Loop(b, f, K) ==
  IF b = <<>> THEN [out |-> <<>>, rest |-> <<>>]
  ELSE IF SecretsAt(b) # {}
    THEN [f[SubSeq(b, MatchedLength(b) + 1, Len(b))] EXCEPT !.out = <<Mark>> \o @]
  ELSE IF b \in K THEN [out |-> <<>>, rest |-> b]
  ELSE [f[Tail(b)] EXCEPT !.out = <<Head(b)>> \o @]

LEMMA LoopTurns ==
  ASSUME NEW b \in Seq(Bytes), NEW f, NEW K, b # <<>> => f[After(b)] \in Drained
  PROVE  Loop(b, f, K) = Turn(b, K, f)
  <1>1. CASE b = <<>> BY <1>1 DEF Loop, Turn
  <1>2. CASE b # <<>> /\ SecretsAt(b) # {}
    <2>1. PICK r \in Drained : r = f[After(b)] BY <1>2
    <2>2. [r EXCEPT !.out = <<Mark>> \o @] = [out |-> <<Mark>> \o r.out, rest |-> r.rest]
      <3>1. PICK more : more = <<Mark>> \o r.out OBVIOUS
      <3>2. [r EXCEPT !.out = more] = [out |-> more, rest |-> r.rest] BY <2>1 DEF Drained
      <3> QED BY <3>1, <3>2
    <2>3. Loop(b, f, K) = [r EXCEPT !.out = <<Mark>> \o @] BY <1>2, <2>1 DEF Loop, After
    <2>4. Turn(b, K, f) = [out |-> <<Mark>> \o r.out, rest |-> r.rest]
      BY <1>2, <2>1 DEF Turn, Waits, Shown
    <2> QED BY <2>2, <2>3, <2>4
  <1>3. CASE b # <<>> /\ SecretsAt(b) = {} /\ b \in K BY <1>3 DEF Loop, Turn, Waits
  <1>4. CASE b # <<>> /\ SecretsAt(b) = {} /\ b \notin K
    <2>1. PICK r \in Drained : r = f[After(b)] BY <1>4
    <2>2. [r EXCEPT !.out = <<Head(b)>> \o @] = [out |-> <<Head(b)>> \o r.out, rest |-> r.rest]
      <3>1. PICK more : more = <<Head(b)>> \o r.out OBVIOUS
      <3>2. [r EXCEPT !.out = more] = [out |-> more, rest |-> r.rest] BY <2>1 DEF Drained
      <3> QED BY <3>1, <3>2
    <2>3. Loop(b, f, K) = [r EXCEPT !.out = <<Head(b)>> \o @] BY <1>4, <2>1 DEF Loop, After
    <2>4. Turn(b, K, f) = [out |-> <<Head(b)>> \o r.out, rest |-> r.rest]
      BY <1>4, <2>1 DEF Turn, Waits, Shown
    <2> QED BY <2>2, <2>3, <2>4
  <1> QED BY <1>1, <1>2, <1>3, <1>4

LEMMA LoopSame ==
  ASSUME NEW b \in Seq(Bytes), NEW f, NEW g, NEW K, b # <<>> => f[After(b)] = g[After(b)]
  PROVE  Loop(b, f, K) = Loop(b, g, K)
  BY DEF Loop, After

\* The loop comes to an end on every buffer.
LEMMA LoopEnds ==
  ASSUME NEW K
  PROVE  \E f \in [Seq(Bytes) -> Drained] :
           \A b \in Seq(Bytes) : f[b] = Turn(b, K, f) /\ f[b] = Loop(b, f, K)
  <1>1. PICK D : D = [n \in Nat |-> CHOOSE d : IsDrain(d, n, K)] OBVIOUS
  <1>2. \A n \in Nat : IsDrain(D[n], n, K) BY <1>1, DrainsExist
  <1>3. PICK f : f = [b \in Seq(Bytes) |-> D[Len(b)][b]] OBVIOUS
  <1>4. \A b \in Seq(Bytes) : b \in UpTo(Len(b)) /\ Len(b) \in Nat BY DEF UpTo
  <1>5. f \in [Seq(Bytes) -> Drained]
    <2>1. \A b \in Seq(Bytes) : D[Len(b)][b] \in Drained BY <1>2, <1>4 DEF IsDrain
    <2> QED BY <1>3, <2>1
  <1>6. ASSUME NEW b \in Seq(Bytes) PROVE f[b] = Turn(b, K, f)
    <2>1. f[b] = Turn(b, K, D[Len(b)]) BY <1>2, <1>3, <1>4 DEF IsDrain
    <2>2. ASSUME b # <<>> PROVE D[Len(b)][After(b)] = f[After(b)]
      <3>1. /\ After(b) \in Seq(Bytes) /\ Len(After(b)) < Len(b)
            /\ Len(After(b)) \in Nat /\ Len(b) \in Nat
        BY <2>2, TurnsEnd
      <3>2. PICK n \in Nat, m \in Nat : n = Len(After(b)) /\ m = Len(b) /\ n < m BY <3>1
      <3>3. PICK d, e : d = D[n] /\ e = D[m] /\ IsDrain(d, n, K) /\ IsDrain(e, m, K) BY <1>2, <3>2
      <3>4. PICK B : B = UpTo(n) OBVIOUS
      <3>5. ASSUME NEW a \in B
            PROVE  /\ a \in Seq(Bytes) /\ a \in UpTo(n) /\ a \in UpTo(m)
                   /\ a # <<>> => After(a) \in B
        <4>1. a \in Seq(Bytes) /\ Len(a) <= n /\ Len(a) \in Nat BY <3>4 DEF UpTo
        <4>2. a # <<>> => After(a) \in Seq(Bytes) /\ Len(After(a)) < Len(a) /\ Len(After(a)) \in Nat
          BY <4>1, TurnsEnd
        <4> QED BY <3>2, <3>4, <4>1, <4>2 DEF UpTo
      <3>6. ClosedUnder(B) BY <3>5 DEF ClosedUnder
      <3>7. Solves(d, B, K) /\ Solves(e, B, K) BY <3>3, <3>5 DEF IsDrain, Solves
      <3>8. \A a \in B : d[a] = e[a] BY <3>6, <3>7, DrainsAgree
      <3>9. After(b) \in B BY <3>1, <3>2, <3>4 DEF UpTo
      <3>10. f[After(b)] = d[After(b)] BY <1>3, <3>1, <3>2, <3>3
      <3> QED BY <3>2, <3>3, <3>8, <3>9, <3>10
    <2>3. Turn(b, K, D[Len(b)]) = Turn(b, K, f)
      <3>1. PICK d : d = D[Len(b)] OBVIOUS
      <3> QED BY <2>2, <3>1, TurnSame
    <2> QED BY <2>1, <2>3
  <1>7. ASSUME NEW b \in Seq(Bytes) PROVE f[b] = Loop(b, f, K)
    <2>1. b # <<>> => f[After(b)] \in Drained BY <1>5, TurnsEnd
    <2>2. Loop(b, f, K) = Turn(b, K, f) BY <2>1, LoopTurns
    <2> QED BY <1>6, <2>2
  <1> QED BY <1>5, <1>6, <1>7

\* There is one way to run it.
LEMMA LoopOnce ==
  ASSUME NEW K, NEW f \in [Seq(Bytes) -> Drained], NEW g,
         \A b \in Seq(Bytes) : f[b] = Loop(b, f, K) /\ g[b] = Loop(b, g, K)
  PROVE  \A b \in Seq(Bytes) : f[b] = g[b]
  <1> DEFINE T == {Len(b) : b \in {a \in Seq(Bytes) : f[a] # g[a]}}
  <1>1. SUFFICES ASSUME T # {} PROVE FALSE OBVIOUS
  <1>2. T \in SUBSET Nat OBVIOUS
  <1>3. PICK m \in T : \A l \in T : m <= l
    <2> HIDE DEF T
    <2> QED BY <1>1, <1>2, Least
  <1>4. PICK b \in Seq(Bytes) : m = Len(b) /\ f[b] # g[b] OBVIOUS
  <1>5. ASSUME b # <<>> PROVE f[After(b)] = g[After(b)]
    <2>1. After(b) \in Seq(Bytes) /\ Len(After(b)) < Len(b) /\ Len(b) \in Nat /\ Len(After(b)) \in Nat
      BY <1>5, TurnsEnd
    <2>2. Len(After(b)) \notin T BY <1>3, <1>4, <2>1
    <2> QED BY <2>1, <2>2
  <1>6. Loop(b, f, K) = Loop(b, g, K) BY <1>5, LoopSame
  <1> QED BY <1>4, <1>6

\* _drain() at the end and before: the same loop, but for what it leaves undecided.
LEMMA DrainsAre ==
  \E f, g \in [Seq(Bytes) -> Drained] :
    \A b \in Seq(Bytes) :
      /\ Drain(b, TRUE) = f[b] /\ f[b] = Turn(b, {}, f)
      /\ Drain(b, FALSE) = g[b] /\ g[b] = Turn(b, {a \in Seq(Bytes) : Undecided(a)}, g)
  <1>1. PICK K : K = {a \in Seq(Bytes) : Undecided(a)} OBVIOUS
  <1>2. PICK f \in [Seq(Bytes) -> Drained] :
          \A b \in Seq(Bytes) : f[b] = Turn(b, {}, f) /\ f[b] = Loop(b, f, {})
    BY LoopEnds
  <1>3. PICK g \in [Seq(Bytes) -> Drained] :
          \A b \in Seq(Bytes) : g[b] = Turn(b, K, g) /\ g[b] = Loop(b, g, K)
    BY LoopEnds
  <1>4. \A b \in Seq(Bytes) : Drain(b, TRUE) = f[b]
    <2> DEFINE Body(d) == [b \in Seq(Bytes) |->
                 IF b = <<>> THEN [out |-> <<>>, rest |-> <<>>]
                 ELSE IF SecretsAt(b) # {}
                   THEN [d[SubSeq(b, MatchedLength(b) + 1, Len(b))] EXCEPT !.out = <<Mark>> \o @]
                 ELSE IF ~TRUE /\ Undecided(b) THEN [out |-> <<>>, rest |-> b]
                 ELSE [d[Tail(b)] EXCEPT !.out = <<Head(b)>> \o @]]
    <2>1. \A d : Body(d) = [b \in Seq(Bytes) |-> Loop(b, d, {})] BY DEF Loop
    <2>2. PICK j : j = CHOOSE d : d = Body(d) OBVIOUS
    <2>3. \A b \in Seq(Bytes) : Drain(b, TRUE) = j[b] BY <2>2 DEF Drain
    <2> HIDE DEF Body
    <2>4. f = Body(f) BY <1>2, <2>1
    <2>5. j = Body(j) BY <2>2, <2>4
    <2>6. j = [b \in Seq(Bytes) |-> Loop(b, j, {})] BY <2>1, <2>5
    <2>7. \A b \in Seq(Bytes) : j[b] = Loop(b, j, {}) BY <2>6
    <2>8. \A b \in Seq(Bytes) : f[b] = j[b] BY <1>2, <2>7, LoopOnce
    <2> QED BY <2>3, <2>8
  <1>5. \A b \in Seq(Bytes) : Drain(b, FALSE) = g[b]
    <2> DEFINE Body(d) == [b \in Seq(Bytes) |->
                 IF b = <<>> THEN [out |-> <<>>, rest |-> <<>>]
                 ELSE IF SecretsAt(b) # {}
                   THEN [d[SubSeq(b, MatchedLength(b) + 1, Len(b))] EXCEPT !.out = <<Mark>> \o @]
                 ELSE IF ~FALSE /\ Undecided(b) THEN [out |-> <<>>, rest |-> b]
                 ELSE [d[Tail(b)] EXCEPT !.out = <<Head(b)>> \o @]]
    <2>1. \A d : Body(d) = [b \in Seq(Bytes) |-> Loop(b, d, K)] BY <1>1 DEF Loop
    <2>2. PICK j : j = CHOOSE d : d = Body(d) OBVIOUS
    <2>3. \A b \in Seq(Bytes) : Drain(b, FALSE) = j[b] BY <2>2 DEF Drain
    <2> HIDE DEF Body
    <2>4. g = Body(g) BY <1>3, <2>1
    <2>5. j = Body(j) BY <2>2, <2>4
    <2>6. j = [b \in Seq(Bytes) |-> Loop(b, j, K)] BY <2>1, <2>5
    <2>7. \A b \in Seq(Bytes) : j[b] = Loop(b, j, K) BY <2>6
    <2>8. \A b \in Seq(Bytes) : g[b] = j[b] BY <1>3, <2>7, LoopOnce
    <2> QED BY <2>3, <2>8
  <1> QED BY <1>1, <1>2, <1>3, <1>4, <1>5

\* The redaction of all of b; what is sent of it while more may come, and what is kept.
Everything(b) == Drain(b, TRUE).out
SentOf(b) == Drain(b, FALSE).out
LeftOf(b) == Drain(b, FALSE).rest

LEMMA EverythingIs ==
  ASSUME NEW b \in Seq(Bytes)
  PROVE  /\ Everything(b) \in Seq(Shows)
         /\ b = <<>> => Everything(b) = <<>>
         /\ b # <<>> => Everything(b) = <<Shown(b)>> \o Everything(After(b))
  <1>1. PICK f \in [Seq(Bytes) -> Drained] :
          \A a \in Seq(Bytes) : Drain(a, TRUE) = f[a] /\ f[a] = Turn(a, {}, f)
    BY DrainsAre
  <1>2. f[b] \in Drained /\ Everything(b) = f[b].out /\ f[b] = Turn(b, {}, f)
    BY <1>1 DEF Everything
  <1>3. CASE b = <<>> BY <1>2, <1>3 DEF Turn, Drained
  <1>4. CASE b # <<>>
    <2>1. After(b) \in Seq(Bytes) BY <1>4, TurnsEnd
    <2>2. Everything(After(b)) = f[After(b)].out BY <1>1, <2>1 DEF Everything
    <2>3. f[b] = [out |-> <<Shown(b)>> \o f[After(b)].out, rest |-> f[After(b)].rest]
      BY <1>2, <1>4 DEF Turn, Waits
    <2>4. f[b].out = <<Shown(b)>> \o f[After(b)].out BY <2>3
    <2> QED BY <1>2, <1>4, <2>2, <2>4 DEF Drained
  <1> QED BY <1>3, <1>4

LEMMA SentIs ==
  ASSUME NEW b \in Seq(Bytes)
  PROVE  /\ SentOf(b) \in Seq(Shows) /\ LeftOf(b) \in Seq(Bytes)
         /\ b = <<>> \/ (SecretsAt(b) = {} /\ Undecided(b)) => SentOf(b) = <<>> /\ LeftOf(b) = b
         /\ b # <<>> /\ ~(SecretsAt(b) = {} /\ Undecided(b)) =>
              SentOf(b) = <<Shown(b)>> \o SentOf(After(b)) /\ LeftOf(b) = LeftOf(After(b))
  <1>1. PICK K : K = {a \in Seq(Bytes) : Undecided(a)} OBVIOUS
  <1>2. PICK g \in [Seq(Bytes) -> Drained] :
          \A a \in Seq(Bytes) : Drain(a, FALSE) = g[a] /\ g[a] = Turn(a, K, g)
    BY <1>1, DrainsAre
  <1>3. g[b] \in Drained /\ SentOf(b) = g[b].out /\ LeftOf(b) = g[b].rest /\ g[b] = Turn(b, K, g)
    BY <1>2 DEF SentOf, LeftOf
  <1>4. SentOf(b) \in Seq(Shows) /\ LeftOf(b) \in Seq(Bytes) BY <1>3 DEF Drained
  <1>5. CASE b = <<>> BY <1>3, <1>4, <1>5 DEF Turn
  <1>6. CASE b # <<>> /\ SecretsAt(b) = {} /\ Undecided(b)
    <2>1. Waits(b, K) BY <1>1, <1>6 DEF Waits
    <2>2. g[b] = [out |-> <<>>, rest |-> b] BY <1>3, <1>6, <2>1 DEF Turn
    <2> QED BY <1>3, <1>4, <1>6, <2>2
  <1>7. CASE b # <<>> /\ ~(SecretsAt(b) = {} /\ Undecided(b))
    <2>1. After(b) \in Seq(Bytes) BY <1>7, TurnsEnd
    <2>2. SentOf(After(b)) = g[After(b)].out /\ LeftOf(After(b)) = g[After(b)].rest
      BY <1>2, <2>1 DEF SentOf, LeftOf
    <2>3. ~Waits(b, K) BY <1>1, <1>7 DEF Waits
    <2>4. g[b] = [out |-> <<Shown(b)>> \o g[After(b)].out, rest |-> g[After(b)].rest]
      BY <1>3, <1>7, <2>3 DEF Turn
    <2>5. /\ g[b].out = <<Shown(b)>> \o g[After(b)].out
          /\ g[b].rest = g[After(b)].rest
      BY <2>4
    <2> QED BY <1>3, <1>4, <1>7, <2>2, <2>5
  <1> QED BY <1>5, <1>6, <1>7

\* More of a buffer, byte by byte.
LEMMA BytesJoined ==
  ASSUME NEW S, NEW b \in Seq(S), NEW c \in Seq(S)
  PROVE  /\ b \o c \in Seq(S) /\ Len(b \o c) = Len(b) + Len(c)
         /\ Len(b) \in Nat /\ Len(c) \in Nat
         /\ \A i \in 1..Len(b) : (b \o c)[i] = b[i]
         /\ \A i \in 1..Len(c) : (b \o c)[Len(b) + i] = c[i]
  OBVIOUS

\* Joining, where nothing has to be known of it but that it is associative.
Joint(x, y) == x \o y

LEMMA BytesAssociate ==
  ASSUME NEW S, NEW x \in Seq(S), NEW y \in Seq(S), NEW z \in Seq(S)
  PROVE  Joint(x, Joint(y, z)) = Joint(Joint(x, y), z)
  <1>1. x \o (y \o z) = (x \o y) \o z OBVIOUS
  <1> QED BY <1>1 DEF Joint

\* Cut behind n bytes.
LEMMA BytesCut ==
  ASSUME NEW b \in Seq(Bytes), NEW c \in Seq(Bytes), NEW n \in 0..Len(b)
  PROVE  SubSeq(b \o c, n + 1, Len(b \o c)) = SubSeq(b, n + 1, Len(b)) \o c
  <1>1. PICK u : u = b \o c OBVIOUS
  <1>2. /\ u \in Seq(Bytes) /\ Len(u) = Len(b) + Len(c)
        /\ Len(b) \in Nat /\ Len(c) \in Nat
        /\ \A i \in 1..Len(b) : u[i] = b[i]
        /\ \A i \in 1..Len(c) : u[Len(b) + i] = c[i]
    BY <1>1, BytesJoined
  <1>3. PICK l : l = SubSeq(u, n + 1, Len(u)) OBVIOUS
  <1>4. PICK t : t = SubSeq(b, n + 1, Len(b)) OBVIOUS
  <1>5. PICK r : r = t \o c OBVIOUS
  <1>6. /\ l \in Seq(Bytes) /\ Len(l) = Len(u) - n
        /\ \A i \in 1..(Len(u) - n) : l[i] = u[n + i]
    BY <1>2, <1>3
  <1>7. /\ t \in Seq(Bytes) /\ Len(t) = Len(b) - n
        /\ \A i \in 1..(Len(b) - n) : t[i] = b[n + i]
    BY <1>2, <1>4
  <1>8. /\ r \in Seq(Bytes) /\ Len(r) = Len(t) + Len(c)
        /\ \A i \in 1..Len(t) : r[i] = t[i]
        /\ \A i \in 1..Len(c) : r[Len(t) + i] = c[i]
    <2>1. t \in Seq(Bytes) BY <1>7
    <2> QED BY <1>5, <2>1, BytesJoined
  <1>9. Len(l) = Len(r) BY <1>2, <1>6, <1>7, <1>8
  <1>10. ASSUME NEW i \in 1..Len(l) PROVE l[i] = r[i]
    <2>1. l[i] = u[n + i] BY <1>6
    <2>2. CASE i <= Len(b) - n
      <3>1. i \in 1..(Len(b) - n) /\ n + i \in 1..Len(b) BY <1>2, <2>2
      <3> QED BY <1>2, <1>7, <1>8, <2>1, <3>1
    <2>3. CASE i > Len(b) - n
      <3>1. i \in 1..(Len(b) + Len(c) - n) BY <1>2, <1>6
      <3>2. i - (Len(b) - n) \in 1..Len(c) BY <1>2, <2>3, <3>1
      <3>3. PICK k \in 1..Len(c) : k = i - (Len(b) - n) BY <3>2
      <3>4. n + i = Len(b) + k /\ i = Len(t) + k BY <1>2, <1>7, <3>3
      <3>5. u[Len(b) + k] = c[k] BY <1>2
      <3>6. r[Len(t) + k] = c[k] BY <1>8
      <3> QED BY <2>1, <3>4, <3>5, <3>6
    <2> QED BY <1>2, <2>2, <2>3
  <1>11. l = r BY <1>6, <1>8, <1>9, <1>10, SeqEqual
  <1> QED BY <1>1, <1>3, <1>4, <1>5, <1>11

\* A secret that begins what more has come to, and more than has come: it is undecided.
LEMMA SecretsOfMore ==
  ASSUME NEW b \in Seq(Bytes), NEW c \in Seq(Bytes), NEW s \in Secrets
  PROVE  /\ IsPrefix(s, b) => IsPrefix(s, b \o c)
         /\ IsPrefix(s, b \o c) => IsPrefix(s, b) \/ Undecided(b)
  <1>1. PICK u : u = b \o c OBVIOUS
  <1>2. /\ u \in Seq(Bytes) /\ Len(u) = Len(b) + Len(c)
        /\ Len(b) \in Nat /\ Len(c) \in Nat
        /\ \A i \in 1..Len(b) : u[i] = b[i]
    BY <1>1, BytesJoined
  <1>3. s \in Seq(Bytes) /\ Len(s) \in Nat BY RunAssumption
  <1>4. /\ IsPrefix(s, b) <=> Len(s) <= Len(b) /\ \A i \in 1..Len(s) : s[i] = b[i]
        /\ IsPrefix(b, s) <=> Len(b) <= Len(s) /\ \A i \in 1..Len(b) : b[i] = s[i]
    BY <1>3, BytesBegin
  <1>5. IsPrefix(s, u) <=> Len(s) <= Len(u) /\ \A i \in 1..Len(s) : s[i] = u[i]
    BY <1>2, <1>3, BytesBegin
  <1>6. IsPrefix(s, b) => IsPrefix(s, u)
    <2> SUFFICES ASSUME IsPrefix(s, b) PROVE IsPrefix(s, u) OBVIOUS
    <2>1. \A i \in 1..Len(s) : i \in 1..Len(b) BY <1>2, <1>3, <1>4
    <2>2. \A i \in 1..Len(s) : s[i] = u[i] BY <1>2, <1>4, <2>1
    <2>3. Len(s) <= Len(u) BY <1>2, <1>3, <1>4
    <2> QED BY <1>5, <2>2, <2>3
  <1>7. ASSUME IsPrefix(s, u) PROVE IsPrefix(s, b) \/ Undecided(b)
    <2>1. CASE Len(s) <= Len(b)
      <3>1. \A i \in 1..Len(s) : i \in 1..Len(b) BY <1>2, <1>3, <2>1
      <3> QED BY <1>2, <1>4, <1>5, <1>7, <2>1, <3>1
    <2>2. CASE Len(b) < Len(s)
      <3>1. \A i \in 1..Len(b) : i \in 1..Len(s) BY <1>2, <1>3, <2>2
      <3>2. \A i \in 1..Len(b) : b[i] = s[i] BY <1>2, <1>5, <1>7, <3>1
      <3>3. IsPrefix(b, s) BY <1>2, <1>3, <1>4, <2>2, <3>2
      <3> QED BY <2>2, <3>3 DEF Undecided
    <2> QED BY <1>2, <1>3, <2>1, <2>2
  <1> QED BY <1>1, <1>6, <1>7

\* Of two beginnings one begins with the other.
LEMMA OneSecret ==
  ASSUME PrefixFree, NEW b \in Seq(Bytes), NEW s \in SecretsAt(b), NEW t \in SecretsAt(b)
  PROVE  s = t
  <1>1. /\ s \in Secrets /\ t \in Secrets /\ IsPrefix(s, b) /\ IsPrefix(t, b)
        /\ s \in Seq(Bytes) /\ t \in Seq(Bytes) /\ Len(s) \in Nat /\ Len(t) \in Nat
    BY RunAssumption DEF SecretsAt
  <1>2. /\ \A i \in 1..Len(s) : s[i] = b[i]
        /\ \A i \in 1..Len(t) : t[i] = b[i]
    BY <1>1, BytesBegin
  <1>3. CASE Len(s) <= Len(t)
    <2>1. \A i \in 1..Len(s) : i \in 1..Len(t) BY <1>1, <1>3
    <2>2. IsPrefix(s, t) BY <1>1, <1>2, <1>3, <2>1, BytesBegin
    <2> QED BY <1>1, <2>2 DEF PrefixFree
  <1>4. CASE Len(t) <= Len(s)
    <2>1. \A i \in 1..Len(t) : i \in 1..Len(s) BY <1>1, <1>4
    <2>2. IsPrefix(t, s) BY <1>1, <1>2, <1>4, <2>1, BytesBegin
    <2> QED BY <1>1, <2>2 DEF PrefixFree
  <1> QED BY <1>1, <1>3, <1>4

\* What is decided of a buffer is so whatever comes after it.
LEMMA SameTurn ==
  ASSUME PrefixFree, NEW b \in Seq(Bytes), NEW c \in Seq(Bytes), b # <<>>,
         ~(SecretsAt(b) = {} /\ Undecided(b))
  PROVE  Shown(b \o c) = Shown(b) /\ After(b \o c) = After(b) \o c /\ b \o c # <<>>
  <1>1. PICK u : u = b \o c OBVIOUS
  <1>2. /\ u \in Seq(Bytes) /\ Len(u) = Len(b) + Len(c)
        /\ Len(b) \in Nat /\ Len(c) \in Nat /\ Len(b) > 0
        /\ \A i \in 1..Len(b) : u[i] = b[i]
    <2>1. Len(b) > 0 OBVIOUS
    <2> QED BY <1>1, <2>1, BytesJoined
  <1>3. u # <<>> BY <1>2
  <1>4. CASE SecretsAt(b) # {}
    <2>1. PICK s \in SecretsAt(b) : MatchedLength(b) = Len(s) /\ Len(s) \in 1..Len(b)
      BY <1>4, MatchedIs
    <2>2. s \in SecretsAt(u) BY <1>1, <2>1, SecretsOfMore DEF SecretsAt
    <2>3. PICK t \in SecretsAt(u) : MatchedLength(u) = Len(t) BY <1>2, <2>2, MatchedIs
    <2>4. t = s BY <1>2, <2>2, <2>3, OneSecret
    <2>5. PICK n \in 0..Len(b) : n = Len(s) BY <1>2, <2>1
    <2>6. SubSeq(u, n + 1, Len(u)) = SubSeq(b, n + 1, Len(b)) \o c BY <1>1, BytesCut
    <2>7. After(u) = SubSeq(u, n + 1, Len(u)) BY <2>2, <2>3, <2>4, <2>5 DEF After
    <2>8. After(b) = SubSeq(b, n + 1, Len(b)) BY <1>4, <2>1, <2>5 DEF After
    <2>9. Shown(u) = Mark /\ Shown(b) = Mark BY <1>4, <2>2 DEF Shown
    <2> QED BY <1>1, <1>3, <2>6, <2>7, <2>8, <2>9
  <1>5. CASE SecretsAt(b) = {} /\ ~Undecided(b)
    <2>1. SecretsAt(u) = {} BY <1>1, <1>5, SecretsOfMore DEF SecretsAt
    <2>2. Head(u) = Head(b) BY <1>2, <1>3
    <2>3. Tail(u) = SubSeq(u, 2, Len(u)) /\ Tail(b) = SubSeq(b, 2, Len(b)) BY <1>2, <1>3
    <2>4. SubSeq(u, 1 + 1, Len(u)) = SubSeq(b, 1 + 1, Len(b)) \o c
      <3>1. 1 \in 0..Len(b) BY <1>2
      <3> QED BY <1>1, <3>1, BytesCut
    <2>5. 1 + 1 = 2 OBVIOUS
    <2>6. Tail(u) = Tail(b) \o c BY <2>3, <2>4, <2>5
    <2> QED BY <1>1, <1>3, <1>5, <2>1, <2>2, <2>6 DEF Shown, After
  <1> QED BY <1>4, <1>5

\* However the input is split, the output is that of the whole.
LEMMA RedactionSplits ==
  ASSUME PrefixFree, NEW b \in Seq(Bytes), NEW c \in Seq(Bytes)
  PROVE  Everything(b \o c) = SentOf(b) \o Everything(LeftOf(b) \o c)
  <1> DEFINE Splits(a) == Everything(a \o c) = SentOf(a) \o Everything(LeftOf(a) \o c)
             T == {Len(a) : a \in {d \in Seq(Bytes) : ~Splits(d)}}
  <1>1. SUFFICES ASSUME T # {} PROVE FALSE OBVIOUS
  <1>2. T \in SUBSET Nat OBVIOUS
  <1>3. PICK m \in T : \A l \in T : m <= l
    <2> HIDE DEF T
    <2> QED BY <1>1, <1>2, Least
  <1>4. PICK a \in Seq(Bytes) : m = Len(a) /\ ~Splits(a) OBVIOUS
  <1>5. CASE a = <<>> \/ (SecretsAt(a) = {} /\ Undecided(a))
    <2>1. SentOf(a) = <<>> /\ LeftOf(a) = a BY <1>5, SentIs
    <2>2. PICK all : all = Everything(a \o c) OBVIOUS
    <2>3. all \in Seq(Shows)
      <3>1. a \o c \in Seq(Bytes) OBVIOUS
      <3> QED BY <2>2, <3>1, EverythingIs
    <2>4. <<>> \o all = all BY <2>3
    <2> QED BY <1>4, <2>1, <2>2, <2>4
  <1>6. CASE a # <<>> /\ ~(SecretsAt(a) = {} /\ Undecided(a))
    <2>1. /\ After(a) \in Seq(Bytes) /\ Len(After(a)) < Len(a)
          /\ Len(a) \in Nat /\ Len(After(a)) \in Nat
      BY <1>6, TurnsEnd
    <2>2. Len(After(a)) \notin T
      <3> HIDE DEF T, Splits
      <3> QED BY <1>3, <1>4, <2>1
    <2>3. Splits(After(a)) BY <2>1, <2>2
    <2>4. PICK shown : shown = Shown(a) /\ shown \in Shows BY <1>6, TurnsEnd
    <2>5. PICK rest \in Seq(Bytes) : rest = After(a) BY <2>1
    <2>6. Shown(a \o c) = shown /\ After(a \o c) = rest \o c /\ a \o c # <<>>
      BY <1>6, <2>4, <2>5, SameTurn
    <2>7. a \o c \in Seq(Bytes) /\ rest \o c \in Seq(Bytes) OBVIOUS
    <2>8. Everything(a \o c) = <<shown>> \o Everything(rest \o c) BY <2>6, <2>7, EverythingIs
    <2>9. SentOf(a) = <<shown>> \o SentOf(rest) /\ LeftOf(a) = LeftOf(rest) BY <1>6, <2>4, <2>5, SentIs
    <2>10. PICK x : x = SentOf(rest) OBVIOUS
    <2>11. PICK y : y = Everything(LeftOf(rest) \o c) OBVIOUS
    <2>12. x \in Seq(Shows) /\ LeftOf(rest) \in Seq(Bytes) BY <2>10, SentIs
    <2>13. y \in Seq(Shows)
      <3>1. LeftOf(rest) \o c \in Seq(Bytes) BY <2>12
      <3> QED BY <2>11, <3>1, EverythingIs
    <2>14. Everything(rest \o c) = x \o y BY <2>3, <2>5, <2>10, <2>11
    <2>15. <<shown>> \o (x \o y) = (<<shown>> \o x) \o y
      <3> HIDE DEF T, Splits
      <3>1. PICK w \in Seq(Shows) : w = <<shown>>
        <4>1. <<shown>> \in Seq(Shows) BY <2>4
        <4> QED BY <4>1
      <3>2. Joint(w, Joint(x, y)) = Joint(Joint(w, x), y) BY <2>12, <2>13, BytesAssociate
      <3> QED BY <3>1, <3>2 DEF Joint
    <2> QED BY <1>4, <2>8, <2>9, <2>10, <2>11, <2>14, <2>15
  <1> QED BY <1>5, <1>6

\* As many cells on each channel as w says: their number is the sum of w.
Cells(left, w) == UNION {{ch} \X (1..w[ch]) : ch \in left}

LEMMA CellsFinite ==
  ASSUME NEW left \in SUBSET Channels, NEW w \in [Channels -> Nat]
  PROVE  IsFiniteSet(Cells(left, w)) /\ Cardinality(Cells(left, w)) \in Nat
  <1>1. PICK S : S = {{ch} \X (1..w[ch]) : ch \in left} OBVIOUS
  <1>2. IsFiniteSet(left) BY RunAssumption, FS_Subset
  <1>3. PICK f : f = [ch \in left |-> {ch} \X (1..w[ch])] OBVIOUS
  <1>4. f \in Surjection(left, S) BY <1>1, <1>3 DEF Surjection
  <1>5. IsFiniteSet(S) BY <1>2, <1>4, FS_Surjection
  <1>6. ASSUME NEW T \in S PROVE IsFiniteSet(T)
    <2>1. PICK ch \in left : T = {ch} \X (1..w[ch]) BY <1>1
    <2>2. IsFiniteSet({ch}) BY FS_Singleton
    <2>3. IsFiniteSet(1..w[ch])
      <3>1. w[ch] \in Int OBVIOUS
      <3> QED BY <3>1, FS_Interval
    <2> QED BY <2>1, <2>2, <2>3, FS_Product
  <1>7. IsFiniteSet(UNION S) BY <1>5, <1>6, FS_UNION
  <1>8. Cells(left, w) = UNION S BY <1>1 DEF Cells
  <1> QED BY <1>7, <1>8, FS_CardinalityType

\* Those of one channel and those of the others.
LEMMA CellsSplit ==
  ASSUME NEW left \in SUBSET Channels, NEW w \in [Channels -> Nat], NEW ch \in left
  PROVE  Cardinality(Cells(left, w)) = w[ch] + Cardinality(Cells(left \ {ch}, w))
  <1>1. PICK A : A = {ch} \X (1..w[ch]) OBVIOUS
  <1>2. PICK B : B = Cells(left \ {ch}, w) OBVIOUS
  <1>3. Cells(left, w) = A \union B BY <1>1, <1>2 DEF Cells
  <1>4. A \intersect B = {} BY <1>1, <1>2 DEF Cells
  <1>5. IsFiniteSet(A) /\ Cardinality(A) = w[ch]
    <2>1. IsFiniteSet({ch}) /\ Cardinality({ch}) = 1 BY FS_Singleton
    <2>2. IsFiniteSet(1..w[ch]) /\ Cardinality(1..w[ch]) = w[ch]
      <3>1. w[ch] \in Nat OBVIOUS
      <3> QED BY <3>1, FS_Interval
    <2>3. IsFiniteSet(A) /\ Cardinality(A) = Cardinality({ch}) * Cardinality(1..w[ch])
      BY <1>1, <2>1, <2>2, FS_Product
    <2>4. w[ch] \in Nat OBVIOUS
    <2> QED BY <2>1, <2>2, <2>3, <2>4
  <1>6. IsFiniteSet(B) /\ Cardinality(B) \in Nat
    <2>1. left \ {ch} \in SUBSET Channels OBVIOUS
    <2> QED BY <1>2, <2>1, CellsFinite
  <1>7. Cardinality(A \union B) = Cardinality(A) + Cardinality(B) - Cardinality(A \intersect B)
    BY <1>5, <1>6, FS_Union
  <1>8. Cardinality(A \intersect B) = 0 BY <1>4, FS_EmptySet
  <1>9. w[ch] \in Nat OBVIOUS
  <1> QED BY <1>2, <1>3, <1>5, <1>6, <1>7, <1>8, <1>9

LEMMA CellsSame ==
  ASSUME NEW left, NEW w, NEW v, \A ch \in left : w[ch] = v[ch]
  PROVE  Cells(left, w) = Cells(left, v)
  BY DEF Cells

\* The bytes of all channels.
LEMMA TotalIs ==
  ASSUME NEW bytes, NEW w \in [Channels -> Nat], \A ch \in Channels : w[ch] = Len(bytes[ch])
  PROVE  Total(bytes) = Cardinality(Cells(Channels, w))
  <1> DEFINE Body(d) == [left \in SUBSET Channels |->
               IF left = {} THEN 0
               ELSE LET ch == CHOOSE x \in left : TRUE
                    IN Len(bytes[ch]) + d[left \ {ch}]]
             h == [left \in SUBSET Channels |-> Cardinality(Cells(left, w))]
             Pick(left) == CHOOSE x \in left : TRUE
  <1>1. \A d : \A left \in SUBSET Channels :
          Body(d)[left] = IF left = {} THEN 0
                          ELSE w[Pick(left)] + d[left \ {Pick(left)}]
    OBVIOUS
  <1>2. \A d : Body(d) = [left \in SUBSET Channels |-> Body(d)[left]] OBVIOUS
  <1>3. PICK j : j = CHOOSE d : d = Body(d) OBVIOUS
  <1>4. Total(bytes) = j[Channels] BY <1>3 DEF Total
  <1> HIDE DEF Body
  <1>5. \A left \in SUBSET Channels :
          left # {} => Pick(left) \in left /\ left \ {Pick(left)} \in SUBSET Channels
    OBVIOUS
  <1> HIDE DEF Pick
  <1>6. \A left \in SUBSET Channels : h[left] = Body(h)[left]
    <2> SUFFICES ASSUME NEW left \in SUBSET Channels PROVE h[left] = Body(h)[left] OBVIOUS
    <2>1. CASE left = {}
      <3>1. Cells({}, w) = {} BY DEF Cells
      <3>2. h[left] = 0 BY <2>1, <3>1, FS_EmptySet
      <3> QED BY <1>1, <2>1, <3>2
    <2>2. CASE left # {}
      <3>1. Pick(left) \in left /\ left \ {Pick(left)} \in SUBSET Channels BY <1>5, <2>2
      <3>2. h[left] = w[Pick(left)] + h[left \ {Pick(left)}] BY <3>1, CellsSplit
      <3> HIDE DEF h
      <3> QED BY <1>1, <2>2, <3>2
    <2> QED BY <2>1, <2>2
  <1>7. h = Body(h)
    <2>1. h = [left \in SUBSET Channels |-> h[left]] OBVIOUS
    <2> HIDE DEF h
    <2>2. [left \in SUBSET Channels |-> h[left]] = [left \in SUBSET Channels |-> Body(h)[left]]
      BY <1>6
    <2> QED BY <1>2, <2>1, <2>2
  <1>8. j = Body(j)
    <2> HIDE DEF h
    <2> QED BY <1>3, <1>7
  <1>9. \A left \in SUBSET Channels : j[left] = h[left]
    <2> DEFINE T == {Cardinality(left) : left \in {l \in SUBSET Channels : j[l] # h[l]}}
    <2>1. SUFFICES ASSUME T # {} PROVE FALSE OBVIOUS
    <2>2. \A left \in SUBSET Channels : IsFiniteSet(left) /\ Cardinality(left) \in Nat
      BY RunAssumption, FS_Subset, FS_CardinalityType
    <2>3. T \in SUBSET Nat BY <2>2
    <2>4. PICK m \in T : \A l \in T : m <= l
      <3> HIDE DEF T
      <3> QED BY <2>1, <2>3, Least
    <2>5. PICK left \in SUBSET Channels : m = Cardinality(left) /\ j[left] # h[left]
      <3> HIDE DEF h
      <3> QED OBVIOUS
    <2> HIDE DEF h
    <2>6. CASE left = {} BY <1>1, <1>6, <1>8, <2>5, <2>6
    <2>7. CASE left # {}
      <3>1. PICK ch, less : ch = Pick(left) /\ less = left \ {ch} OBVIOUS
      <3>2. ch \in left /\ less \in SUBSET Channels BY <1>5, <2>7, <3>1
      <3>3. Cardinality(less) = m - 1 /\ m \in Nat /\ Cardinality(less) \in Nat
        BY <2>2, <2>5, <3>1, <3>2, FS_RemoveElement
      <3>4. Cardinality(less) \notin T
        <4> HIDE DEF T
        <4> QED BY <2>4, <3>3
      <3>5. j[less] = h[less] BY <3>2, <3>4
      <3>6. j[left] = w[ch] + j[less] BY <1>1, <1>8, <2>7, <3>1
      <3>7. h[left] = w[ch] + h[less] BY <1>1, <1>6, <2>7, <3>1
      <3> QED BY <2>5, <3>5, <3>6, <3>7
    <2> QED BY <2>6, <2>7
  <1>10. j[Channels] = h[Channels] /\ h[Channels] = Cardinality(Cells(Channels, w)) BY <1>9
  <1> QED BY <1>4, <1>10

\* What more on one channel adds to it.
LEMMA TotalGrows ==
  ASSUME NEW t \in [Channels -> Seq(Bytes)], NEW ch \in Channels, NEW more \in Seq(Bytes)
  PROVE  /\ Total(t) \in Nat
         /\ Total([t EXCEPT ![ch] = @ \o more]) = Total(t) + Len(more)
  <1>1. PICK u : u = [t EXCEPT ![ch] = @ \o more] OBVIOUS
  <1>2. PICK w : w = [o \in Channels |-> Len(t[o])] OBVIOUS
  <1>3. PICK v : v = [o \in Channels |-> Len(u[o])] OBVIOUS
  <1>4. w \in [Channels -> Nat] BY <1>2
  <1>5. \A o \in Channels : u[o] = IF o = ch THEN t[ch] \o more ELSE t[o] BY <1>1
  <1>6. t[ch] \in Seq(Bytes) /\ t[ch] \o more \in Seq(Bytes)
        /\ Len(t[ch] \o more) = Len(t[ch]) + Len(more)
    <2>1. t[ch] \in Seq(Bytes) OBVIOUS
    <2> QED BY <2>1, BytesJoined
  <1>7. \A o \in Channels : u[o] \in Seq(Bytes) BY <1>5, <1>6
  <1>8. v \in [Channels -> Nat] BY <1>3, <1>7
  <1>9. Total(t) = Cardinality(Cells(Channels, w)) BY <1>2, <1>4, TotalIs
  <1>10. Total(u) = Cardinality(Cells(Channels, v)) BY <1>3, <1>8, TotalIs
  <1>11. PICK k : k = Cardinality(Cells(Channels \ {ch}, w)) OBVIOUS
  <1>12. Cells(Channels \ {ch}, v) = Cells(Channels \ {ch}, w)
    <2>1. \A o \in Channels \ {ch} : v[o] = w[o] BY <1>2, <1>3, <1>5
    <2> QED BY <2>1, CellsSame
  <1>13. k \in Nat
    <2>1. Channels \ {ch} \in SUBSET Channels OBVIOUS
    <2> QED BY <1>4, <1>11, <2>1, CellsFinite
  <1>14. Cardinality(Cells(Channels, w)) = w[ch] + k BY <1>4, <1>11, CellsSplit
  <1>15. Cardinality(Cells(Channels, v)) = v[ch] + k BY <1>8, <1>11, <1>12, CellsSplit
  <1>16. w[ch] = Len(t[ch]) /\ v[ch] = Len(t[ch]) + Len(more) /\ w[ch] \in Nat /\ v[ch] \in Nat
    BY <1>2, <1>3, <1>4, <1>5, <1>6, <1>8
  <1>17. Len(more) \in Nat /\ Len(t[ch]) \in Nat OBVIOUS
  <1> QED BY <1>1, <1>9, <1>10, <1>13, <1>14, <1>15, <1>16, <1>17

LEMMA TotalOfNone == Total(NoBytes) = 0
  <1>1. PICK w : w = [ch \in Channels |-> 0] OBVIOUS
  <1>2. w \in [Channels -> Nat] /\ \A ch \in Channels : w[ch] = Len(NoBytes[ch])
    BY <1>1 DEF NoBytes
  <1>3. Cells(Channels, w) = {} BY <1>1 DEF Cells
  <1> QED BY <1>2, <1>3, TotalIs, FS_EmptySet

\* The lesser of two numbers.
LEMMA LesserOfTwo ==
  ASSUME NEW n \in Int, NEW m \in Int
  PROVE  Min({n, m}) = IF n <= m THEN n ELSE m
  <1>1. PICK k : k = IF n <= m THEN n ELSE m OBVIOUS
  <1>2. k \in {n, m} /\ \A y \in {n, m} : k <= y BY <1>1
  <1>3. \A x \in {n, m} : (\A y \in {n, m} : x <= y) => x = k BY <1>1
  <1>4. (CHOOSE x \in {n, m} : \A y \in {n, m} : x <= y) = k BY <1>2, <1>3
  <1> QED BY <1>1, <1>4 DEF Min

\* A sequence in two.
LEMMA BytesSplit ==
  ASSUME NEW S, NEW p \in Seq(S), NEW n \in 0..Len(p)
  PROVE  /\ SubSeq(p, 1, n) \in Seq(S) /\ Len(SubSeq(p, 1, n)) = n
         /\ SubSeq(p, n + 1, Len(p)) \in Seq(S)
         /\ SubSeq(p, 1, n) \o SubSeq(p, n + 1, Len(p)) = p
  <1>1. PICK a : a = SubSeq(p, 1, n) OBVIOUS
  <1>2. PICK c : c = SubSeq(p, n + 1, Len(p)) OBVIOUS
  <1>3. a \in Seq(S) /\ Len(a) = n /\ \A i \in 1..n : a[i] = p[i] BY <1>1
  <1>4. c \in Seq(S) /\ Len(c) = Len(p) - n /\ \A i \in 1..(Len(p) - n) : c[i] = p[n + i] BY <1>2
  <1>5. PICK u : u = a \o c OBVIOUS
  <1>6. /\ u \in Seq(S) /\ Len(u) = Len(a) + Len(c)
        /\ \A i \in 1..Len(a) : u[i] = a[i]
        /\ \A i \in 1..Len(c) : u[Len(a) + i] = c[i]
    BY <1>3, <1>4, <1>5, BytesJoined
  <1>7. Len(u) = Len(p) /\ Len(p) \in Nat /\ n \in Nat BY <1>3, <1>4, <1>6
  <1>8. ASSUME NEW i \in 1..Len(u) PROVE u[i] = p[i]
    <2>1. CASE i <= n BY <1>3, <1>6, <1>7, <2>1
    <2>2. CASE i > n
      <3>1. PICK k \in 1..(Len(p) - n) : i = n + k
        <4>1. i - n \in 1..(Len(p) - n) /\ i = n + (i - n) BY <1>7, <2>2
        <4> QED BY <4>1
      <3> QED BY <1>3, <1>4, <1>6, <3>1
    <2> QED BY <1>7, <2>1, <2>2
  <1>9. u = p BY <1>6, <1>7, <1>8, SeqEqual
  <1> QED BY <1>1, <1>2, <1>3, <1>4, <1>5, <1>9

\* e is what is due of the input t as long as r is in the buffer, whatever else comes.
Redacts(t, e, r) == \A c \in Seq(Bytes) : Everything(t \o c) = e \o Everything(r \o c)

LEMMA RedactsNone == Redacts(<<>>, <<>>, <<>>)
  <1> SUFFICES ASSUME NEW c \in Seq(Bytes)
               PROVE  Everything(<<>> \o c) = <<>> \o Everything(<<>> \o c)
    BY DEF Redacts
  <1>1. <<>> \o c = c OBVIOUS
  <1>2. PICK all \in Seq(Shows) : all = Everything(c) BY EverythingIs
  <1>3. <<>> \o all = all OBVIOUS
  <1> QED BY <1>1, <1>2, <1>3

LEMMA RedactsMore ==
  ASSUME PrefixFree, NEW t \in Seq(Bytes), NEW e \in Seq(Shows), NEW r \in Seq(Bytes),
         NEW a \in Seq(Bytes), Redacts(t, e, r)
  PROVE  Redacts(t \o a, e \o SentOf(r \o a), LeftOf(r \o a))
  <1> SUFFICES ASSUME NEW c \in Seq(Bytes)
               PROVE  Everything((t \o a) \o c) = (e \o SentOf(r \o a)) \o Everything(LeftOf(r \o a) \o c)
    BY DEF Redacts
  <1>1. PICK ac \in Seq(Bytes) : ac = a \o c BY BytesJoined
  <1>2. PICK ra \in Seq(Bytes) : ra = r \o a BY BytesJoined
  <1>3. (t \o a) \o c = t \o ac
    <2>1. Joint(t, Joint(a, c)) = Joint(Joint(t, a), c) BY BytesAssociate
    <2> QED BY <1>1, <2>1 DEF Joint
  <1>4. r \o ac = ra \o c
    <2>1. Joint(r, Joint(a, c)) = Joint(Joint(r, a), c) BY BytesAssociate
    <2> QED BY <1>1, <1>2, <2>1 DEF Joint
  <1>5. Everything(t \o ac) = e \o Everything(r \o ac) BY DEF Redacts
  <1>6. Everything(ra \o c) = SentOf(ra) \o Everything(LeftOf(ra) \o c) BY RedactionSplits
  <1>7. PICK s \in Seq(Shows) : s = SentOf(ra) BY SentIs
  <1>8. PICK y \in Seq(Shows) : y = Everything(LeftOf(ra) \o c)
    <2>1. LeftOf(ra) \in Seq(Bytes) BY SentIs
    <2>2. LeftOf(ra) \o c \in Seq(Bytes) BY <2>1
    <2> QED BY <2>2, EverythingIs
  <1>9. e \o (s \o y) = (e \o s) \o y
    <2>1. Joint(e, Joint(s, y)) = Joint(Joint(e, s), y) BY <1>7, <1>8, BytesAssociate
    <2> QED BY <2>1 DEF Joint
  <1> QED BY <1>2, <1>3, <1>4, <1>5, <1>6, <1>7, <1>8, <1>9

LEMMA RedactsAll ==
  ASSUME NEW t \in Seq(Bytes), NEW e, NEW r \in Seq(Bytes), Redacts(t, e, r)
  PROVE  Everything(t) = e \o Everything(r)
  <1>1. <<>> \in Seq(Bytes) /\ t \o <<>> = t /\ r \o <<>> = r OBVIOUS
  <1>2. Everything(t \o <<>>) = e \o Everything(r \o <<>>) BY <1>1 DEF Redacts
  <1> QED BY <1>1, <1>2

-----------------------------------------------------------------------------
(* ContainerRun: what is true of an execution at every moment               *)

RunTypes ==
  /\ box \in {"running", "stopped"} /\ cli \in {"live", "exit", "signal"}
  /\ pipe \in [Channels -> Seq(Bytes)] /\ wrote \in [Channels -> Seq(Bytes)]
  /\ taken \in [Channels -> Seq(Bytes)] /\ retained \in [Channels -> Seq(Bytes)]
  /\ emitted \in [Channels -> Seq(Shows)]
  /\ reader \in [Channels -> {"reading", "emitting", "done", "failed"}]
  /\ truncated \in BOOLEAN /\ finished \in BOOLEAN
  /\ run \in [at : {"watching", "killing", "joining", "returned", "raised"},
              reason : {"none", "timed_out", "cancelled", "output_limit", "output_failure",
                        "exited", "runtime_failure"}]

InBudget == Total(taken) <= MaxBytes

\* Whoever awaits the sink holds the lock, alone.
OneEmission ==
  \/ emission = NoEmission /\ \A ch \in Channels : reader[ch] # "emitting"
  \/ \E to :
       /\ emission.to = {to} /\ emission.bytes \in Seq(Shows)
       /\ to.channel \in Channels /\ to.cut \in BOOLEAN /\ (truncated => to.cut)
       /\ \A ch \in Channels : reader[ch] = "emitting" <=> ch = to.channel

\* The result is made of what was joined.
RunEnds ==
  /\ cli = "exit" => box = "stopped"
  /\ run.at \in {"joining", "returned"} => box = "stopped"
  /\ finished => run.at \in {"returned", "raised"}
  /\ run.at = "returned" => finished

ReadToTheEnd ==
  \A ch \in Channels : reader[ch] = "done" => truncated \/ (cli # "live" /\ pipe[ch] = <<>>)

\* The reader of ch is about to find the limit reached.
CutAt(ch) == \E to \in emission.to : to.cut /\ to.channel = ch

NothingLost ==
  \A ch \in Channels :
    ~truncated /\ reader[ch] # "failed" /\ ~CutAt(ch) => wrote[ch] = taken[ch] \o pipe[ch]

\* What the sink is being given.
Given(ch) == IF reader[ch] = "emitting" THEN emission.bytes ELSE <<>>

AllRedacted ==
  PrefixFree /\ ~finished =>
    \A ch \in Channels :
      reader[ch] # "failed" => Redacts(taken[ch], emitted[ch] \o Given(ch), retained[ch])

AllReturned ==
  run.at = "returned" =>
    \/ SomeReaderFailed
    \/ \A ch \in Channels :
         /\ reader[ch] = "done"
         /\ PrefixFree => emitted[ch] = Everything(taken[ch])

RunInv ==
  /\ RunTypes /\ InBudget /\ OneEmission /\ RunEnds
  /\ ReadToTheEnd /\ NothingLost /\ AllRedacted /\ AllReturned

\* The invariant is more than what is promised.
LEMMA RunInvSuffices == RunInv => OutputAccounted
  <1> SUFFICES ASSUME RunInv PROVE OutputAccounted OBVIOUS
  <1>1. ASSUME run.at = "returned", ~SomeReaderFailed, NEW ch \in Channels
        PROVE  /\ PrefixFree => emitted[ch] = Drain(taken[ch], TRUE).out
               /\ run.reason = "exited" /\ ~truncated => taken[ch] = wrote[ch]
    <2>1. /\ \A o \in Channels : reader[o] = "done"
          /\ PrefixFree => emitted[ch] = Everything(taken[ch])
      BY <1>1 DEF RunInv, AllReturned
    <2>2. ASSUME ~truncated PROVE taken[ch] = wrote[ch]
      <3>1. pipe[ch] = <<>> BY <2>1, <2>2 DEF RunInv, ReadToTheEnd
      <3>2. emission.to = {}
        <4>1. \A to : emission.to = {to} /\ to.channel \in Channels => reader[to.channel] = "done"
          BY <2>1
        <4> QED BY <4>1 DEF RunInv, OneEmission, NoEmission
      <3>3. ~CutAt(ch) BY <3>2 DEF CutAt
      <3>4. wrote[ch] = taken[ch] \o <<>> BY <2>1, <2>2, <3>1, <3>3 DEF RunInv, NothingLost
      <3>5. taken[ch] \in Seq(Bytes) BY DEF RunInv, RunTypes
      <3> QED BY <3>4, <3>5
    <2> QED BY <2>1, <2>2 DEF Everything
  <1> QED BY <1>1 DEF OutputAccounted, RunInv, InBudget, RunEnds

LEMMA RunStart == RunInit => RunInv
  <1> SUFFICES ASSUME RunInit PROVE RunInv OBVIOUS
  <1>1. NoBytes \in [Channels -> Seq(Bytes)] /\ NoBytes \in [Channels -> Seq(Shows)]
    BY DEF NoBytes
  <1>2. RunTypes BY <1>1 DEF RunInit, RunTypes
  <1>3. InBudget BY TotalOfNone, RunAssumption DEF RunInit, InBudget
  <1>4. OneEmission BY DEF RunInit, OneEmission
  <1>5. RunEnds BY DEF RunInit, RunEnds
  <1>6. ReadToTheEnd BY DEF RunInit, ReadToTheEnd
  <1>7. NothingLost
    <2>1. \A ch \in Channels : NoBytes[ch] = NoBytes[ch] \o NoBytes[ch] BY DEF NoBytes
    <2> QED BY <2>1 DEF RunInit, NothingLost
  <1>8. AllRedacted
    <2>1. <<>> \o <<>> = <<>> OBVIOUS
    <2>2. \A ch \in Channels : NoBytes[ch] = <<>> BY DEF NoBytes
    <2>3. \A ch \in Channels : Given(ch) = <<>> BY DEF RunInit, Given
    <2> QED BY <2>1, <2>2, <2>3, RedactsNone DEF RunInit, AllRedacted
  <1>9. AllReturned BY DEF RunInit, AllReturned
  <1> QED BY <1>2, <1>3, <1>4, <1>5, <1>6, <1>7, <1>8, <1>9 DEF RunInv

\* A step that leaves the readers and the streamer alone.
LEMMA OutputSame ==
  ASSUME RunInv, UNCHANGED outputVars
  PROVE  /\ InBudget' /\ OneEmission' /\ AllRedacted'
         /\ SomeReaderFailed' <=> SomeReaderFailed
         /\ \A ch \in Channels : CutAt(ch)' <=> CutAt(ch)
         /\ run.at' # "returned" \/ run.at = "returned" => AllReturned'
  <1>1. /\ reader' = reader /\ taken' = taken /\ retained' = retained /\ emission' = emission
        /\ emitted' = emitted /\ truncated' = truncated /\ finished' = finished
    BY DEF outputVars
  <1>2. InBudget' BY <1>1 DEF RunInv, InBudget
  <1>3. OneEmission' BY <1>1 DEF RunInv, OneEmission
  <1>4. AllRedacted' BY <1>1 DEF RunInv, AllRedacted, Given
  <1>5. SomeReaderFailed' <=> SomeReaderFailed BY <1>1 DEF SomeReaderFailed
  <1>6. \A ch \in Channels : CutAt(ch)' <=> CutAt(ch) BY <1>1 DEF CutAt
  <1>7. run.at' # "returned" \/ run.at = "returned" => AllReturned'
    BY <1>1 DEF RunInv, AllReturned, SomeReaderFailed
  <1> QED BY <1>2, <1>3, <1>4, <1>5, <1>6, <1>7

LEMMA WritesKeep ==
  ASSUME RunInv, NEW ch \in Channels, NEW byte \in Bytes, ContainerWrites(ch, byte)
  PROVE  RunInv'
  <1>1. /\ cli = "live" /\ UNCHANGED <<box, cli, run>> /\ UNCHANGED outputVars
        /\ pipe' = [pipe EXCEPT ![ch] = Append(@, byte)]
        /\ wrote' = [wrote EXCEPT ![ch] = Append(@, byte)]
    BY DEF ContainerWrites
  <1>2. UNCHANGED <<reader, taken, retained, emission, emitted, truncated, finished>>
    BY <1>1 DEF outputVars
  <1>3. RunTypes BY DEF RunInv
  <1>4. /\ InBudget' /\ OneEmission' /\ AllRedacted' /\ AllReturned'
        /\ \A o \in Channels : CutAt(o)' <=> CutAt(o)
    BY <1>1, OutputSame
  <1>5. \A o \in Channels :
          /\ pipe'[o] = IF o = ch THEN Append(pipe[o], byte) ELSE pipe[o]
          /\ wrote'[o] = IF o = ch THEN Append(wrote[o], byte) ELSE wrote[o]
    BY <1>1, <1>3 DEF RunTypes
  <1>6. RunTypes' BY <1>1, <1>2, <1>3 DEF RunTypes
  <1>7. RunEnds' BY <1>1, <1>2 DEF RunInv, RunEnds
  <1>8. ReadToTheEnd' BY <1>1, <1>2 DEF RunInv, ReadToTheEnd
  <1>9. NothingLost'
    <2> SUFFICES ASSUME NEW o \in Channels,
                        ~truncated' /\ reader'[o] # "failed" /\ ~CutAt(o)'
                 PROVE  wrote'[o] = taken'[o] \o pipe'[o]
      BY DEF NothingLost
    <2>1. wrote[o] = taken[o] \o pipe[o] BY <1>2, <1>4 DEF RunInv, NothingLost
    <2>2. CASE o # ch BY <1>2, <1>5, <2>1, <2>2
    <2>3. CASE o = ch
      <3>1. PICK t \in Seq(Bytes), p \in Seq(Bytes) : t = taken[ch] /\ p = pipe[ch]
        BY <1>3 DEF RunTypes
      <3>2. Append(t \o p, byte) = t \o Append(p, byte) OBVIOUS
      <3> QED BY <1>2, <1>5, <2>1, <2>3, <3>1, <3>2
    <2> QED BY <2>2, <2>3
  <1> QED BY <1>4, <1>6, <1>7, <1>8, <1>9 DEF RunInv

\* The container, its CLI, the caller who cancels, and execute() until it joins.
LEMMA OutsideKeeps ==
  ASSUME RunInv,
         ContainerExits \/ CliEnds \/ AskToStop \/ DecideEnd \/ Kill \/ KillFails
  PROVE  RunInv'
  <1>1. UNCHANGED outputVars /\ UNCHANGED <<pipe, wrote>>
    BY DEF ContainerExits, CliEnds, AskToStop, DecideEnd, Kill, KillFails
  <1>2. UNCHANGED <<reader, taken, retained, emission, emitted, truncated, finished>>
    BY <1>1 DEF outputVars
  <1>3. RunTypes /\ RunEnds BY DEF RunInv
  <1>4. /\ box' \in {"running", "stopped"} /\ (box = "stopped" => box' = "stopped")
        /\ cli' \in {"live", "exit", "signal"} /\ (cli # "live" => cli' = cli)
        /\ cli' = "exit" => box' = "stopped"
        /\ box' = "stopped" \/ UNCHANGED box
    BY <1>3 DEF RunTypes, RunEnds, ContainerExits, CliEnds, AskToStop, DecideEnd, Kill, KillFails
  <1>5. /\ run' \in [at : {"watching", "killing", "joining", "returned", "raised"},
                     reason : {"none", "timed_out", "cancelled", "output_limit", "output_failure",
                               "exited", "runtime_failure"}]
        /\ run'.at \in {"joining", "returned"} => box' = "stopped"
        /\ run'.at = "returned" => run.at = "returned"
        /\ run.at \in {"returned", "raised"} => run' = run
    <2>1. CASE ContainerExits \/ CliEnds \/ AskToStop
      <3>1. run' = run BY <2>1 DEF ContainerExits, CliEnds, AskToStop
      <3> QED BY <1>3, <1>4, <3>1 DEF RunTypes, RunEnds
    <2>2. CASE DecideEnd
      <3>1. PICK done \in SUBSET Happened :
              run' = [at |-> IF Reason(done) = "exited" THEN "joining" ELSE "killing",
                      reason |-> Reason(done)]
        BY <2>2 DEF DecideEnd
      <3>2. Reason(done) \in {"none", "timed_out", "cancelled", "output_limit", "output_failure",
                              "exited", "runtime_failure"}
        BY DEF Reason, ExitReason
      <3>3. Reason(done) = "exited" => cli = "exit" BY DEF Reason, ExitReason
      <3>4. PICK why : why = Reason(done) OBVIOUS
      <3>5. run'.at = (IF why = "exited" THEN "joining" ELSE "killing") /\ run'.reason = why
        BY <3>1, <3>4
      <3>6. run.at = "watching" BY <2>2 DEF DecideEnd
      <3> QED BY <1>3, <1>4, <3>1, <3>2, <3>3, <3>4, <3>5, <3>6 DEF RunEnds
    <2>3. CASE Kill
      <3>1. run.at = "killing" /\ box' = "stopped" /\ run' = [run EXCEPT !.at = "joining"]
        BY <2>3 DEF Kill
      <3> QED BY <1>3, <3>1 DEF RunTypes
    <2>4. CASE KillFails
      <3>1. run.at = "killing" /\ run' = [run EXCEPT !.at = "raised"]
        BY <2>4 DEF KillFails
      <3> QED BY <1>3, <3>1 DEF RunTypes
    <2> QED BY <2>1, <2>2, <2>3, <2>4
  <1>6. /\ InBudget' /\ OneEmission' /\ AllRedacted' /\ AllReturned'
        /\ \A o \in Channels : CutAt(o)' <=> CutAt(o)
    BY <1>1, <1>5, OutputSame
  <1>7. RunTypes' BY <1>1, <1>2, <1>3, <1>4, <1>5 DEF RunTypes
  <1>8. RunEnds' BY <1>2, <1>3, <1>4, <1>5 DEF RunEnds
  <1>9. ReadToTheEnd' BY <1>1, <1>2, <1>4 DEF RunInv, ReadToTheEnd
  <1>10. NothingLost' BY <1>1, <1>2, <1>6 DEF RunInv, NothingLost
  <1> QED BY <1>6, <1>7, <1>8, <1>9, <1>10 DEF RunInv

\* A read of n bytes, of which the budget leaves as many as acc has.
LEMMA FeedIs ==
  ASSUME RunInv, NEW ch \in Channels, Feed(ch), ~finished
  PROVE  \E n \in 1..Len(pipe[ch]), acc \in Seq(Bytes), cut \in BOOLEAN :
           /\ Len(acc) <= MaxBytes - Total(taken)
           /\ ~cut => acc = SubSeq(pipe[ch], 1, n)
           /\ truncated => cut
           /\ pipe' = [pipe EXCEPT ![ch] = SubSeq(@, n + 1, Len(@))]
           /\ taken' = [taken EXCEPT ![ch] = @ \o acc]
           /\ retained' = [retained EXCEPT ![ch] = LeftOf(retained[ch] \o acc)]
           /\ \/ /\ SentOf(retained[ch] \o acc) = <<>> /\ emission' = emission
                 /\ reader' = [reader EXCEPT ![ch] = AfterFeed(cut)]
                 /\ truncated' = cut
              \/ /\ truncated' = truncated
                 /\ reader' = [reader EXCEPT ![ch] = "emitting"]
                 /\ emission' = [to |-> {[channel |-> ch, cut |-> cut]},
                                 bytes |-> SentOf(retained[ch] \o acc)]
  <1>1. PICK n \in 1..Len(pipe[ch]) :
          LET data == SubSeq(pipe[ch], 1, n)
              accepted == SubSeq(data, 1, Min({n, RoomLeft(ch)}))
              drained == Drain(retained[ch] \o accepted, FALSE)
              cut == truncated \/ n > RoomLeft(ch)
          IN /\ pipe' = [pipe EXCEPT ![ch] = SubSeq(@, n + 1, Len(@))]
             /\ taken' = [taken EXCEPT ![ch] = @ \o accepted]
             /\ retained' = [retained EXCEPT ![ch] = drained.rest]
             /\ IF drained.out = <<>>
                  THEN /\ reader' = [reader EXCEPT ![ch] = AfterFeed(cut)]
                       /\ truncated' = cut
                       /\ UNCHANGED emission
                  ELSE /\ reader' = [reader EXCEPT ![ch] = "emitting"]
                       /\ emission' = [to |-> {[channel |-> ch, cut |-> cut]},
                                       bytes |-> drained.out]
                       /\ UNCHANGED truncated
    BY DEF Feed
  <1>2. PICK cut \in BOOLEAN : cut = (truncated \/ n > RoomLeft(ch))
    BY DEF RunInv, RunTypes
  <1>3. PICK p \in Seq(Bytes) : p = pipe[ch] BY DEF RunInv, RunTypes
  <1>4. PICK room \in Nat : room = RoomLeft(ch) /\ room = MaxBytes - Total(taken)
    <2>1. taken \in [Channels -> Seq(Bytes)] /\ <<>> \in Seq(Bytes) BY DEF RunInv, RunTypes
    <2>2. Total(taken) \in Nat BY <2>1, TotalGrows
    <2>3. MaxBytes - Total(taken) \in Nat BY <2>2, RunAssumption DEF RunInv, InBudget
    <2> QED BY <2>3 DEF RoomLeft
  <1>5. PICK k : k = Min({n, room}) OBVIOUS
  <1>6. k \in 0..n /\ k <= room /\ (n <= room => k = n)
    <2>1. n \in Int /\ room \in Int OBVIOUS
    <2>2. k = IF n <= room THEN n ELSE room BY <1>5, <2>1, LesserOfTwo
    <2>3. n \in Nat BY <1>3
    <2> QED BY <2>2, <2>3
  <1>7. PICK data : data = SubSeq(p, 1, n) OBVIOUS
  <1>8. data \in Seq(Bytes) /\ Len(data) = n
    <2>1. n \in 0..Len(p) BY <1>3
    <2> QED BY <1>7, <2>1, BytesSplit
  <1>9. PICK acc : acc = SubSeq(data, 1, k) OBVIOUS
  <1>10. acc \in Seq(Bytes) /\ Len(acc) = k
    <2>1. k \in 0..Len(data) BY <1>6, <1>8
    <2> QED BY <1>8, <1>9, <2>1, BytesSplit
  <1>11. k = n => acc = data BY <1>8, <1>9
  <1>12. ~cut => acc = SubSeq(pipe[ch], 1, n)
    <2>1. ~cut => n <= room
      <3>1. ~cut => ~(n > RoomLeft(ch)) BY <1>2, Zenon
      <3>2. n \in Int /\ (~(n > room) => n <= room) BY <1>3
      <3> QED BY <1>4, <3>1, <3>2
    <2> QED BY <1>3, <1>6, <1>7, <1>11, <2>1
  <1>13. truncated => cut BY <1>2
  <1>14. acc = SubSeq(SubSeq(pipe[ch], 1, n), 1, Min({n, RoomLeft(ch)}))
    BY <1>3, <1>4, <1>5, <1>7, <1>9
  <1>15. /\ pipe' = [pipe EXCEPT ![ch] = SubSeq(@, n + 1, Len(@))]
         /\ taken' = [taken EXCEPT ![ch] = @ \o acc]
         /\ retained' = [retained EXCEPT ![ch] = LeftOf(retained[ch] \o acc)]
    BY <1>1, <1>14 DEF LeftOf
  <1>16. CASE SentOf(retained[ch] \o acc) = <<>>
    <2>1. /\ emission' = emission /\ truncated' = cut
          /\ reader' = [reader EXCEPT ![ch] = AfterFeed(cut)]
      BY <1>1, <1>2, <1>14, <1>16 DEF SentOf, AfterFeed
    <2> QED BY <1>4, <1>6, <1>10, <1>12, <1>13, <1>15, <1>16, <2>1
  <1>17. CASE SentOf(retained[ch] \o acc) # <<>>
    <2>1. /\ truncated' = truncated
          /\ reader' = [reader EXCEPT ![ch] = "emitting"]
          /\ emission' = [to |-> {[channel |-> ch, cut |-> cut]},
                          bytes |-> SentOf(retained[ch] \o acc)]
      BY <1>1, <1>2, <1>14, <1>17 DEF SentOf
    <2> QED BY <1>4, <1>6, <1>10, <1>12, <1>13, <1>15, <2>1
  <1> QED BY <1>16, <1>17

LEMMA FeedKeeps ==
  ASSUME RunInv, NEW ch \in Channels, Feed(ch)
  PROVE  RunInv'
  <1>1. /\ reader[ch] = "reading" /\ emission = NoEmission
        /\ UNCHANGED <<box, cli, wrote, emitted, finished, run>>
    BY DEF Feed
  <1>2. RunTypes /\ InBudget /\ RunEnds BY DEF RunInv
  <1>3. RunEnds' BY <1>1, <1>2 DEF RunEnds
  <1>4. OneEmission /\ \A o \in Channels : reader[o] # "emitting"
    BY <1>1 DEF RunInv, OneEmission, NoEmission
  <1>5. \A o \in Channels : Given(o) = <<>> BY <1>4 DEF Given
  <1>6. \A o \in Channels : ~CutAt(o) BY <1>1 DEF CutAt, NoEmission
  <1>7. CASE finished
    <2>1. PICK n \in 1..Len(pipe[ch]) :
            /\ pipe' = [pipe EXCEPT ![ch] = SubSeq(@, n + 1, Len(@))]
            /\ reader' = [reader EXCEPT ![ch] = "failed"]
            /\ UNCHANGED <<taken, retained, emission, truncated>>
      BY <1>7 DEF Feed
    <2>2. \A o \in Channels :
            /\ o # ch => reader'[o] = reader[o] /\ pipe'[o] = pipe[o]
            /\ o = ch => reader'[o] = "failed"
      BY <1>2, <2>1 DEF RunTypes
    <2>3. RunTypes'
      <3>1. pipe[ch] \in Seq(Bytes) BY <1>2 DEF RunTypes
      <3>2. SubSeq(pipe[ch], n + 1, Len(pipe[ch])) \in Seq(Bytes)
        <4>1. n \in 0..Len(pipe[ch]) BY <3>1
        <4> QED BY <3>1, <4>1, BytesSplit
      <3> QED BY <1>1, <1>2, <2>1, <3>2 DEF RunTypes
    <2>4. InBudget' BY <1>2, <2>1 DEF InBudget
    <2>5. OneEmission' BY <1>1, <1>4, <2>1, <2>2 DEF OneEmission
    <2>6. ReadToTheEnd' BY <1>1, <2>1, <2>2 DEF RunInv, ReadToTheEnd
    <2>7. NothingLost' BY <1>1, <1>6, <2>1, <2>2 DEF RunInv, NothingLost
    <2>8. AllRedacted' BY <1>1, <1>7 DEF AllRedacted
    <2>9. AllReturned' BY <2>2 DEF AllReturned, SomeReaderFailed
    <2> QED BY <1>3, <2>3, <2>4, <2>5, <2>6, <2>7, <2>8, <2>9 DEF RunInv
  <1>8. CASE ~finished
    <2>1. PICK n \in 1..Len(pipe[ch]), acc \in Seq(Bytes), cut \in BOOLEAN :
            /\ Len(acc) <= MaxBytes - Total(taken)
            /\ ~cut => acc = SubSeq(pipe[ch], 1, n)
            /\ truncated => cut
            /\ pipe' = [pipe EXCEPT ![ch] = SubSeq(@, n + 1, Len(@))]
            /\ taken' = [taken EXCEPT ![ch] = @ \o acc]
            /\ retained' = [retained EXCEPT ![ch] = LeftOf(retained[ch] \o acc)]
            /\ \/ /\ SentOf(retained[ch] \o acc) = <<>> /\ emission' = emission
                  /\ reader' = [reader EXCEPT ![ch] = AfterFeed(cut)]
                  /\ truncated' = cut
               \/ /\ truncated' = truncated
                  /\ reader' = [reader EXCEPT ![ch] = "emitting"]
                  /\ emission' = [to |-> {[channel |-> ch, cut |-> cut]},
                                  bytes |-> SentOf(retained[ch] \o acc)]
      BY <1>8, FeedIs
    <2>2. PICK t \in Seq(Bytes), p \in Seq(Bytes), r \in Seq(Bytes) :
            t = taken[ch] /\ p = pipe[ch] /\ r = retained[ch]
      BY <1>2 DEF RunTypes
    <2>3. PICK ra \in Seq(Bytes) : ra = r \o acc BY BytesJoined
    <2>4. PICK ta \in Seq(Bytes) : ta = t \o acc BY BytesJoined
    <2>5. n \in 0..Len(p) BY <2>2
    <2>6. PICK tail \in Seq(Bytes) : tail = SubSeq(p, n + 1, Len(p)) BY <2>5, BytesSplit
    <2>7. SentOf(ra) \in Seq(Shows) /\ LeftOf(ra) \in Seq(Bytes) BY SentIs
    <2>8. /\ taken' = [taken EXCEPT ![ch] = ta]
          /\ retained' = [retained EXCEPT ![ch] = LeftOf(ra)]
          /\ pipe' = [pipe EXCEPT ![ch] = tail]
      BY <2>1, <2>2, <2>3, <2>4, <2>6
    <2>9. \A o \in Channels :
            /\ o # ch => taken'[o] = taken[o] /\ retained'[o] = retained[o] /\ pipe'[o] = pipe[o]
            /\ o = ch => taken'[o] = ta /\ retained'[o] = LeftOf(ra) /\ pipe'[o] = tail
      BY <1>2, <2>8 DEF RunTypes
    <2>10. PICK next \in {"reading", "done", "emitting"} :
             /\ reader' = [reader EXCEPT ![ch] = next]
             /\ next = "done" => truncated'
             /\ next # "emitting" => /\ SentOf(ra) = <<>> /\ emission' = emission
                                     /\ truncated' = cut
             /\ next = "emitting" => /\ truncated' = truncated
                                     /\ emission' = [to |-> {[channel |-> ch, cut |-> cut]},
                                                     bytes |-> SentOf(ra)]
      <3>1. AfterFeed(cut) \in {"reading", "done"} /\ (AfterFeed(cut) = "done" => cut)
        BY DEF AfterFeed
      <3> QED BY <2>1, <2>2, <2>3, <3>1
    <2>11. \A o \in Channels : reader'[o] = IF o = ch THEN next ELSE reader[o]
      BY <1>2, <2>10 DEF RunTypes
    <2>12. RunTypes'
      <3>1. truncated' \in BOOLEAN BY <1>2, <2>10 DEF RunTypes
      <3> QED BY <1>1, <1>2, <2>7, <2>8, <2>10, <3>1 DEF RunTypes
    <2>13. InBudget'
      <3>1. Total(taken) \in Nat /\ Total(taken') = Total(taken) + Len(acc)
        <4>1. taken \in [Channels -> Seq(Bytes)] BY <1>2 DEF RunTypes
        <4>2. /\ Total(taken) \in Nat
              /\ Total([taken EXCEPT ![ch] = @ \o acc]) = Total(taken) + Len(acc)
          BY <4>1, TotalGrows
        <4> QED BY <2>1, <4>2
      <3>2. Len(acc) \in Nat /\ MaxBytes \in Nat BY RunAssumption
      <3> QED BY <2>1, <3>1, <3>2 DEF InBudget
    <2>14. OneEmission'
      <3>1. CASE next # "emitting" BY <1>1, <1>4, <2>10, <2>11, <3>1 DEF OneEmission
      <3>2. CASE next = "emitting"
        <4>1. PICK to : to = [channel |-> ch, cut |-> cut] OBVIOUS
        <4>2. to.channel = ch /\ to.cut = cut BY <4>1
        <4>3. emission'.to = {to} /\ emission'.bytes = SentOf(ra) BY <2>10, <3>2, <4>1
        <4>4. \A o \in Channels : reader'[o] = "emitting" <=> o = to.channel
          BY <1>4, <2>11, <3>2, <4>2
        <4>5. truncated' => cut BY <2>1, <2>10, <3>2
        <4> QED BY <2>7, <4>2, <4>3, <4>4, <4>5 DEF OneEmission
      <3> QED BY <3>1, <3>2
    <2>15. ReadToTheEnd'
      <3>1. ASSUME truncated PROVE truncated'
        <4>1. CASE next # "emitting" BY <2>1, <2>10, <3>1, <4>1
        <4>2. CASE next = "emitting" BY <2>10, <3>1, <4>2
        <4> QED BY <4>1, <4>2
      <3> QED BY <1>1, <2>9, <2>10, <2>11, <3>1 DEF RunInv, ReadToTheEnd
    <2>16. NothingLost'
      <3> SUFFICES ASSUME NEW o \in Channels,
                          ~truncated' /\ reader'[o] # "failed" /\ ~CutAt(o)'
                   PROVE  wrote'[o] = taken'[o] \o pipe'[o]
        BY DEF NothingLost
      <3>1. ~truncated BY <2>1, <2>10
      <3>2. reader[o] # "failed" => wrote[o] = taken[o] \o pipe[o]
        BY <1>6, <3>1 DEF RunInv, NothingLost
      <3>3. CASE o # ch BY <1>1, <2>9, <2>11, <3>2, <3>3
      <3>4. CASE o = ch
        <4>1. ~cut
          <5>1. CASE next # "emitting" BY <2>10, <5>1
          <5>2. CASE next = "emitting"
            <6>1. PICK to : to = [channel |-> ch, cut |-> cut] OBVIOUS
            <6>2. to.channel = ch /\ to.cut = cut /\ to \in emission'.to
              BY <2>10, <5>2, <6>1
            <6> QED BY <3>4, <6>2 DEF CutAt
          <5> QED BY <5>1, <5>2
        <4>2. acc = SubSeq(p, 1, n) BY <2>1, <2>2, <4>1
        <4>3. acc \o tail = p BY <2>5, <2>6, <4>2, BytesSplit
        <4>4. ta \o tail = t \o p
          <5>1. Joint(t, Joint(acc, tail)) = Joint(Joint(t, acc), tail) BY BytesAssociate
          <5> QED BY <2>4, <4>3, <5>1 DEF Joint
        <4>5. wrote[ch] = t \o p BY <1>1, <2>2, <3>2, <3>4
        <4> QED BY <1>1, <2>9, <3>4, <4>4, <4>5
      <3> QED BY <3>3, <3>4
    <2>17. AllRedacted'
      <3> SUFFICES ASSUME PrefixFree, NEW o \in Channels, reader'[o] # "failed"
                   PROVE  Redacts(taken'[o], emitted'[o] \o Given(o)', retained'[o])
        BY DEF AllRedacted
      <3>1. reader[o] # "failed" => Redacts(taken[o], emitted[o] \o Given(o), retained[o])
        BY <1>8 DEF RunInv, AllRedacted
      <3>2. CASE o # ch
        <4>1. Given(o)' = <<>> BY <1>4, <2>11, <3>2 DEF Given
        <4> QED BY <1>1, <1>5, <2>9, <2>11, <3>1, <3>2, <4>1
      <3>3. CASE o = ch
        <4>1. PICK e \in Seq(Shows) : e = emitted[ch] BY <1>2 DEF RunTypes
        <4>2. e \o <<>> = e OBVIOUS
        <4>3. Redacts(t, e, r) BY <1>1, <1>5, <2>2, <3>1, <3>3, <4>1, <4>2
        <4>4. Redacts(ta, e \o SentOf(ra), LeftOf(ra)) BY <2>3, <2>4, <4>3, RedactsMore
        <4>5. Given(ch)' = SentOf(ra)
          <5>1. CASE next # "emitting" BY <2>10, <2>11, <5>1 DEF Given
          <5>2. CASE next = "emitting" BY <2>10, <2>11, <5>2 DEF Given
          <5> QED BY <5>1, <5>2
        <4> QED BY <1>1, <2>9, <3>3, <4>1, <4>4, <4>5
      <3> QED BY <3>2, <3>3
    <2>18. AllReturned' BY <1>1, <1>2, <1>8 DEF AllReturned, RunEnds
    <2> QED BY <1>3, <2>12, <2>13, <2>14, <2>15, <2>16, <2>17, <2>18 DEF RunInv
  <1> QED BY <1>7, <1>8

\* The one who awaits the sink, and what it is given.
LEMMA EmitterIs ==
  ASSUME RunInv, NEW to \in emission.to
  PROVE  /\ to.channel \in Channels /\ to.cut \in BOOLEAN /\ (truncated => to.cut)
         /\ emission.bytes \in Seq(Shows)
         /\ \A ch \in Channels : reader[ch] = "emitting" <=> ch = to.channel
         /\ \A ch \in Channels : CutAt(ch) => to.cut /\ ch = to.channel
  <1>1. emission # NoEmission BY DEF NoEmission
  <1>2. PICK it :
          /\ emission.to = {it} /\ emission.bytes \in Seq(Shows)
          /\ it.channel \in Channels /\ it.cut \in BOOLEAN /\ (truncated => it.cut)
          /\ \A ch \in Channels : reader[ch] = "emitting" <=> ch = it.channel
    BY <1>1 DEF RunInv, OneEmission
  <1>3. to = it BY <1>2
  <1> QED BY <1>2, <1>3 DEF CutAt

LEMMA EmitKeeps ==
  ASSUME RunInv, Emit
  PROVE  RunInv'
  <1>1. PICK to \in emission.to :
          /\ emitted' = [emitted EXCEPT ![to.channel] = @ \o emission.bytes]
          /\ reader' = [reader EXCEPT ![to.channel] = AfterFeed(to.cut)]
          /\ truncated' = to.cut /\ emission' = NoEmission
          /\ UNCHANGED <<box, cli, pipe, wrote, taken, retained, finished, run>>
    BY DEF Emit
  <1>2. PICK ch \in Channels : ch = to.channel BY EmitterIs
  <1>3. /\ to.cut \in BOOLEAN /\ (truncated => to.cut)
        /\ \A o \in Channels : reader[o] = "emitting" <=> o = ch
        /\ \A o \in Channels : CutAt(o) => to.cut /\ o = ch
    BY <1>2, EmitterIs
  <1>4. PICK given \in Seq(Shows) : given = emission.bytes BY EmitterIs
  <1>5. PICK next \in {"reading", "done"} :
          reader' = [reader EXCEPT ![ch] = next] /\ (next = "done" => truncated')
    <2>1. AfterFeed(to.cut) \in {"reading", "done"} /\ (AfterFeed(to.cut) = "done" => to.cut)
      BY DEF AfterFeed
    <2> QED BY <1>1, <1>2, <2>1
  <1>6. RunTypes /\ InBudget /\ RunEnds BY DEF RunInv
  <1>7. \A o \in Channels : reader'[o] = IF o = ch THEN next ELSE reader[o]
    BY <1>5, <1>6 DEF RunTypes
  <1>8. PICK e \in Seq(Shows) : e = emitted[ch] BY <1>6 DEF RunTypes
  <1>9. e \o given \in Seq(Shows) BY BytesJoined
  <1>10. emitted' = [emitted EXCEPT ![ch] = e \o given] BY <1>1, <1>2, <1>4, <1>8
  <1>11. \A o \in Channels : emitted'[o] = IF o = ch THEN e \o given ELSE emitted[o]
    BY <1>6, <1>10 DEF RunTypes
  <1>12. truncated => truncated' BY <1>1, <1>3
  <1>13. RunTypes'
    <2>1. truncated' \in BOOLEAN BY <1>1, <1>3
    <2>2. reader' \in [Channels -> {"reading", "emitting", "done", "failed"}]
      BY <1>5, <1>6 DEF RunTypes
    <2>3. emitted' \in [Channels -> Seq(Shows)] BY <1>6, <1>9, <1>10 DEF RunTypes
    <2> QED BY <1>1, <1>6, <2>1, <2>2, <2>3 DEF RunTypes
  <1>14. InBudget' BY <1>1, <1>6 DEF InBudget
  <1>15. OneEmission' BY <1>1, <1>3, <1>7 DEF OneEmission
  <1>16. RunEnds' BY <1>1, <1>6 DEF RunEnds
  <1>17. ReadToTheEnd' BY <1>1, <1>5, <1>7, <1>12 DEF RunInv, ReadToTheEnd
  <1>18. NothingLost'
    <2> SUFFICES ASSUME NEW o \in Channels, ~truncated' /\ reader'[o] # "failed"
                 PROVE  wrote'[o] = taken'[o] \o pipe'[o]
      BY DEF NothingLost
    <2>1. ~truncated /\ ~CutAt(o) BY <1>1, <1>3
    <2>2. reader[o] # "failed" BY <1>3, <1>7
    <2> QED BY <1>1, <2>1, <2>2 DEF RunInv, NothingLost
  <1>19. AllRedacted'
    <2> SUFFICES ASSUME PrefixFree, ~finished', NEW o \in Channels, reader'[o] # "failed"
                 PROVE  Redacts(taken'[o], emitted'[o] \o Given(o)', retained'[o])
      BY DEF AllRedacted
    <2>1. reader[o] # "failed" BY <1>3, <1>7
    <2>2. Redacts(taken[o], emitted[o] \o Given(o), retained[o])
      BY <1>1, <2>1 DEF RunInv, AllRedacted
    <2>3. Given(o)' = <<>> BY <1>3, <1>7 DEF Given
    <2>4. emitted'[o] \o <<>> = emitted[o] \o Given(o)
      <3>1. CASE o = ch
        <4>1. Given(o) = given BY <1>3, <1>4, <3>1 DEF Given
        <4>2. (e \o given) \o <<>> = e \o given BY <1>9
        <4> QED BY <1>8, <1>11, <3>1, <4>1, <4>2
      <3>2. CASE o # ch
        <4>1. Given(o) = <<>> BY <1>3, <3>2 DEF Given
        <4> QED BY <1>11, <3>2, <4>1
      <3> QED BY <3>1, <3>2
    <2> QED BY <1>1, <2>2, <2>3, <2>4
  <1>20. AllReturned'
    <2> SUFFICES ASSUME run'.at = "returned" PROVE SomeReaderFailed' BY DEF AllReturned
    <2>1. run.at = "returned" /\ reader[ch] # "done" BY <1>1, <1>3
    <2>2. SomeReaderFailed BY <2>1 DEF RunInv, AllReturned
    <2> QED BY <1>3, <1>7, <2>2 DEF SomeReaderFailed
  <1> QED BY <1>13, <1>14, <1>15, <1>16, <1>17, <1>18, <1>19, <1>20 DEF RunInv

\* The sink fails, or the pipe ends: one reader is through.
LEMMA ReaderEnds ==
  ASSUME RunInv, EmitFails \/ \E ch \in Channels : ReadEof(ch)
  PROVE  RunInv'
  <1>1. UNCHANGED <<box, cli, pipe, wrote, taken, retained, emitted, truncated, finished, run>>
    BY DEF EmitFails, ReadEof
  <1>2. RunTypes /\ InBudget /\ RunEnds BY DEF RunInv
  <1>3. InBudget' /\ RunEnds' BY <1>1, <1>2 DEF InBudget, RunEnds
  <1>4. PICK ch \in Channels, next \in {"failed", "done"} :
          /\ reader' = [reader EXCEPT ![ch] = next]
          /\ reader[ch] \notin {"failed", "done"}
          /\ next = "failed" =>
               /\ emission' = NoEmission
               /\ \A o \in Channels : reader[o] = "emitting" => o = ch
               /\ \A o \in Channels : CutAt(o) => o = ch
          /\ next = "done" =>
               reader[ch] = "reading" /\ emission' = emission /\ cli # "live" /\ pipe[ch] = <<>>
    <2>1. CASE EmitFails
      <3>1. PICK to \in emission.to :
              reader' = [reader EXCEPT ![to.channel] = "failed"] /\ emission' = NoEmission
        BY <2>1 DEF EmitFails
      <3>2. /\ to.channel \in Channels
            /\ \A o \in Channels : reader[o] = "emitting" <=> o = to.channel
            /\ \A o \in Channels : CutAt(o) => o = to.channel
        BY EmitterIs
      <3> QED BY <3>1, <3>2
    <2>2. CASE \E ch \in Channels : ReadEof(ch)
      <3>1. PICK ch \in Channels : ReadEof(ch) BY <2>2
      <3>2. /\ reader[ch] = "reading" /\ pipe[ch] = <<>> /\ cli # "live"
            /\ reader' = [reader EXCEPT ![ch] = "done"] /\ emission' = emission
        BY <3>1 DEF ReadEof
      <3> QED BY <3>2
    <2> QED BY <2>1, <2>2
  <1>5. \A o \in Channels : reader'[o] = IF o = ch THEN next ELSE reader[o]
    BY <1>2, <1>4 DEF RunTypes
  <1>6. RunTypes' BY <1>1, <1>2, <1>4 DEF RunTypes
  <1>7. OneEmission'
    <2>1. CASE next = "failed" BY <1>4, <1>5, <2>1 DEF OneEmission
    <2>2. CASE next = "done"
      <3>1. \A o \in Channels : reader'[o] = "emitting" <=> reader[o] = "emitting"
        BY <1>4, <1>5, <2>2
      <3> QED BY <1>1, <1>4, <2>2, <3>1 DEF RunInv, OneEmission
    <2> QED BY <2>1, <2>2
  <1>8. ReadToTheEnd' BY <1>1, <1>4, <1>5 DEF RunInv, ReadToTheEnd
  <1>9. NothingLost'
    <2> SUFFICES ASSUME NEW o \in Channels, ~truncated', reader'[o] # "failed", ~CutAt(o)'
                 PROVE  wrote'[o] = taken'[o] \o pipe'[o]
      BY DEF NothingLost
    <2>1. reader[o] # "failed" BY <1>4, <1>5
    <2>2. ~CutAt(o)
      <3>1. CASE next = "failed" BY <1>4, <1>5, <3>1
      <3>2. CASE next = "done" BY <1>4, <3>2 DEF CutAt
      <3> QED BY <3>1, <3>2
    <2> QED BY <1>1, <2>1, <2>2 DEF RunInv, NothingLost
  <1>10. AllRedacted'
    <2> SUFFICES ASSUME PrefixFree, ~finished', NEW o \in Channels, reader'[o] # "failed"
                 PROVE  Redacts(taken'[o], emitted'[o] \o Given(o)', retained'[o])
      BY DEF AllRedacted
    <2>1. reader[o] # "failed" BY <1>4, <1>5
    <2>2. Given(o)' = Given(o) BY <1>4, <1>5 DEF Given
    <2> QED BY <1>1, <2>1, <2>2 DEF RunInv, AllRedacted
  <1>11. AllReturned'
    <2> SUFFICES ASSUME run'.at = "returned" PROVE SomeReaderFailed' BY DEF AllReturned
    <2>1. run.at = "returned" BY <1>1
    <2>2. SomeReaderFailed BY <1>4, <2>1 DEF RunInv, AllReturned
    <2> QED BY <1>4, <1>5, <2>2 DEF SomeReaderFailed
  <1> QED BY <1>3, <1>6, <1>7, <1>8, <1>9, <1>10, <1>11 DEF RunInv

LEMMA FinishKeeps ==
  ASSUME RunInv, Finish
  PROVE  RunInv'
  <1>1. /\ run.at = "joining" /\ Joined /\ emission = NoEmission
        /\ finished' = TRUE /\ retained' = NoBytes
        /\ \/ /\ emitted' = [ch \in Channels |-> emitted[ch] \o Trailing[ch]]
              /\ run' = [run EXCEPT !.at = "returned"]
           \/ emitted' = emitted /\ run' = [run EXCEPT !.at = "raised"]
        /\ UNCHANGED <<box, cli, pipe, wrote, reader, taken, emission, truncated>>
    BY DEF Finish
  <1>2. RunTypes /\ RunEnds BY DEF RunInv
  <1>3. ~finished /\ box = "stopped" BY <1>1, <1>2 DEF RunEnds
  <1>4. run'.at \in {"returned", "raised"} /\ run' \in [at : {"returned", "raised"},
              reason : {"none", "timed_out", "cancelled", "output_limit", "output_failure",
                        "exited", "runtime_failure"}]
    BY <1>1, <1>2 DEF RunTypes
  <1>5. \A ch \in Channels :
          Trailing[ch] = Everything(retained[ch]) /\ Trailing[ch] \in Seq(Shows)
    BY <1>2, EverythingIs DEF Trailing, Everything, RunTypes
  <1>6. emitted' \in [Channels -> Seq(Shows)]
    <2>1. ASSUME NEW ch \in Channels PROVE emitted[ch] \o Trailing[ch] \in Seq(Shows)
      <3>1. emitted[ch] \in Seq(Shows) BY <1>2 DEF RunTypes
      <3> QED BY <1>5, <3>1, BytesJoined
    <2> QED BY <1>1, <1>2, <2>1 DEF RunTypes
  <1>7. RunTypes'
    <2>1. NoBytes \in [Channels -> Seq(Bytes)] BY DEF NoBytes
    <2> QED BY <1>1, <1>2, <1>4, <1>6, <2>1 DEF RunTypes
  <1>8. InBudget' BY <1>1 DEF RunInv, InBudget
  <1>9. OneEmission' BY <1>1 DEF RunInv, OneEmission, NoEmission
  <1>10. RunEnds' BY <1>1, <1>2, <1>3, <1>4 DEF RunEnds
  <1>11. ReadToTheEnd' BY <1>1 DEF RunInv, ReadToTheEnd
  <1>12. NothingLost'
    <2>1. \A ch \in Channels : CutAt(ch)' <=> CutAt(ch) BY <1>1 DEF CutAt
    <2> QED BY <1>1, <2>1 DEF RunInv, NothingLost
  <1>13. AllRedacted' BY <1>1 DEF AllRedacted
  <1>14. AllReturned'
    <2> SUFFICES ASSUME run'.at = "returned", ~SomeReaderFailed', NEW ch \in Channels
                 PROVE  /\ reader'[ch] = "done"
                        /\ PrefixFree => emitted'[ch] = Everything(taken'[ch])
      BY DEF AllReturned
    <2>1. ~SomeReaderFailed BY <1>1 DEF SomeReaderFailed
    <2>2. reader[ch] = "done" BY <1>1, <2>1 DEF Joined, ReadersDone
    <2>3. emitted' = [o \in Channels |-> emitted[o] \o Trailing[o]]
      <3>1. run' # [run EXCEPT !.at = "raised"] BY <1>2 DEF RunTypes
      <3> QED BY <1>1, <3>1
    <2>4. emitted'[ch] = emitted[ch] \o Everything(retained[ch]) BY <1>5, <2>3
    <2>5. ASSUME PrefixFree PROVE Everything(taken[ch]) = emitted[ch] \o Everything(retained[ch])
      <3>1. Redacts(taken[ch], emitted[ch] \o Given(ch), retained[ch])
        BY <1>3, <2>2, <2>5 DEF RunInv, AllRedacted
      <3>2. emitted[ch] \o Given(ch) = emitted[ch]
        <4>1. Given(ch) = <<>> /\ emitted[ch] \in Seq(Shows) BY <1>2, <2>2 DEF Given, RunTypes
        <4> QED BY <4>1
      <3>3. taken[ch] \in Seq(Bytes) /\ retained[ch] \in Seq(Bytes) BY <1>2 DEF RunTypes
      <3> QED BY <3>1, <3>2, <3>3, RedactsAll
    <2> QED BY <1>1, <2>2, <2>4, <2>5
  <1> QED BY <1>7, <1>8, <1>9, <1>10, <1>11, <1>12, <1>13, <1>14 DEF RunInv

LEMMA RunStep == RunInv /\ [RunNext]_runVars => RunInv'
  <1> SUFFICES ASSUME RunInv, [RunNext]_runVars PROVE RunInv' OBVIOUS
  <1>1. CASE UNCHANGED runVars
    <2>1. UNCHANGED outputVars /\ UNCHANGED <<box, cli, pipe, wrote, run>>
      BY <1>1 DEF runVars, outputVars
    <2>2. UNCHANGED <<reader, taken, retained, emission, emitted, truncated, finished>>
      BY <2>1 DEF outputVars
    <2>3. /\ InBudget' /\ OneEmission' /\ AllRedacted' /\ AllReturned'
          /\ \A o \in Channels : CutAt(o)' <=> CutAt(o)
      BY <2>1, OutputSame
    <2>4. RunTypes' BY <2>1, <2>2 DEF RunInv, RunTypes
    <2>5. RunEnds' BY <2>1, <2>2 DEF RunInv, RunEnds
    <2>6. ReadToTheEnd' BY <2>1, <2>2 DEF RunInv, ReadToTheEnd
    <2>7. NothingLost' BY <2>1, <2>2, <2>3 DEF RunInv, NothingLost
    <2> QED BY <2>3, <2>4, <2>5, <2>6, <2>7 DEF RunInv
  <1>2. CASE \E ch \in Channels, byte \in Bytes : ContainerWrites(ch, byte)
    BY <1>2, WritesKeep
  <1>3. CASE ContainerExits \/ CliEnds \/ AskToStop \/ DecideEnd \/ Kill \/ KillFails
    BY <1>3, OutsideKeeps
  <1>4. CASE \E ch \in Channels : Feed(ch) BY <1>4, FeedKeeps
  <1>5. CASE Emit BY <1>5, EmitKeeps
  <1>6. CASE EmitFails \/ \E ch \in Channels : ReadEof(ch) BY <1>6, ReaderEnds
  <1>7. CASE Finish BY <1>7, FinishKeeps
  <1> QED BY <1>1, <1>2, <1>3, <1>4, <1>5, <1>6, <1>7 DEF RunNext

(***************************************************************************)
(* What execute() returns: the readers of any number of channels keep to   *)
(* the one budget, the container has stopped, and the sink was given the   *)
(* redaction of exactly what was accepted, however the reads split it (for *)
(* secrets none of which begins with another).                             *)
(***************************************************************************)
THEOREM OutputIsAccounted == RunSpec => []OutputAccounted
  <1>1. RunInit => RunInv BY RunStart
  <1>2. RunInv /\ [RunNext]_runVars => RunInv' BY RunStep
  <1>3. RunInv => OutputAccounted BY RunInvSuffices
  <1> QED BY <1>1, <1>2, <1>3, PTL DEF RunSpec

-----------------------------------------------------------------------------
(* The numbers of a set in their order                                      *)

\* More of them come before the greater one.
LEMMA BelowGrows ==
  ASSUME NEW S \in SUBSET Nat, IsFiniteSet(S), NEW x \in S
  PROVE  /\ Below(S, x) \in 0..(Cardinality(S) - 1) /\ Cardinality(S) \in Nat
         /\ \A y \in S : x < y => Below(S, x) < Below(S, y)
  <1>1. PICK B : B = {z \in S : z < x} OBVIOUS
  <1>2. B \in SUBSET S /\ x \notin B BY <1>1
  <1>3. IsFiniteSet(B) /\ Cardinality(B) \in Nat /\ Cardinality(S) \in Nat
    BY <1>2, FS_Subset, FS_CardinalityType
  <1>4. IsFiniteSet(B \union {x}) /\ Cardinality(B \union {x}) = Cardinality(B) + 1
    BY <1>2, <1>3, FS_AddElement
  <1>5. Below(S, x) = Cardinality(B) BY <1>1 DEF Below
  <1>6. Cardinality(B) + 1 <= Cardinality(S)
    <2>1. B \union {x} \in SUBSET S BY <1>2
    <2>2. Cardinality(B \union {x}) <= Cardinality(S) BY <2>1, FS_Subset
    <2> QED BY <1>4, <2>2
  <1>7. ASSUME NEW y \in S, x < y PROVE Below(S, x) < Below(S, y)
    <2>1. PICK C : C = {z \in S : z < y} OBVIOUS
    <2>2. B \union {x} \in SUBSET C
      <3>1. x \in Nat /\ y \in Nat /\ \A z \in B : z \in S /\ z \in Nat /\ z < x BY <1>1
      <3>2. \A z \in B : z < y BY <1>7, <3>1
      <3> QED BY <1>7, <2>1, <3>1, <3>2
    <2>3. IsFiniteSet(C) /\ Cardinality(C) \in Nat BY <2>1, FS_Subset, FS_CardinalityType
    <2>4. Cardinality(B \union {x}) <= Cardinality(C) BY <2>2, <2>3, FS_Subset
    <2>5. Below(S, y) = Cardinality(C) BY <2>1 DEF Below
    <2> QED BY <1>3, <1>4, <1>5, <2>3, <2>4, <2>5
  <1> QED BY <1>3, <1>5, <1>6, <1>7

\* Every place is taken.
LEMMA PlacesTaken ==
  ASSUME NEW S \in SUBSET Nat, IsFiniteSet(S)
  PROVE  \A k \in 0..(Cardinality(S) - 1) : \E x \in S : Below(S, x) = k
  <1>1. PICK T : T = 0..(Cardinality(S) - 1) OBVIOUS
  <1>2. PICK f : f = [x \in S |-> Below(S, x)] OBVIOUS
  <1>3. f \in [S -> T] BY <1>1, <1>2, BelowGrows
  <1>4. IsInjective(f)
    <2>1. ASSUME NEW x \in S, NEW y \in S, f[x] = f[y] PROVE x = y
      <3>1. Below(S, x) = Below(S, y) BY <1>2, <2>1
      <3>2. Below(S, x) \in Int /\ ~(x < y) /\ ~(y < x) BY <3>1, BelowGrows
      <3>3. x \in Nat /\ y \in Nat OBVIOUS
      <3> QED BY <3>2, <3>3
    <2> QED BY <1>3, <2>1 DEF IsInjective
  <1>5. Cardinality(S) \in Nat BY FS_CardinalityType
  <1>6. IsFiniteSet(T) /\ Cardinality(T) = Cardinality(S)
    <2>1. 0 \in Int /\ Cardinality(S) - 1 \in Int BY <1>5
    <2>2. IsFiniteSet(T) /\ Cardinality(T) = IF 0 > Cardinality(S) - 1 THEN 0
                                            ELSE Cardinality(S) - 1 - 0 + 1
      BY <1>1, <2>1, FS_Interval
    <2> QED BY <1>5, <2>2
  <1>7. f \in Injection(S, T) BY <1>3, <1>4 DEF Injection
  <1>8. f \in Surjection(S, T) BY <1>6, <1>7, FS_Injection
  <1>9. \A k \in T : \E x \in S : f[x] = k BY <1>8 DEF Surjection
  <1> QED BY <1>1, <1>2, <1>9

\* Each number once, the lesser ones first; so many come before the one at a place.
LEMMA AscendingIs ==
  ASSUME NEW S \in SUBSET Nat, IsFiniteSet(S), NEW o, o = Ascending(S)
  PROVE  /\ o \in Seq(S) /\ Len(o) = Cardinality(S) /\ Cardinality(S) \in Nat
         /\ DOMAIN o = 1..Cardinality(S)
         /\ ToSet(o) = S /\ IsInjective(o)
         /\ \A i, j \in 1..Cardinality(S) : i <= j => o[i] <= o[j]
         /\ \A i \in 1..Cardinality(S) : o[i] \in S /\ Below(S, o[i]) = i - 1
  <1>1. Cardinality(S) \in Nat BY FS_CardinalityType
  <1>2. PICK n \in Nat : n = Cardinality(S) BY <1>1
  <1>3. o = [i \in 1..n |-> CHOOSE x \in S : Below(S, x) = i - 1] BY <1>2 DEF Ascending
  <1>4. \A i \in 1..n : o[i] \in S /\ Below(S, o[i]) = i - 1
    <2> SUFFICES ASSUME NEW i \in 1..n PROVE o[i] \in S /\ Below(S, o[i]) = i - 1
      OBVIOUS
    <2>1. i - 1 \in 0..(Cardinality(S) - 1) BY <1>2
    <2>2. \E x \in S : Below(S, x) = i - 1 BY <2>1, PlacesTaken
    <2>3. o[i] = CHOOSE x \in S : Below(S, x) = i - 1 BY <1>3
    <2> QED BY <2>2, <2>3
  <1>5. o \in [1..n -> S] BY <1>3, <1>4
  <1>6. o \in Seq(S) /\ Len(o) = n /\ DOMAIN o = 1..n BY <1>5
  <1>7. \A x \in S : \E i \in 1..n : o[i] = x
    <2> SUFFICES ASSUME NEW x \in S PROVE \E i \in 1..n : o[i] = x OBVIOUS
    <2>1. Below(S, x) \in 0..(n - 1) BY <1>2, BelowGrows
    <2>2. PICK i \in 1..n : i = Below(S, x) + 1 BY <2>1
    <2>3. PICK y \in S : y = o[i] BY <1>4
    <2>4. Below(S, y) = Below(S, x) /\ Below(S, x) \in Int BY <1>4, <2>1, <2>2, <2>3
    <2>5. ~(y < x) /\ ~(x < y) BY <2>4, BelowGrows
    <2>6. y \in Nat /\ x \in Nat OBVIOUS
    <2> QED BY <2>3, <2>5, <2>6
  <1>8. ToSet(o) = S BY <1>4, <1>6, <1>7 DEF ToSet
  <1>9. IsInjective(o) BY <1>4, <1>6 DEF IsInjective
  <1>10. ASSUME NEW i \in 1..n, NEW j \in 1..n, i <= j PROVE o[i] <= o[j]
    <2>1. PICK x \in S, y \in S : x = o[i] /\ y = o[j] BY <1>4
    <2>2. Below(S, x) = i - 1 /\ Below(S, y) = j - 1 BY <1>4, <2>1
    <2>3. ~(y < x) BY <1>10, <2>2, BelowGrows
    <2>4. x \in Nat /\ y \in Nat OBVIOUS
    <2> QED BY <2>1, <2>3, <2>4
  <1> QED BY <1>2, <1>4, <1>6, <1>8, <1>9, <1>10

-----------------------------------------------------------------------------
(* Listings                                                                 *)

\* A page holds the first rows behind its position, in order; unless there are more, all.
LEMMA RowsOfPage ==
  ASSUME collection \in SUBSET Ids, NEW position \in Nat, NEW found, found = PageRows(position)
  PROVE  /\ found \in Seq(Ids) /\ IsInjective(found) /\ LastRow(found) \in Nat
         /\ ToSet(found) \subseteq Behind(position)
         /\ \A id \in ToSet(found) : id <= LastRow(found)
         /\ \A id \in Behind(position) : id <= LastRow(found) => id \in ToSet(found)
         /\ ~More(position) => ToSet(found) = Behind(position)
         /\ found = <<>> => Behind(position) = {}
         /\ found # <<>> => LastRow(found) \in ToSet(found)
  <1>1. PICK B : B = Behind(position) OBVIOUS
  <1>2. PICK S : S = {id \in B : Below(B, id) < PageLimit} OBVIOUS
  <1>3. B \in SUBSET Ids /\ B \in SUBSET Nat /\ IsFiniteSet(B)
    <2>1. B \in SUBSET Ids BY <1>1 DEF Behind
    <2> QED BY <2>1, ListingAssumption, FS_Subset
  <1>4. S \in SUBSET B /\ S \in SUBSET Nat /\ IsFiniteSet(S) BY <1>2, <1>3, FS_Subset
  <1>5. found = Ascending(S) BY <1>1, <1>2 DEF PageRows
  <1>6. PICK n \in Nat :
          /\ n = Cardinality(S) /\ found \in Seq(S) /\ Len(found) = n /\ DOMAIN found = 1..n
          /\ ToSet(found) = S /\ IsInjective(found)
          /\ \A i, j \in 1..n : i <= j => found[i] <= found[j]
    BY <1>4, <1>5, AscendingIs
  <1>7. found \in Seq(Ids)
    <2>1. found \in [1..n -> S] /\ S \in SUBSET Ids BY <1>3, <1>4, <1>6
    <2>2. found \in [1..n -> Ids] BY <2>1
    <2> QED BY <2>2
  <1>8. PageLimit \in Nat /\ PageLimit >= 1 BY ListingAssumption
  <1>9. \A x \in B : Below(B, x) \in 0..(Cardinality(B) - 1) /\ Cardinality(B) \in Nat
    BY <1>3, BelowGrows
  <1>10. ASSUME NEW id \in B, NEW p \in S, id <= p PROVE id \in S
    <2>1. id \in Nat /\ p \in Nat /\ p \in B BY <1>3, <1>4
    <2>2. CASE id = p BY <2>2
    <2>3. CASE id < p
      <3>1. Below(B, id) < Below(B, p) BY <1>3, <2>1, <2>3, BelowGrows
      <3>2. Below(B, p) < PageLimit BY <1>2
      <3>3. Below(B, id) \in Int /\ Below(B, p) \in Int BY <1>9, <2>1
      <3> QED BY <1>2, <1>8, <3>1, <3>2, <3>3
    <2> QED BY <1>10, <2>1, <2>2, <2>3
  <1>11. ASSUME ~More(position) PROVE S = B
    <2>1. ~(Cardinality(B) > PageLimit) BY <1>1, <1>11 DEF More
    <2>2. ASSUME NEW x \in B PROVE Below(B, x) < PageLimit BY <1>8, <1>9, <2>1
    <2> QED BY <1>2, <2>2
  <1>12. ASSUME B # {} PROVE S # {}
    <2>1. PICK x \in B : \A y \in B : x <= y BY <1>3, <1>12, Least
    <2>2. {z \in B : z < x} = {}
      <3>1. ASSUME NEW z \in B, z < x PROVE FALSE
        <4>1. z \in Nat /\ x \in Nat BY <1>3
        <4> QED BY <2>1, <3>1, <4>1
      <3> QED BY <3>1
    <2>3. Below(B, x) = 0 BY <2>2, FS_EmptySet DEF Below
    <2> QED BY <1>2, <1>8, <2>3
  <1>13. CASE found = <<>>
    <2>1. S = {} BY <1>6, <1>13, FS_EmptySet DEF ToSet
    <2>2. B = {} BY <1>12, <2>1
    <2>3. LastRow(found) = 0 BY <1>13 DEF LastRow
    <2> QED BY <1>1, <1>6, <1>7, <1>13, <2>1, <2>2, <2>3
  <1>14. CASE found # <<>>
    <2>1. n >= 1 /\ n \in 1..n
      <3>1. n # 0 BY <1>6, <1>14
      <3> QED BY <3>1
    <2>2. LastRow(found) = found[n] BY <1>6, <1>14 DEF LastRow, Last
    <2>3. found[n] \in S BY <1>6, <2>1
    <2>4. \A id \in S : id <= found[n]
      <3> SUFFICES ASSUME NEW id \in S PROVE id <= found[n] OBVIOUS
      <3>1. PICK i \in 1..n : id = found[i] BY <1>6 DEF ToSet
      <3> QED BY <1>6, <2>1, <3>1
    <2>5. found[n] \in Nat BY <1>4, <2>3
    <2> QED BY <1>1, <1>4, <1>6, <1>7, <1>10, <1>11, <1>14, <2>2, <2>3, <2>4, <2>5
  <1> QED BY <1>13, <1>14

\* More items: those there were and those of the page.
LEMMA ItemsJoined ==
  ASSUME NEW S, NEW s \in Seq(S), NEW t \in Seq(S)
  PROVE  /\ s \o t \in Seq(S) /\ ToSet(s \o t) = ToSet(s) \union ToSet(t)
         /\ IsInjective(s) /\ IsInjective(t) /\ ToSet(s) \intersect ToSet(t) = {} =>
              IsInjective(s \o t)
  <1>1. PICK u : u = s \o t OBVIOUS
  <1>2. PICK n \in Nat, m \in Nat : n = Len(s) /\ m = Len(t) OBVIOUS
  <1>3. /\ DOMAIN s = 1..n /\ DOMAIN t = 1..m BY <1>2
  <1>4. u \in Seq(S) /\ Len(u) = n + m /\ DOMAIN u = 1..(n + m) BY <1>1, <1>2
  <1>5. (\A i \in 1..n : u[i] = s[i]) /\ (\A i \in 1..m : u[n + i] = t[i]) BY <1>1, <1>2
  <1>6. ASSUME NEW i \in 1..(n + m)
        PROVE  i \in 1..n \/ \E k \in 1..m : i = n + k
    <2>1. CASE i <= n BY <2>1
    <2>2. CASE i > n
      <3>1. i - n \in 1..m /\ i = n + (i - n) BY <2>2
      <3> QED BY <3>1
    <2> QED BY <2>1, <2>2
  <1>7. \A i \in 1..n : i \in 1..(n + m)  OBVIOUS
  <1>8. \A i \in 1..m : n + i \in 1..(n + m)  OBVIOUS
  <1>9. ToSet(u) = ToSet(s) \union ToSet(t)
    <2>1. ASSUME NEW x \in ToSet(u) PROVE x \in ToSet(s) \union ToSet(t)
      <3>1. PICK i \in 1..(n + m) : x = u[i] BY <1>4 DEF ToSet
      <3> QED BY <1>3, <1>5, <1>6, <3>1 DEF ToSet
    <2>2. ASSUME NEW x \in ToSet(s) PROVE x \in ToSet(u)
      <3>1. PICK i \in 1..n : x = s[i] BY <1>3 DEF ToSet
      <3> QED BY <1>4, <1>5, <1>7, <3>1 DEF ToSet
    <2>3. ASSUME NEW x \in ToSet(t) PROVE x \in ToSet(u)
      <3>1. PICK i \in 1..m : x = t[i] BY <1>3 DEF ToSet
      <3> QED BY <1>4, <1>5, <1>8, <3>1 DEF ToSet
    <2> QED BY <2>1, <2>2, <2>3
  <1>10. ASSUME IsInjective(s), IsInjective(t), ToSet(s) \intersect ToSet(t) = {}
         PROVE  IsInjective(u)
    <2> SUFFICES ASSUME NEW i \in 1..(n + m), NEW j \in 1..(n + m), u[i] = u[j]
                 PROVE  i = j
      BY <1>4 DEF IsInjective
    <2>1. \A k \in 1..n : u[k] \in ToSet(s) BY <1>3, <1>5 DEF ToSet
    <2>2. \A k \in 1..m : u[n + k] \in ToSet(t) BY <1>3, <1>5 DEF ToSet
    <2>3. CASE i \in 1..n /\ j \in 1..n
      <3>1. s[i] = s[j] BY <1>5, <2>3
      <3> QED BY <1>3, <1>10, <2>3, <3>1 DEF IsInjective
    <2>4. ASSUME NEW k \in 1..m, NEW l \in 1..m, i = n + k, j = n + l PROVE i = j
      <3>1. t[k] = t[l] BY <1>5, <2>4
      <3>2. k = l BY <1>3, <1>10, <3>1 DEF IsInjective
      <3> QED BY <2>4, <3>2
    <2>5. ASSUME i \in 1..n, NEW l \in 1..m, j = n + l PROVE FALSE
      <3>1. u[i] \in ToSet(s) /\ u[j] \in ToSet(t) BY <2>1, <2>2, <2>5
      <3> QED BY <1>10, <3>1
    <2>6. ASSUME j \in 1..n, NEW k \in 1..m, i = n + k PROVE FALSE
      <3>1. u[j] \in ToSet(s) /\ u[i] \in ToSet(t) BY <2>1, <2>2, <2>6
      <3> QED BY <1>10, <3>1
    <2> QED BY <1>6, <2>3, <2>4, <2>5, <2>6
  <1> QED BY <1>1, <1>4, <1>9, <1>10

ListingTypes ==
  /\ collection \in SUBSET Ids /\ lasting \in SUBSET collection
  /\ cursor \in Nat /\ 0 \notin cursors
  /\ listed \in Seq(Ids) /\ pagesRead \in Nat
  /\ lister \in ById \union ByToken \union Own
  /\ listing \in {"asking", "done", "failed"}

\* While pages are asked for, no row up to the cursor is missing that was always there.
NoneMissed ==
  listing = "asking" => \A id \in lasting : id <= cursor => id \in ToSet(listed)

\* The service's own cursor is behind all that it has listed.
OwnInOrder ==
  lister \in Own /\ listing = "asking" => \A id \in ToSet(listed) : id <= cursor

WithinLimits ==
  /\ pagesRead <= PagesLimit /\ (listing = "asking" => pagesRead < PagesLimit)
  /\ lister \notin Own => Len(listed) <= ItemsLimit

DoneIsWhole == IsInjective(listed) /\ (listing = "done" => lasting \subseteq ToSet(listed))

ListingInv == ListingTypes /\ NoneMissed /\ OwnInOrder /\ WithinLimits /\ DoneIsWhole

\* Whoever lists, a request raises, or takes a page: from the cursor or from the start,
\* all there is behind it or up to the next cursor, and nothing for the second time.
PageTaken(page, position) ==
  /\ page.rows = PageRows(position) /\ position \in {cursor, 0}
  /\ lister \in Own => position = cursor
  /\ ToSet(page.rows) \intersect ToSet(listed) = {}
  /\ lister \notin Own => Len(listed) + Len(page.rows) <= ItemsLimit
  /\ \/ ReturnPage(page) /\ ToSet(page.rows) = Behind(position)
     \/ Follow(page) /\ page.next = LastRow(page.rows) /\ page.next # 0

LEMMA PagesAre ==
  ASSUME NEW page \in ProviderPages
  PROVE  \E position \in {cursor, 0} :
           /\ page.rows = PageRows(position)
           /\ ~page.more => ~More(position)
           /\ lister \notin ById =>
                page.next \in {LastRow(page.rows)} \union cursors
                                \union (IF More(position) THEN {} ELSE {0})
  <1>1. PICK position \in {cursor, 0} :
          page \in {[rows |-> PageRows(position), more |-> more, next |-> next] :
            more \in {TRUE, More(position)},
            next \in IF lister \in ById THEN Ids \union {0}
                     ELSE {LastRow(PageRows(position))} \union cursors
                            \union (IF More(position) THEN {} ELSE {0})}
    BY DEF ProviderPages
  <1>2. PICK more \in {TRUE, More(position)},
             next \in IF lister \in ById THEN Ids \union {0}
                      ELSE {LastRow(PageRows(position))} \union cursors
                             \union (IF More(position) THEN {} ELSE {0}) :
          page = [rows |-> PageRows(position), more |-> more, next |-> next]
    BY <1>1
  <1>3. page.rows = PageRows(position) /\ page.more = more /\ page.next = next BY <1>2
  <1>4. ~more => ~More(position) BY <1>2
  <1> QED BY <1>2, <1>3, <1>4

\* A page without rows is the last.
LEMMA CursorZero ==
  ASSUME ListingInv, NEW position \in {cursor, 0}, NEW found, found = PageRows(position),
         LastRow(found) = 0
  PROVE  ToSet(found) = Behind(position)
  <1>1. collection \in SUBSET Ids /\ position \in Nat BY DEF ListingInv, ListingTypes
  <1>2. /\ ToSet(found) \subseteq Behind(position)
        /\ found = <<>> => Behind(position) = {}
        /\ found # <<>> => LastRow(found) \in ToSet(found)
    BY <1>1, RowsOfPage
  <1>3. 0 \notin Behind(position) BY <1>1 DEF Behind
  <1> QED BY <1>2, <1>3

LEMMA PagesTaken ==
  ASSUME ListingInv, ListingStep
  PROVE  Raise \/ \E page : \E position : PageTaken(page, position)
  <1>1. ListingTypes /\ listing = "asking" BY DEF ListingInv, ListingStep
  <1>2. ASSUME NEW page \in ProviderPages, lister \in ById, IdPage(page)
        PROVE  Raise \/ \E position : PageTaken(page, position)
    <2>1. PICK position \in {cursor, 0} :
            page.rows = PageRows(position) /\ (~page.more => ~More(position))
      BY PagesAre
    <2>2. lister \notin Own BY <1>2 DEF ById, Own
    <2>3. CASE ~Accepted(page) BY <1>2, <2>3 DEF IdPage
    <2>4. CASE Accepted(page) /\ ~page.more
      <3>1. ReturnPage(page) BY <1>2, <2>4 DEF IdPage
      <3>2. ToSet(page.rows) = Behind(position)
        <4>1. collection \in SUBSET Ids /\ position \in Nat BY <1>1 DEF ListingTypes
        <4> QED BY <2>1, <2>4, <4>1, RowsOfPage
      <3> QED BY <2>1, <2>2, <2>4, <3>1, <3>2 DEF Accepted, PageTaken
    <2>5. CASE Accepted(page) /\ page.more /\ RowCursor(page)
      <3>1. Follow(page) BY <1>2, <2>5 DEF IdPage
      <3>2. page.next = LastRow(page.rows) /\ page.next # 0
        BY <2>5 DEF RowCursor, NamedCursor
      <3> QED BY <2>1, <2>2, <2>5, <3>1, <3>2 DEF Accepted, PageTaken
    <2>6. CASE Accepted(page) /\ page.more /\ ~RowCursor(page) BY <1>2, <2>6 DEF IdPage
    <2> QED BY <2>3, <2>4, <2>5, <2>6
  <1>3. ASSUME NEW page \in ProviderPages, lister \in ByToken,
               \/ Raise
               \/ Accepted(page) /\ page.next = 0 /\ ReturnPage(page)
               \/ Accepted(page) /\ TokenCursor(page) /\ Follow(page)
        PROVE  Raise \/ \E position : PageTaken(page, position)
    <2>1. lister \notin ById /\ lister \notin Own BY <1>3 DEF ById, Own, ByToken
    <2>2. PICK position \in {cursor, 0} :
            /\ page.rows = PageRows(position)
            /\ page.next \in {LastRow(page.rows)} \union cursors
                               \union (IF More(position) THEN {} ELSE {0})
      BY <2>1, PagesAre
    <2>3. CASE Accepted(page) /\ page.next = 0 /\ ReturnPage(page)
      <3>1. LastRow(page.rows) = 0 \/ ~More(position) BY <1>1, <2>2, <2>3 DEF ListingTypes
      <3>2. collection \in SUBSET Ids /\ position \in Nat BY <1>1 DEF ListingTypes
      <3>3. ToSet(page.rows) = Behind(position) BY <2>2, <3>1, <3>2, CursorZero, RowsOfPage
      <3> QED BY <2>1, <2>2, <2>3, <3>3 DEF Accepted, PageTaken
    <2>4. CASE Accepted(page) /\ TokenCursor(page) /\ Follow(page)
      <3>1. page.next = LastRow(page.rows) /\ page.next # 0 BY <2>2, <2>4 DEF TokenCursor
      <3> QED BY <2>1, <2>2, <2>4, <3>1 DEF Accepted, PageTaken
    <2> QED BY <1>3, <2>3, <2>4
  <1>4. CASE OpenAIAdminPage \/ AnthropicAdminPage \/ ActivityPage
    <2>1. lister \in ById /\ IdListing
      BY <1>4 DEF OpenAIAdminPage, AnthropicAdminPage, ActivityPage, ById
    <2> QED BY <1>2, <2>1 DEF IdListing, RequestFails
  <1>5. CASE OrganizationPage
    <2>1. lister \in ByToken BY <1>5 DEF OrganizationPage, ByToken
    <2>2. CASE RequestFails BY <2>2 DEF RequestFails
    <2>3. CASE ~RequestFails
      <3>1. PICK page \in ProviderPages :
              IF ~Accepted(page) THEN Raise
              ELSE IF page.more THEN IF TokenCursor(page) THEN Follow(page) ELSE Raise
              ELSE IF page.next = 0 THEN ReturnPage(page) ELSE Raise
        BY <1>5, <2>3 DEF OrganizationPage
      <3> QED BY <1>3, <2>1, <3>1
    <2> QED BY <2>2, <2>3
  <1>6. CASE ManagedAgentPage \/ AgentMemoryPage
    <2>1. lister \in ByToken /\ TokenListing BY <1>6 DEF ManagedAgentPage, AgentMemoryPage, ByToken
    <2>2. CASE RequestFails BY <2>2 DEF RequestFails
    <2>3. CASE ~RequestFails
      <3>1. PICK page \in ProviderPages : TokenPage(page) BY <2>1, <2>3 DEF TokenListing
      <3> QED BY <1>3, <2>1, <3>1 DEF TokenPage
    <2> QED BY <2>2, <2>3
  <1>7. CASE FilesPage \/ BatchesPage
    <2>1. lister \in Own /\ OwnPage BY <1>7 DEF FilesPage, BatchesPage, Own
    <2>2. PICK found : found = PageRows(cursor) OBVIOUS
    <2>3. collection \in SUBSET Ids /\ cursor \in Nat BY <1>1 DEF ListingTypes
    <2>4. /\ ToSet(found) \subseteq Behind(cursor)
          /\ ~More(cursor) => ToSet(found) = Behind(cursor)
          /\ found = <<>> => Behind(cursor) = {}
          /\ found # <<>> => LastRow(found) \in ToSet(found)
      BY <2>2, <2>3, RowsOfPage
    <2>5. ToSet(found) \intersect ToSet(listed) = {}
      <3>1. \A id \in Behind(cursor) : id \in Nat /\ id > cursor
        BY <2>3, ListingAssumption DEF Behind
      <3>2. \A id \in ToSet(listed) : id <= cursor BY <1>1, <2>1 DEF ListingInv, OwnInOrder
      <3>3. ASSUME NEW id \in ToSet(found), id \in ToSet(listed) PROVE FALSE
        <4>1. id \in Nat /\ id > cursor /\ id <= cursor BY <2>4, <3>1, <3>2, <3>3
        <4> QED BY <2>3, <4>1
      <3> QED BY <3>3
    <2>6. CASE More(cursor)
      <3>1. Follow([rows |-> found, next |-> OwnCursor(found)]) BY <2>1, <2>2, <2>6 DEF OwnPage
      <3>2. PICK page : page = [rows |-> found, next |-> OwnCursor(found)] OBVIOUS
      <3>3. page.rows = found /\ page.next = LastRow(found) BY <3>2 DEF OwnCursor
      <3>4. Behind(cursor) # {}
        <4>1. Cardinality(Behind(cursor)) > PageLimit BY <2>6 DEF More
        <4>2. Cardinality({}) = 0 /\ ~(0 > PageLimit) BY FS_EmptySet, ListingAssumption
        <4> QED BY <4>1, <4>2
      <3>5. LastRow(found) # 0
        <4>1. LastRow(found) \in Behind(cursor) BY <2>4, <3>4
        <4> QED BY <2>3, <4>1 DEF Behind
      <3>6. PageTaken(page, cursor) BY <2>1, <2>2, <2>5, <3>1, <3>2, <3>3, <3>5 DEF PageTaken
      <3> QED BY <3>6
    <2>7. CASE ~More(cursor)
      <3>1. ReturnPage([rows |-> found]) BY <2>1, <2>2, <2>7 DEF OwnPage
      <3>2. PICK page : page = [rows |-> found] OBVIOUS
      <3>3. page.rows = found BY <3>2
      <3>4. PageTaken(page, cursor)
        BY <2>1, <2>2, <2>4, <2>5, <2>7, <3>1, <3>2, <3>3 DEF PageTaken
      <3> QED BY <3>4
    <2> QED BY <2>6, <2>7
  <1>8. CASE ConversionFails BY <1>8 DEF ConversionFails
  <1> QED BY <1>4, <1>5, <1>6, <1>7, <1>8 DEF ListingStep

LEMMA StepKeepsListing ==
  ASSUME ListingInv, ListingStep
  PROVE  ListingInv'
  <1>1. /\ listing = "asking" /\ collection' = collection /\ lasting' = lasting /\ lister' = lister
    BY DEF ListingStep
  <1>2. ListingTypes /\ NoneMissed /\ OwnInOrder /\ WithinLimits /\ DoneIsWhole BY DEF ListingInv
  <1>3. PagesLimit \in Nat /\ ItemsLimit \in Nat /\ Ids \subseteq Nat \ {0}
    BY ListingAssumption
  <1>4. CASE Raise
    <2>1. /\ listing' = "failed" /\ pagesRead' = pagesRead + 1
          /\ listed' = listed /\ cursor' = cursor /\ cursors' = cursors
      BY <1>4 DEF Raise
    <2>2. ListingTypes' BY <1>1, <1>2, <2>1 DEF ListingTypes
    <2>3. WithinLimits' BY <1>1, <1>2, <1>3, <2>1 DEF WithinLimits, ListingTypes
    <2>4. NoneMissed' /\ OwnInOrder' BY <2>1 DEF NoneMissed, OwnInOrder
    <2>5. DoneIsWhole' BY <1>2, <2>1 DEF DoneIsWhole
    <2> QED BY <2>2, <2>3, <2>4, <2>5 DEF ListingInv
  <1>5. ASSUME NEW page, NEW position, PageTaken(page, position) PROVE ListingInv'
    <2>1. PICK found : found = page.rows OBVIOUS
    <2>2. /\ found = PageRows(position) /\ position \in {cursor, 0}
          /\ lister \in Own => position = cursor
          /\ ToSet(found) \intersect ToSet(listed) = {}
          /\ lister \notin Own => Len(listed) + Len(found) <= ItemsLimit
          /\ listed' = listed \o found /\ pagesRead' = pagesRead + 1
          /\ \/ /\ ToSet(found) = Behind(position) /\ listing' = "done"
                /\ cursor' = cursor /\ cursors' = cursors
             \/ /\ listing' = (IF pagesRead + 1 = PagesLimit THEN "failed" ELSE "asking")
                /\ cursor' = LastRow(found) /\ cursor' # 0 /\ cursors' = cursors \union {cursor'}
      BY <1>5, <2>1 DEF PageTaken, ReturnPage, Follow
    <2>3. collection \in SUBSET Ids /\ position \in Nat /\ cursor \in Nat
      BY <1>2, <2>2 DEF ListingTypes
    <2>4. /\ found \in Seq(Ids) /\ IsInjective(found) /\ LastRow(found) \in Nat
          /\ ToSet(found) \subseteq Behind(position)
          /\ \A id \in ToSet(found) : id <= LastRow(found)
          /\ \A id \in Behind(position) : id <= LastRow(found) => id \in ToSet(found)
          /\ found # <<>> => LastRow(found) \in ToSet(found)
      BY <2>2, <2>3, RowsOfPage
    <2>5. /\ listed' \in Seq(Ids) /\ IsInjective(listed')
          /\ ToSet(listed') = ToSet(listed) \union ToSet(found)
          /\ Len(listed') = Len(listed) + Len(found)
      <3>1. listed \in Seq(Ids) /\ IsInjective(listed) BY <1>2 DEF ListingTypes, DoneIsWhole
      <3>2. Len(listed \o found) = Len(listed) + Len(found) BY <2>4, <3>1
      <3> QED BY <2>2, <2>4, <3>1, <3>2, ItemsJoined
    <2>6. ListingTypes'
      <3>1. cursor' \in Nat /\ 0 \notin cursors' /\ listing' \in {"asking", "done", "failed"}
        BY <1>2, <2>2, <2>4 DEF ListingTypes
      <3>2. pagesRead' \in Nat BY <1>2, <2>2 DEF ListingTypes
      <3> QED BY <1>1, <1>2, <2>5, <3>1, <3>2 DEF ListingTypes
    <2>7. WithinLimits'
      <3>1. pagesRead \in Nat /\ pagesRead < PagesLimit BY <1>1, <1>2 DEF ListingTypes, WithinLimits
      <3>2. pagesRead' <= PagesLimit /\ (listing' = "asking" => pagesRead' < PagesLimit)
        BY <1>3, <2>2, <3>1
      <3> QED BY <1>1, <2>2, <2>5, <3>2 DEF WithinLimits
    <2>8. ASSUME NEW id \in lasting, id <= cursor \/ id \in Behind(position) => id \in ToSet(listed')
          PROVE  id \in ToSet(listed')
      <3>1. id \in collection /\ id \in Nat /\ id > 0 BY <1>2, <1>3 DEF ListingTypes
      <3>2. id > position => id \in Behind(position) BY <3>1 DEF Behind
      <3> QED BY <2>2, <2>3, <2>8, <3>1, <3>2
    <2>9. ASSUME NEW id \in lasting, id \in Behind(position) => id \in ToSet(found)
          PROVE  id \in ToSet(listed')
      <3>1. id <= cursor => id \in ToSet(listed) BY <1>1, <1>2 DEF NoneMissed
      <3> QED BY <2>5, <2>8, <2>9, <3>1
    <2>10. NoneMissed'
      <3> SUFFICES ASSUME listing' = "asking", NEW id \in lasting, id <= cursor'
                   PROVE  id \in ToSet(listed')
        BY <1>1 DEF NoneMissed
      <3>1. cursor' = LastRow(found) BY <2>2
      <3> QED BY <2>4, <2>9, <3>1
    <2>11. OwnInOrder'
      <3> SUFFICES ASSUME lister \in Own, listing' = "asking", NEW id \in ToSet(listed')
                   PROVE  id <= cursor'
        BY <1>1 DEF OwnInOrder
      <3>1. cursor' = LastRow(found) /\ cursor' # 0 BY <2>2
      <3>2. found # <<>> BY <3>1 DEF LastRow
      <3>3. LastRow(found) \in Behind(position) /\ position = cursor BY <2>2, <2>4, <3>2
      <3>4. LastRow(found) > cursor BY <3>3 DEF Behind
      <3>5. CASE id \in ToSet(listed)
        <4>1. id <= cursor BY <1>1, <1>2, <3>5 DEF OwnInOrder
        <4>2. id \in Nat
          <5>1. listed \in Seq(Ids) BY <1>2 DEF ListingTypes
          <5>2. PICK i \in DOMAIN listed : id = listed[i] BY <3>5 DEF ToSet
          <5>3. listed[i] \in Ids BY <5>1
          <5> QED BY <1>3, <5>2, <5>3
        <4> QED BY <2>3, <2>4, <3>1, <3>4, <4>1, <4>2
      <3>6. CASE id \in ToSet(found) BY <2>4, <3>1, <3>6
      <3> QED BY <2>5, <3>5, <3>6
    <2>12. DoneIsWhole'
      <3> SUFFICES ASSUME listing' = "done", NEW id \in lasting PROVE id \in ToSet(listed')
        BY <1>1, <2>5 DEF DoneIsWhole
      <3>1. ToSet(found) = Behind(position) BY <2>2
      <3> QED BY <2>9, <3>1
    <2> QED BY <2>6, <2>7, <2>10, <2>11, <2>12 DEF ListingInv
  <1> QED BY <1>4, <1>5, PagesTaken

(***************************************************************************)
(* What a listing promises, for rows, pages and limits of any number and   *)
(* each of the eight clients: one that returns is whole.                   *)
(***************************************************************************)
THEOREM ListingsAreWhole == ListingSpec => []ListingWhole
  <1>1. ListingInit => ListingInv
    <2> SUFFICES ASSUME ListingInit PROVE ListingInv OBVIOUS
    <2>1. listed = <<>> /\ ToSet(listed) = {} /\ Len(listed) = 0 BY DEF ListingInit, ToSet
    <2>2. ListingTypes BY <2>1 DEF ListingInit, ListingTypes
    <2>3. NoneMissed
      <3>1. \A id \in lasting : ~(id <= 0) BY ListingAssumption DEF ListingInit
      <3> QED BY <3>1 DEF ListingInit, NoneMissed
    <2>4. OwnInOrder BY <2>1 DEF OwnInOrder
    <2>5. WithinLimits BY <2>1, ListingAssumption DEF ListingInit, WithinLimits
    <2>6. DoneIsWhole BY <2>1 DEF ListingInit, DoneIsWhole, IsInjective
    <2> QED BY <2>2, <2>3, <2>4, <2>5, <2>6 DEF ListingInv
  <1>2. ListingInv /\ [ListingNext]_listingVars => ListingInv'
    <2> SUFFICES ASSUME ListingInv, [ListingNext]_listingVars PROVE ListingInv' OBVIOUS
    <2>1. CASE ListingStep BY <2>1, StepKeepsListing
    <2>2. CASE Edit
      <3>1. /\ collection' \in SUBSET Ids /\ lasting' = lasting \intersect collection'
            /\ UNCHANGED <<lister, cursor, cursors, listed, pagesRead, listing>>
        BY <2>2 DEF Edit, ListingInv, ListingTypes
      <3> QED BY <3>1 DEF ListingInv, ListingTypes, NoneMissed, OwnInOrder, WithinLimits, DoneIsWhole
    <2>3. CASE UNCHANGED listingVars
      BY <2>3 DEF listingVars, ListingInv, ListingTypes, NoneMissed, OwnInOrder, WithinLimits,
                  DoneIsWhole
    <2> QED BY <2>1, <2>2, <2>3 DEF ListingNext
  <1>3. ListingInv => ListingWhole
    BY DEF ListingInv, ListingWhole, WithinLimits, DoneIsWhole
  <1> QED BY <1>1, <1>2, <1>3, PTL DEF ListingSpec

-----------------------------------------------------------------------------
(* BatchResults: the lines of the output file                               *)

OutputTokens == Letters \union {Newline}

\* How many lines begin up to a position of the file.
LinesTo(k) == Cardinality({s \in LineStarts : s <= k})

LEMMA LinesFinite ==
  ASSUME output \in Seq(OutputTokens)
  PROVE  /\ LineStarts \in SUBSET Nat /\ IsFiniteSet(LineStarts)
         /\ LineStarts \in SUBSET (1..Len(output)) /\ Len(output) \in Nat
         /\ Cardinality(LineStarts) \in Nat /\ Len(OutputLines) = Cardinality(LineStarts)
         /\ DOMAIN OutputLines = 1..Cardinality(LineStarts)
         /\ \A k \in Nat : LinesTo(k) \in Nat /\ LinesTo(k) <= Cardinality(LineStarts)
  <1>1. Len(output) \in Nat /\ DOMAIN output = 1..Len(output) OBVIOUS
  <1>2. LineStarts \in SUBSET (1..Len(output)) BY <1>1 DEF LineStarts
  <1>3. IsFiniteSet(1..Len(output))
    <2>1. 1 \in Int /\ Len(output) \in Int BY <1>1
    <2> QED BY <2>1, FS_Interval
  <1>4. IsFiniteSet(LineStarts) BY <1>2, <1>3, FS_Subset
  <1>5. Cardinality(LineStarts) \in Nat BY <1>4, FS_CardinalityType
  <1>6. /\ DOMAIN OutputLines = 1..Cardinality(LineStarts)
        /\ Len(OutputLines) = Cardinality(LineStarts)
    <2>1. PICK S : S = {LineAt(Ascending(LineStarts)[n]) : n \in 1..Cardinality(LineStarts)}
      OBVIOUS
    <2>2. OutputLines \in [1..Cardinality(LineStarts) -> S] BY <2>1 DEF OutputLines
    <2> QED BY <1>5, <2>2
  <1>7. ASSUME NEW k \in Nat PROVE LinesTo(k) \in Nat /\ LinesTo(k) <= Cardinality(LineStarts)
    <2>1. PICK T : T = {s \in LineStarts : s <= k} OBVIOUS
    <2>2. T \in SUBSET LineStarts BY <2>1
    <2>3. IsFiniteSet(T) /\ Cardinality(T) <= Cardinality(LineStarts) BY <1>4, <2>2, FS_Subset
    <2>4. Cardinality(T) \in Nat BY <2>3, FS_CardinalityType
    <2> QED BY <2>1, <2>3, <2>4 DEF LinesTo
  <1> QED BY <1>1, <1>2, <1>4, <1>5, <1>6, <1>7

\* The line between two newlines, or behind the last one.
LEMMA LineIs ==
  ASSUME output \in Seq(OutputTokens), NEW k \in Nat, NEW e \in Nat,
         k + 1 < e, e <= Len(output) + 1, k = 0 \/ output[k] = Newline,
         \A j \in (k + 1)..(e - 1) : output[j] # Newline,
         e = Len(output) + 1 \/ output[e] = Newline
  PROVE  k + 1 \in LineStarts /\ LineAt(k + 1) = SubSeq(output, k + 1, e - 1)
  <1>1. Len(output) \in Nat /\ DOMAIN output = 1..Len(output) OBVIOUS
  <1>2. k + 1 \in LineStarts
    <2>1. k + 1 \in 1..Len(output) /\ k + 1 \in (k + 1)..(e - 1) BY <1>1
    <2>2. output[k + 1] # Newline BY <2>1
    <2>3. k + 1 = 1 \/ output[(k + 1) - 1] = Newline
      <3>1. (k + 1) - 1 = k OBVIOUS
      <3> QED BY <3>1
    <2> QED BY <1>1, <2>1, <2>2, <2>3 DEF LineStarts
  <1> DEFINE Ending(i) == /\ \A j \in (k + 1)..i : output[j] # Newline
                          /\ i = Len(output) \/ output[i + 1] = Newline
  <1>3. e - 1 \in (k + 1)..Len(output) /\ Ending(e - 1)
    <2>1. e - 1 \in (k + 1)..Len(output) BY <1>1
    <2>2. e - 1 = Len(output) \/ output[(e - 1) + 1] = Newline
      <3>1. (e - 1) + 1 = e /\ (e = Len(output) + 1 => e - 1 = Len(output)) BY <1>1
      <3> QED BY <3>1
    <2> QED BY <2>1, <2>2
  <1>4. ASSUME NEW i \in (k + 1)..Len(output), Ending(i) PROVE i = e - 1
    <2>1. ~(i < e - 1)
      <3> SUFFICES ASSUME i < e - 1 PROVE FALSE OBVIOUS
      <3>1. i \in Nat /\ k + 1 <= i /\ i <= Len(output) BY <1>1
      <3>2. i + 1 \in (k + 1)..(e - 1) BY <3>1
      <3>3. i # Len(output)
        <4> SUFFICES ASSUME i = Len(output) PROVE FALSE OBVIOUS
        <4>1. e - 1 <= i BY <1>1
        <4> QED BY <3>1, <4>1
      <3>4. output[i + 1] # Newline BY <3>2
      <3> QED BY <1>4, <3>3, <3>4
    <2>2. ~(e - 1 < i)
      <3> SUFFICES ASSUME e - 1 < i PROVE FALSE OBVIOUS
      <3>1. e \in (k + 1)..i /\ e # Len(output) + 1 BY <1>1
      <3>2. output[e] # Newline BY <1>4, <3>1
      <3> QED BY <3>1, <3>2
    <2> QED BY <1>1, <2>1, <2>2
  <1>5. (CHOOSE i \in (k + 1)..Len(output) : Ending(i)) = e - 1
    <2> HIDE DEF Ending
    <2> QED BY <1>3, <1>4
  <1>6. LineAt(k + 1) = SubSeq(output, k + 1, CHOOSE i \in (k + 1)..Len(output) : Ending(i))
    BY DEF LineAt
  <1> QED BY <1>2, <1>5, <1>6

\* It is the next one.
LEMMA NextLine ==
  ASSUME output \in Seq(OutputTokens), NEW k \in Nat, NEW e \in Nat,
         k + 1 < e, e <= Len(output) + 1, k = 0 \/ output[k] = Newline,
         \A j \in (k + 1)..(e - 1) : output[j] # Newline,
         e = Len(output) + 1 \/ output[e] = Newline
  PROVE  /\ LinesTo(k) + 1 \in DOMAIN OutputLines
         /\ OutputLines[LinesTo(k) + 1] = SubSeq(output, k + 1, e - 1)
         /\ LinesTo(e) = LinesTo(k) + 1
  <1>1. /\ k + 1 \in LineStarts /\ LineAt(k + 1) = SubSeq(output, k + 1, e - 1)
    BY LineIs
  <1>2. /\ LineStarts \in SUBSET Nat /\ IsFiniteSet(LineStarts)
        /\ LineStarts \in SUBSET (1..Len(output)) /\ Len(output) \in Nat
        /\ LinesTo(k) \in Nat /\ Cardinality(LineStarts) \in Nat
        /\ DOMAIN OutputLines = 1..Cardinality(LineStarts)
    BY LinesFinite
  <1>3. PICK T : T = {s \in LineStarts : s <= k} OBVIOUS
  <1>4. T = {s \in LineStarts : s < k + 1}
    <2>1. \A s \in LineStarts : s \in Nat BY <1>2
    <2>2. \A s \in LineStarts : s <= k <=> s < k + 1 BY <2>1
    <2> QED BY <1>3, <2>2
  <1>5. Below(LineStarts, k + 1) = LinesTo(k) BY <1>3, <1>4 DEF Below, LinesTo
  <1>6. PICK n \in 1..Cardinality(LineStarts) : n = LinesTo(k) + 1
    <2>1. Below(LineStarts, k + 1) \in 0..(Cardinality(LineStarts) - 1) BY <1>1, <1>2, BelowGrows
    <2> QED BY <1>2, <1>5, <2>1
  <1>7. PICK o : o = Ascending(LineStarts) OBVIOUS
  <1>8. PICK s \in LineStarts : s = o[n] /\ Below(LineStarts, s) = n - 1
    <2>1. \A i \in 1..Cardinality(LineStarts) :
            o[i] \in LineStarts /\ Below(LineStarts, o[i]) = i - 1
      BY <1>2, <1>7, AscendingIs
    <2> QED BY <2>1
  <1>9. s = k + 1
    <2>1. PICK x \in LineStarts : x = k + 1 BY <1>1
    <2>2. Below(LineStarts, s) = Below(LineStarts, x) /\ Below(LineStarts, x) \in Int
      BY <1>2, <1>5, <1>6, <1>8, <2>1
    <2>3. ~(s < x) /\ ~(x < s) BY <1>2, <2>2, BelowGrows
    <2>4. s \in Nat /\ x \in Nat BY <1>2
    <2> QED BY <2>1, <2>3, <2>4
  <1>10. OutputLines[n] = LineAt(k + 1) BY <1>7, <1>8, <1>9 DEF OutputLines
  <1>11. {x \in LineStarts : x <= e} = T \union {k + 1}
    <2>1. ASSUME NEW x \in LineStarts, x <= e PROVE x \in T \union {k + 1}
      <3>1. x \in 1..Len(output) /\ output[x] # Newline /\ (x = 1 \/ output[x - 1] = Newline)
        BY <1>2 DEF LineStarts
      <3>2. x # e BY <1>2, <3>1
      <3>3. ~(k + 1 < x)
        <4> SUFFICES ASSUME k + 1 < x PROVE FALSE OBVIOUS
        <4>1. x - 1 \in (k + 1)..(e - 1) /\ x # 1 BY <1>2, <2>1, <3>1, <3>2
        <4> QED BY <3>1, <4>1
      <3> QED BY <1>3, <3>1, <3>3
    <2>2. \A x \in T \union {k + 1} : x \in LineStarts /\ x <= e BY <1>1, <1>2, <1>3
    <2> QED BY <2>1, <2>2
  <1>12. Cardinality(T \union {k + 1}) = Cardinality(T) + 1
    <2>1. k + 1 \notin T BY <1>3
    <2>2. IsFiniteSet(T)
      <3>1. T \in SUBSET LineStarts BY <1>3
      <3> QED BY <1>2, <3>1, FS_Subset
    <2> QED BY <2>1, <2>2, FS_AddElement
  <1>13. LinesTo(e) = LinesTo(k) + 1 BY <1>3, <1>11, <1>12 DEF LinesTo
  <1> QED BY <1>1, <1>2, <1>6, <1>10, <1>13

\* A blank line is none.
LEMMA BlankLine ==
  ASSUME output \in Seq(OutputTokens), NEW k \in Nat, output[k + 1] = Newline
  PROVE  LinesTo(k + 1) = LinesTo(k)
  <1>1. LineStarts \in SUBSET Nat BY LinesFinite
  <1>2. k + 1 \notin LineStarts BY DEF LineStarts
  <1>3. {s \in LineStarts : s <= k + 1} = {s \in LineStarts : s <= k}
    <2>1. \A s \in LineStarts : s \in Nat /\ s # k + 1 BY <1>1, <1>2
    <2>2. \A s \in LineStarts : s <= k + 1 <=> s <= k BY <2>1
    <2> QED BY <2>2
  <1> QED BY <1>3 DEF LinesTo

\* Up to its end and beyond, the file has all its lines; before its start none.
LEMMA AllLines ==
  ASSUME output \in Seq(OutputTokens)
  PROVE  /\ LinesTo(Len(output)) = Cardinality(LineStarts)
         /\ LinesTo(Len(output) + 1) = Cardinality(LineStarts)
         /\ LinesTo(0) = 0
  <1>1. LineStarts \in SUBSET (1..Len(output)) /\ Len(output) \in Nat BY LinesFinite
  <1> PICK n \in Nat : n = Len(output) BY <1>1
  <1>2. \A s \in LineStarts : s \in 1..n BY <1>1
  <1>3. \A s \in LineStarts : s <= n /\ s <= n + 1 /\ ~(s <= 0) BY <1>2
  <1>4. /\ {s \in LineStarts : s <= n} = LineStarts
        /\ {s \in LineStarts : s <= n + 1} = LineStarts
        /\ {s \in LineStarts : s <= 0} = {}
    BY <1>3
  <1> QED BY <1>4, FS_EmptySet DEF LinesTo

ResultsTypes ==
  /\ output \in Seq(OutputTokens) /\ lineBuffer \in Seq(OutputTokens)
  /\ passedOn \in Seq(Seq(OutputTokens))
  /\ arrived \in 0..Len(output) /\ Len(lineBuffer) <= arrived
  /\ resultsReader \in {"reading", "draining", "complete", "refused", "broken"}

CutSoFar == arrived - Len(lineBuffer)

\* What has been cut off ends with a line, and all of its lines were passed on; the
\* buffer holds the rest of what arrived, to be drained while a line is whole.
CutAtLine ==
  resultsReader \in {"reading", "draining"} =>
    /\ CutSoFar = 0 \/ output[CutSoFar] = Newline
    /\ \A i \in 1..Len(lineBuffer) : lineBuffer[i] = output[CutSoFar + i]
    /\ Len(passedOn) = LinesTo(CutSoFar)
    /\ resultsReader = "draining" <=> Newline \in ToSet(lineBuffer)

PassedInOrder ==
  /\ Len(passedOn) <= Len(OutputLines)
  /\ \A i \in 1..Len(passedOn) : passedOn[i] = OutputLines[i]
  /\ Acceptable(passedOn)

Completed == resultsReader = "complete" => Len(passedOn) = Len(OutputLines)

\* The file itself gives a reason to refuse it.
AtFault == ~Acceptable(OutputLines)

RefusedForReason == resultsReader = "refused" => AtFault

ResultsInv == ResultsTypes /\ CutAtLine /\ PassedInOrder /\ Completed /\ RefusedForReason

\* The file stays the same, and so do its lines.
LEMMA SameLines ==
  ASSUME output' = output
  PROVE  /\ LineStarts' = LineStarts /\ OutputLines' = OutputLines /\ AtFault' = AtFault
         /\ \A k : LinesTo(k)' = LinesTo(k)
  <1>1. LineStarts' = LineStarts BY DEF LineStarts
  <1>2. \A start : LineAt(start)' = LineAt(start) BY DEF LineAt
  <1>3. OutputLines' = OutputLines BY <1>1, <1>2 DEF OutputLines
  <1>4. AtFault' = AtFault BY <1>3 DEF AtFault, Acceptable, LineBytes, Parses
  <1>5. \A k : LinesTo(k)' = LinesTo(k) BY <1>1 DEF LinesTo
  <1> QED BY <1>1, <1>3, <1>4, <1>5

\* From any position on, the line ends somewhere.
LEMMA LineGoesTo ==
  ASSUME output \in Seq(OutputTokens), NEW k \in Nat, k < Len(output)
  PROVE  \E e \in Nat :
           /\ k < e /\ e <= Len(output) + 1
           /\ \A j \in (k + 1)..(e - 1) : output[j] # Newline
           /\ e = Len(output) + 1 \/ output[e] = Newline
  <1>1. PICK n \in Nat : n = Len(output) OBVIOUS
  <1> DEFINE T == {e \in (k + 1)..(n + 1) : e = n + 1 \/ output[e] = Newline}
  <1>2. T \in SUBSET Nat OBVIOUS
  <1>3. T # {}
    <2>1. n + 1 \in T BY <1>1
    <2> QED BY <2>1
  <1>4. PICK e \in T : \A x \in T : e <= x
    <2> HIDE DEF T
    <2> QED BY <1>2, <1>3, Least
  <1>5. e \in Nat /\ k < e /\ e <= n + 1 /\ (e = n + 1 \/ output[e] = Newline) OBVIOUS
  <1>6. ASSUME NEW j \in (k + 1)..(e - 1) PROVE output[j] # Newline
    <2>1. j \in (k + 1)..(n + 1) /\ ~(e <= j) BY <1>5
    <2>2. j \notin T BY <1>4, <2>1
    <2> QED BY <2>1, <2>2
  <1> QED BY <1>1, <1>5, <1>6

\* The lines are sequences of tokens.
LEMMA LinesAreSeqs ==
  ASSUME output \in Seq(OutputTokens), NEW i \in DOMAIN OutputLines
  PROVE  Len(OutputLines[i]) \in Nat
  <1>1. /\ LineStarts \in SUBSET Nat /\ IsFiniteSet(LineStarts)
        /\ LineStarts \in SUBSET (1..Len(output)) /\ Len(output) \in Nat
        /\ DOMAIN OutputLines = 1..Cardinality(LineStarts)
    BY LinesFinite
  <1>2. PICK n \in 1..Cardinality(LineStarts) : n = i BY <1>1
  <1>3. PICK o : o = Ascending(LineStarts) OBVIOUS
  <1>4. o[n] \in LineStarts
    <2>1. \A x \in 1..Cardinality(LineStarts) : o[x] \in LineStarts
      BY <1>1, <1>3, AscendingIs
    <2> QED BY <2>1
  <1>5. PICK s \in LineStarts : s = o[n] BY <1>4
  <1>6. s \in 1..Len(output) /\ (s = 1 \/ output[s - 1] = Newline) /\ output[s] # Newline
    BY <1>1 DEF LineStarts
  <1>7. PICK k \in Nat : s = k + 1
    <2>1. s - 1 \in Nat /\ s = (s - 1) + 1 BY <1>1, <1>6
    <2> QED BY <2>1
  <1>8. k < Len(output) BY <1>1, <1>6, <1>7
  <1>9. PICK e \in Nat :
          /\ k < e /\ e <= Len(output) + 1
          /\ \A j \in (k + 1)..(e - 1) : output[j] # Newline
          /\ e = Len(output) + 1 \/ output[e] = Newline
    BY <1>8, LineGoesTo
  <1>10. k + 1 < e
    <2>1. e # k + 1 BY <1>1, <1>6, <1>7, <1>8, <1>9
    <2> QED BY <1>9, <2>1
  <1>11. k = 0 \/ output[k] = Newline
    <2>1. s - 1 = k /\ (s = 1 => k = 0) BY <1>7
    <2> QED BY <1>6, <2>1
  <1>12. LineAt(k + 1) = SubSeq(output, k + 1, e - 1) BY <1>9, <1>10, <1>11, LineIs
  <1>13. OutputLines[n] = LineAt(o[n]) BY <1>3 DEF OutputLines
  <1>14. Len(SubSeq(output, k + 1, e - 1)) \in Nat
    <2>1. SubSeq(output, k + 1, e - 1) \in Seq(OutputTokens) BY <1>1, <1>8, <1>9
    <2> QED BY <2>1
  <1> QED BY <1>2, <1>5, <1>7, <1>12, <1>13, <1>14

\* The bytes of lines that begin others are no more than theirs; one more line adds its own.
LEMMA LineBytesGrows ==
  ASSUME NEW s, NEW t, NEW n \in Nat, NEW m \in Nat, n <= m,
         Len(s) = n, DOMAIN s = 1..n, Len(t) = m, DOMAIN t = 1..m,
         \A i \in 1..n : s[i] = t[i], \A i \in 1..m : Len(t[i]) \in Nat
  PROVE  LineBytes(s) \in Int /\ LineBytes(t) \in Int /\ LineBytes(s) <= LineBytes(t)
  <1>1. PICK f : f = [i \in 1..m |-> Len(t[i])] OBVIOUS
  <1>2. PICK g : g = [i \in 1..n |-> Len(s[i])] OBVIOUS
  <1>3. LineBytes(t) = SumTo(f, m) /\ LineBytes(s) = SumTo(g, n) BY <1>1, <1>2 DEF LineBytes
  <1>4. \A k \in 1..m : f[k] \in Nat BY <1>1
  <1>5. SumTo(f, n) \in Int /\ SumTo(f, m) \in Int /\ SumTo(f, n) <= SumTo(f, m)
    BY <1>4, SumGrows
  <1>6. \A k \in 1..n : f[k] \in Int /\ g[k] = f[k]
    <2> TAKE k \in 1..n
    <2>1. k \in 1..m OBVIOUS
    <2> QED BY <1>1, <1>2, <2>1
  <1>7. SumTo(g, n) = SumTo(f, n) BY <1>6, SumSame
  <1> QED BY <1>3, <1>5, <1>7

LEMMA LineBytesNext ==
  ASSUME NEW s, NEW t, NEW n \in Nat, Len(s) = n, DOMAIN s = 1..n,
         Len(t) = n + 1, DOMAIN t = 1..(n + 1),
         \A i \in 1..n : s[i] = t[i], \A i \in 1..(n + 1) : Len(t[i]) \in Nat
  PROVE  LineBytes(t) = LineBytes(s) + Len(t[n + 1])
  <1>1. PICK f : f = [i \in 1..(n + 1) |-> Len(t[i])] OBVIOUS
  <1>2. PICK g : g = [i \in 1..n |-> Len(s[i])] OBVIOUS
  <1>3. LineBytes(t) = SumTo(f, n + 1) /\ LineBytes(s) = SumTo(g, n) BY <1>1, <1>2 DEF LineBytes
  <1>4. \A k \in 1..n : g[k] \in Int /\ f[k] = g[k]
    <2> TAKE k \in 1..n
    <2>1. k \in 1..(n + 1) OBVIOUS
    <2> QED BY <1>1, <1>2, <2>1
  <1>5. f[n + 1] = Len(t[n + 1]) /\ f[n + 1] \in Int
    <2>1. n + 1 \in 1..(n + 1) OBVIOUS
    <2> QED BY <1>1, <2>1
  <1>6. SumTo(f, n + 1) = SumTo(g, n) + f[n + 1] BY <1>4, <1>5, SumNext
  <1> QED BY <1>3, <1>5, <1>6

\* A piece of a sequence.
LEMMA PieceOf ==
  ASSUME NEW S, NEW s \in Seq(S), NEW k \in Nat, NEW e \in Nat, k < e, e <= Len(s) + 1
  PROVE  SubSeq(s, k + 1, e - 1) \in Seq(S) /\ Len(SubSeq(s, k + 1, e - 1)) = e - (k + 1)
  <1>1. PICK n \in Nat : n = Len(s) OBVIOUS
  <1>2. k + 1 \in Nat /\ e - 1 \in Nat /\ e - 1 <= n BY <1>1
  <1> QED BY <1>1, <1>2

\* A line of the file is passed on, or the file is at fault.
LEMMA LineYielded ==
  ASSUME ResultsTypes, PassedInOrder, NEW k \in Nat, NEW e \in Nat, NEW line, NEW next,
         k < e, e <= Len(output) + 1, k = 0 \/ output[k] = Newline,
         \A j \in (k + 1)..(e - 1) : output[j] # Newline,
         e = Len(output) + 1 \/ output[e] = Newline,
         line = SubSeq(output, k + 1, e - 1), Len(passedOn) = LinesTo(k),
         Yielded(line, next), output' = output, Len(line) <= MaxLine
  PROVE  /\ PassedInOrder' /\ passedOn' \in Seq(Seq(OutputTokens))
         /\ \/ resultsReader' = next /\ Len(passedOn') = LinesTo(e)
            \/ resultsReader' = "refused" /\ AtFault
  <1>1. output \in Seq(OutputTokens) /\ passedOn \in Seq(Seq(OutputTokens)) BY DEF ResultsTypes
  <1>2. /\ Len(output) \in Nat /\ OutputLines' = OutputLines
        /\ Len(OutputLines) = Cardinality(LineStarts) /\ Cardinality(LineStarts) \in Nat
        /\ DOMAIN OutputLines = 1..Cardinality(LineStarts)
    BY <1>1, LinesFinite, SameLines
  <1>3. line \in Seq(OutputTokens) /\ Len(line) = e - (k + 1) /\ Len(line) \in Nat
    <2>1. line \in Seq(OutputTokens) /\ Len(line) = e - (k + 1) BY <1>1, PieceOf
    <2> QED BY <2>1
  <1>4. CASE line = <<>>
    <2>1. e = k + 1
      <3>1. PICK l \in Nat : l = Len(line) /\ l = e - (k + 1) BY <1>3
      <3>2. l = 0 BY <1>4, <3>1
      <3> QED BY <3>1, <3>2
    <2>2. LinesTo(e) = LinesTo(k)
      <3>1. CASE output[e] = Newline BY <1>1, <2>1, <3>1, BlankLine
      <3>2. CASE e = Len(output) + 1
        <4>1. k = Len(output) BY <1>2, <2>1, <3>2
        <4> QED BY <1>1, <3>2, <4>1, AllLines
      <3> QED BY <3>1, <3>2
    <2>3. resultsReader' = next /\ passedOn' = passedOn BY <1>4 DEF Yielded
    <2>4. PassedInOrder' BY <1>2, <2>3 DEF PassedInOrder
    <2> QED BY <1>1, <2>2, <2>3, <2>4
  <1>5. CASE line # <<>>
    <2>1. k + 1 < e
      <3>1. Len(line) # 0 BY <1>3, <1>5
      <3> QED BY <1>3, <3>1
    <2>2. /\ LinesTo(k) + 1 \in DOMAIN OutputLines
          /\ OutputLines[LinesTo(k) + 1] = line
          /\ LinesTo(e) = LinesTo(k) + 1
      BY <1>1, <2>1, NextLine
    <2>3. PICK n \in Nat : n = Len(passedOn) BY <1>1
    <2>4. n + 1 \in DOMAIN OutputLines /\ OutputLines[n + 1] = line /\ LinesTo(e) = n + 1
      BY <2>2, <2>3
    <2>5. n + 1 <= Len(OutputLines) /\ Len(OutputLines) \in Nat BY <1>2, <2>4
    <2>6. CASE Parses(line) /\ PassesOn(line)
      <3>1. resultsReader' = next /\ passedOn' = Append(passedOn, line)
        BY <1>5, <2>6 DEF Yielded
      <3>2. /\ passedOn' \in Seq(Seq(OutputTokens)) /\ Len(passedOn') = n + 1
            /\ DOMAIN passedOn = 1..n /\ DOMAIN passedOn' = 1..(n + 1)
            /\ passedOn'[n + 1] = line
            /\ \A i \in 1..n : passedOn'[i] = passedOn[i]
        <4>1. PICK s \in Seq(Seq(OutputTokens)), x \in Seq(OutputTokens) :
                s = passedOn /\ x = line
          BY <1>1, <1>3
        <4>2. PICK t : t = Append(s, x) OBVIOUS
        <4>3. t \in Seq(Seq(OutputTokens)) /\ Len(t) = Len(s) + 1 /\ t[Len(s) + 1] = x
              /\ \A i \in 1..Len(s) : t[i] = s[i]
          BY <4>2, Appended
        <4>4. passedOn' = t /\ Len(s) = n BY <2>3, <3>1, <4>1, <4>2
        <4>5. /\ t \in Seq(Seq(OutputTokens)) /\ Len(t) = n + 1 /\ t[n + 1] = line
              /\ \A i \in 1..n : t[i] = passedOn[i]
          BY <4>1, <4>3, <4>4
        <4>6. DOMAIN s = 1..n /\ DOMAIN t = 1..(n + 1) BY <4>1, <4>3, <4>4
        <4> QED BY <4>1, <4>4, <4>5, <4>6
      <3>3. \A i \in 1..(n + 1) : i \in 1..n \/ i = n + 1 OBVIOUS
      <3>4. \A i \in 1..(n + 1) : passedOn'[i] = OutputLines[i]
        <4>1. \A i \in 1..n : passedOn[i] = OutputLines[i] BY <2>3 DEF PassedInOrder
        <4> QED BY <2>4, <3>2, <3>3, <4>1
      <3>5. IsInjective(passedOn')
        <4>1. \A i \in 1..n : passedOn[i] # line
          <5>1. line \notin ToSet(passedOn) BY <2>6 DEF PassesOn
          <5> QED BY <3>2, <5>1 DEF ToSet
        <4>2. \A i, j \in 1..n : passedOn[i] = passedOn[j] => i = j
          BY <3>2 DEF PassedInOrder, Acceptable, IsInjective
        <4>3. ASSUME NEW i \in 1..(n + 1), NEW j \in 1..(n + 1), passedOn'[i] = passedOn'[j]
              PROVE  i = j
          BY <3>2, <3>3, <4>1, <4>2, <4>3
        <4> QED BY <3>2, <4>3 DEF IsInjective
      <3>6. Acceptable(passedOn')
        <4>1. \A i \in 1..(n + 1) : Parses(passedOn'[i]) /\ Len(passedOn'[i]) <= MaxLine
          <5>1. \A i \in 1..n : Parses(passedOn[i]) /\ Len(passedOn[i]) <= MaxLine
            BY <3>2 DEF PassedInOrder, Acceptable
          <5> QED BY <2>6, <3>2, <3>3, <5>1
        <4>2. Len(passedOn') <= MaxResults
          BY <2>3, <2>6, <3>2, ResultsAssumption DEF PassesOn
        <4>3. LineBytes(passedOn') <= MaxResultBytes
          <5>1. PICK t : t = passedOn' OBVIOUS
          <5>2. \A i \in 1..(n + 1) : Len(t[i]) \in Nat
            <6>1. t \in Seq(Seq(OutputTokens)) /\ DOMAIN t = 1..(n + 1) BY <3>2, <5>1
            <6>2. \A i \in 1..(n + 1) : t[i] \in Seq(OutputTokens) BY <6>1
            <6> QED BY <6>2
          <5>3. Len(passedOn) = n /\ DOMAIN passedOn = 1..n /\ Len(t) = n + 1
                /\ DOMAIN t = 1..(n + 1) /\ \A i \in 1..n : passedOn[i] = t[i]
            BY <2>3, <3>2, <5>1
          <5>4. LineBytes(t) = LineBytes(passedOn) + Len(t[n + 1]) BY <5>2, <5>3, LineBytesNext
          <5>5. t[n + 1] = line BY <3>2, <5>1
          <5>6. LineBytes(t) = LineBytes(passedOn) + Len(line) BY <5>4, <5>5
          <5> QED BY <2>6, <5>1, <5>6 DEF PassesOn
        <4> QED BY <3>2, <3>5, <4>1, <4>2, <4>3 DEF Acceptable
      <3>7. PassedInOrder' BY <1>2, <2>5, <3>2, <3>4, <3>6 DEF PassedInOrder
      <3> QED BY <2>4, <3>1, <3>2, <3>7
    <2>7. CASE ~(Parses(line) /\ PassesOn(line))
      <3>1. resultsReader' = "refused" /\ passedOn' = passedOn BY <1>5, <2>7 DEF Yielded
      <3>2. AtFault
        <4>1. CASE ~Parses(line) BY <2>4, <4>1 DEF AtFault, Acceptable
        <4>2. CASE line \in ToSet(passedOn)
          <5>1. PICK i \in 1..n : line = passedOn[i]
            <6>1. DOMAIN passedOn = 1..n BY <1>1, <2>3
            <6> QED BY <4>2, <6>1 DEF ToSet
          <5>2. OutputLines[i] = OutputLines[n + 1] /\ i # n + 1
            <6>1. \A j \in 1..n : passedOn[j] = OutputLines[j] BY <2>3 DEF PassedInOrder
            <6>2. OutputLines[i] = line BY <5>1, <6>1
            <6>3. i # n + 1 BY <5>1
            <6> QED BY <2>4, <6>2, <6>3
          <5>3. i \in DOMAIN OutputLines BY <1>2, <2>5, <5>1
          <5>4. ~IsInjective(OutputLines) BY <2>4, <5>2, <5>3 DEF IsInjective
          <5> QED BY <5>4 DEF AtFault, Acceptable
        <4>3. CASE ~(Len(passedOn) < MaxResults)
          <5>1. Len(OutputLines) > MaxResults BY <2>3, <2>5, <4>3, ResultsAssumption
          <5> QED BY <2>5, <5>1, ResultsAssumption DEF AtFault, Acceptable
        <4>4. CASE ~(LineBytes(passedOn) + Len(line) <= MaxResultBytes)
          <5>1. PICK s : s = Append(passedOn, line) OBVIOUS
          <5>2. /\ s \in Seq(Seq(OutputTokens)) /\ Len(s) = n + 1 /\ DOMAIN s = 1..(n + 1)
                /\ DOMAIN passedOn = 1..n /\ s[n + 1] = line
                /\ \A i \in 1..n : s[i] = passedOn[i]
            <6>1. PICK p \in Seq(Seq(OutputTokens)), x \in Seq(OutputTokens) :
                    p = passedOn /\ x = line
              BY <1>1, <1>3
            <6>2. s = Append(p, x) /\ Len(p) = n BY <2>3, <5>1, <6>1
            <6>3. s \in Seq(Seq(OutputTokens)) /\ Len(s) = Len(p) + 1 /\ s[Len(p) + 1] = x
                  /\ \A i \in 1..Len(p) : s[i] = p[i]
              BY <6>2, Appended
            <6> QED BY <2>3, <6>1, <6>2, <6>3
          <5>3. \A i \in 1..(n + 1) : Len(s[i]) \in Nat
            <6>1. \A i \in 1..(n + 1) : s[i] \in Seq(OutputTokens) BY <5>2
            <6> QED BY <6>1
          <5>4. LineBytes(s) = LineBytes(passedOn) + Len(line)
            <6>1. Len(passedOn) = n /\ DOMAIN passedOn = 1..n BY <2>3, <5>2
            <6>2. Len(s) = n + 1 /\ DOMAIN s = 1..(n + 1) /\ \A i \in 1..n : passedOn[i] = s[i]
              BY <5>2
            <6>3. LineBytes(s) = LineBytes(passedOn) + Len(s[n + 1])
              BY <5>3, <6>1, <6>2, LineBytesNext
            <6> QED BY <5>2, <6>3
          <5>5. PICK m \in Nat : m = Len(OutputLines) /\ DOMAIN OutputLines = 1..m /\ n + 1 <= m
            BY <1>2, <2>5
          <5>6. LineBytes(OutputLines) \in Int /\ LineBytes(s) \in Int /\ LineBytes(s) <= LineBytes(OutputLines)
            <6>1. \A i \in 1..(n + 1) : s[i] = OutputLines[i]
              <7>1. \A i \in 1..n : passedOn[i] = OutputLines[i] BY <2>3 DEF PassedInOrder
              <7>2. \A i \in 1..(n + 1) : i \in 1..n \/ i = n + 1 OBVIOUS
              <7> QED BY <2>4, <5>2, <7>1, <7>2
            <6>2. \A i \in 1..m : Len(OutputLines[i]) \in Nat BY <1>1, <5>5, LinesAreSeqs
            <6>3. n + 1 \in Nat OBVIOUS
            <6> QED BY <5>2, <5>5, <6>1, <6>2, <6>3, LineBytesGrows
          <5>7. ~(LineBytes(s) <= MaxResultBytes) BY <4>4, <5>4
          <5>8. ~(LineBytes(OutputLines) <= MaxResultBytes) BY <5>6, <5>7, ResultsAssumption
          <5> QED BY <5>8 DEF AtFault, Acceptable
        <4> QED BY <2>7, <4>1, <4>2, <4>3, <4>4 DEF PassesOn
      <3>3. PassedInOrder' BY <1>2, <3>1 DEF PassedInOrder
      <3> QED BY <1>1, <3>1, <3>2, <3>3
    <2> QED BY <2>6, <2>7
  <1> QED BY <1>4, <1>5

\* A piece of the buffer is the piece of the file that it holds.
LEMMA BufferHolds ==
  ASSUME ResultsTypes, NEW k \in Nat, NEW n \in Nat, n <= Len(lineBuffer),
         k + Len(lineBuffer) <= Len(output),
         \A i \in 1..Len(lineBuffer) : lineBuffer[i] = output[k + i]
  PROVE  SubSeq(lineBuffer, 1, n) = SubSeq(output, k + 1, k + n)
  <1>1. PICK l : l = SubSeq(lineBuffer, 1, n) OBVIOUS
  <1>2. PICK m : m = SubSeq(output, k + 1, k + n) OBVIOUS
  <1>3. PICK b \in Nat : b = Len(lineBuffer) BY DEF ResultsTypes
  <1>4. /\ l \in Seq(OutputTokens) /\ Len(l) = n /\ DOMAIN l = 1..n
        /\ \A i \in 1..n : l[i] = lineBuffer[i]
    <2>1. lineBuffer \in Seq(OutputTokens) BY DEF ResultsTypes
    <2> QED BY <1>1, <1>3, <2>1
  <1>5. /\ m \in Seq(OutputTokens) /\ Len(m) = n /\ DOMAIN m = 1..n
        /\ \A i \in 1..n : m[i] = output[k + i]
    <2>1. output \in Seq(OutputTokens) BY DEF ResultsTypes
    <2> QED BY <1>2, <1>3, <2>1
  <1>6. \A i \in 1..n : i \in 1..Len(lineBuffer) BY <1>3
  <1>7. \A i \in 1..n : l[i] = m[i] BY <1>4, <1>5, <1>6
  <1>8. l = m BY <1>4, <1>5, <1>7
  <1> QED BY <1>1, <1>2, <1>8

\* The buffer with a chunk: what it held, and the chunk behind it.
LEMMA Grown ==
  ASSUME NEW S, NEW s \in Seq(S), NEW t \in Seq(S), NEW u, u = s \o t
  PROVE  /\ u \in Seq(S) /\ Len(u) = Len(s) + Len(t)
         /\ \A i \in 1..Len(s) : u[i] = s[i]
         /\ \A i \in 1..Len(t) : u[Len(s) + i] = t[i]
  <1>1. PICK n \in Nat, m \in Nat : n = Len(s) /\ m = Len(t) OBVIOUS
  <1>2. u \in Seq(S) /\ Len(u) = n + m BY <1>1
  <1>3. (\A i \in 1..n : u[i] = s[i]) /\ (\A i \in 1..m : u[n + i] = t[i]) BY <1>1
  <1> QED BY <1>1, <1>2, <1>3

LEMMA ChunkKeeps ==
  ASSUME ResultsInv, ChunkArrives
  PROVE  ResultsInv'
  <1>1. ResultsTypes /\ CutAtLine /\ PassedInOrder BY DEF ResultsInv
  <1>2. /\ resultsReader = "reading" /\ arrived < Len(output)
        /\ output' = output /\ passedOn' = passedOn
    BY DEF ChunkArrives
  <1>3. PICK n \in (arrived + 1)..Len(output) :
          /\ lineBuffer' = lineBuffer \o SubSeq(output, arrived + 1, n) /\ arrived' = n
          /\ resultsReader' = IF TooLong(lineBuffer') THEN "refused"
                              ELSE IF Newline \in ToSet(lineBuffer') THEN "draining"
                              ELSE "reading"
    BY DEF ChunkArrives
  <1>4. /\ OutputLines' = OutputLines /\ LineStarts' = LineStarts
        /\ \A k : LinesTo(k)' = LinesTo(k)
    BY <1>2, SameLines
  <1>5. PICK a \in Nat, b \in Nat, o \in Nat :
          /\ a = arrived /\ b = Len(lineBuffer) /\ o = Len(output) /\ b <= a /\ a < o
    <2>1. output \in Seq(OutputTokens) /\ lineBuffer \in Seq(OutputTokens)
      BY <1>1 DEF ResultsTypes
    <2>2. Len(output) \in Nat /\ Len(lineBuffer) \in Nat BY <2>1
    <2>3. arrived \in 0..Len(output) /\ Len(lineBuffer) <= arrived BY <1>1 DEF ResultsTypes
    <2>4. arrived \in Nat BY <2>2, <2>3
    <2> QED BY <1>2, <2>2, <2>3, <2>4
  <1>6. n \in Nat /\ a < n /\ n <= o BY <1>3, <1>5
  <1>7. PICK c : c = SubSeq(output, a + 1, n) OBVIOUS
  <1>8. /\ output \in Seq(OutputTokens) /\ lineBuffer \in Seq(OutputTokens)
    BY <1>1 DEF ResultsTypes
  <1>9. /\ c \in Seq(OutputTokens) /\ Len(c) = n - a
        /\ \A i \in 1..(n - a) : c[i] = output[a + i]
    BY <1>5, <1>6, <1>7, <1>8
  <1>10. /\ lineBuffer' \in Seq(OutputTokens) /\ Len(lineBuffer') = b + (n - a)
         /\ \A i \in 1..b : lineBuffer'[i] = lineBuffer[i]
         /\ \A i \in 1..(n - a) : lineBuffer'[b + i] = c[i]
    <2>1. lineBuffer' = lineBuffer \o c BY <1>3, <1>5, <1>7
    <2>2. PICK s \in Seq(OutputTokens), t \in Seq(OutputTokens) : s = lineBuffer /\ t = c
      BY <1>8, <1>9
    <2>3. PICK u : u = s \o t OBVIOUS
    <2>4. /\ u \in Seq(OutputTokens) /\ Len(u) = Len(s) + Len(t)
          /\ \A i \in 1..Len(s) : u[i] = s[i]
          /\ \A i \in 1..Len(t) : u[Len(s) + i] = t[i]
      BY <2>3, Grown
    <2>5. lineBuffer' = u BY <2>1, <2>2, <2>3
    <2>6. Len(s) = b /\ Len(t) = n - a BY <1>5, <1>9, <2>2
    <2> QED BY <2>2, <2>4, <2>5, <2>6
  <1>11. PICK k \in Nat : k = CutSoFar /\ k = a - b
    <2>1. a - b \in Nat /\ CutSoFar = a - b BY <1>5 DEF CutSoFar
    <2> QED BY <2>1
  <1>12. CutSoFar' = k BY <1>3, <1>5, <1>6, <1>10, <1>11 DEF CutSoFar
  <1>13. ResultsTypes'
    <2>1. arrived' \in 0..Len(output) /\ Len(lineBuffer') <= arrived'
      BY <1>3, <1>5, <1>6, <1>10
    <2>2. resultsReader' \in {"reading", "draining", "complete", "refused", "broken"} BY <1>3
    <2> QED BY <1>1, <1>2, <1>10, <2>1, <2>2 DEF ResultsTypes
  <1>14. ASSUME NEW i \in 1..Len(lineBuffer') PROVE lineBuffer'[i] = output[k + i]
    <2>1. CASE i <= b
      <3>1. i \in 1..b BY <1>10, <2>1
      <3>2. lineBuffer[i] = output[k + i] BY <1>1, <1>2, <1>5, <1>11, <3>1 DEF CutAtLine
      <3> QED BY <1>10, <3>1, <3>2
    <2>2. CASE i > b
      <3>1. i - b \in 1..(n - a) /\ i = b + (i - b) /\ a + (i - b) = k + i
        BY <1>5, <1>6, <1>10, <1>11, <2>2
      <3>2. lineBuffer'[b + (i - b)] = c[i - b] BY <1>10, <3>1
      <3>3. c[i - b] = output[a + (i - b)] BY <1>9, <3>1
      <3> QED BY <3>1, <3>2, <3>3
    <2> QED BY <1>5, <1>6, <1>10, <2>1, <2>2
  <1>15. CutAtLine'
    <2>1. \A i \in 1..Len(lineBuffer') : lineBuffer'[i] = output[k + i] BY <1>14
    <2>2. (k = 0 \/ output[k] = Newline) /\ Len(passedOn) = LinesTo(k)
      BY <1>1, <1>2, <1>11 DEF CutAtLine
    <2>3. resultsReader' \in {"reading", "draining"} =>
            (resultsReader' = "draining" <=> Newline \in ToSet(lineBuffer'))
      BY <1>3
    <2> QED BY <1>2, <1>4, <1>12, <2>1, <2>2, <2>3 DEF CutAtLine
  <1>16. PassedInOrder' BY <1>1, <1>2, <1>4 DEF PassedInOrder
  <1>17. Completed' BY <1>3 DEF Completed
  <1>18. RefusedForReason'
    <2> SUFFICES ASSUME resultsReader' = "refused" PROVE AtFault'
      BY DEF RefusedForReason
    <2>1. Len(lineBuffer') > MaxLine /\ Newline \notin ToSet(lineBuffer')
      BY <1>3 DEF TooLong
    <2>2. PICK d \in Nat : d = Len(lineBuffer') /\ k + d = n /\ d > 0
      BY <1>5, <1>6, <1>10, <1>11
    <2>3. ASSUME NEW j \in (k + 1)..n PROVE output[j] # Newline
      <3>1. j - k \in 1..d /\ k + (j - k) = j BY <1>6, <2>2
      <3>2. lineBuffer'[j - k] = output[k + (j - k)]
        <4>1. CutSoFar' = k BY <1>12
        <4>2. \A i \in 1..Len(lineBuffer') : lineBuffer'[i] = output[k + i] BY <1>14
        <4> QED BY <2>2, <3>1, <4>2
      <3>3. lineBuffer'[j - k] \in ToSet(lineBuffer') BY <1>10, <2>2, <3>1 DEF ToSet
      <3> QED BY <2>1, <3>1, <3>2, <3>3
    <2>4. k < Len(output) BY <1>5, <1>6, <2>2
    <2>5. PICK e \in Nat :
            /\ k < e /\ e <= Len(output) + 1
            /\ \A j \in (k + 1)..(e - 1) : output[j] # Newline
            /\ e = Len(output) + 1 \/ output[e] = Newline
      BY <1>8, <2>4, LineGoesTo
    <2>6. n < e
      <3> SUFFICES ASSUME e <= n PROVE FALSE BY <1>6, <2>5
      <3>1. e \in (k + 1)..n /\ e # Len(output) + 1 BY <1>5, <1>6, <2>5
      <3> QED BY <2>3, <2>5, <3>1
    <2>7. k + 1 < e BY <1>6, <2>2, <2>6
    <2>8. k = 0 \/ output[k] = Newline BY <1>1, <1>2, <1>11 DEF CutAtLine
    <2>9. /\ LinesTo(k) + 1 \in DOMAIN OutputLines
          /\ OutputLines[LinesTo(k) + 1] = SubSeq(output, k + 1, e - 1)
      BY <1>8, <2>5, <2>7, <2>8, NextLine
    <2>10. Len(SubSeq(output, k + 1, e - 1)) = e - (k + 1)
      BY <1>5, <1>8, <2>5, <2>7
    <2>11. ~(e - (k + 1) <= MaxLine) BY <1>6, <2>1, <2>2, <2>6, ResultsAssumption
    <2>12. AtFault BY <2>9, <2>10, <2>11 DEF AtFault, Acceptable
    <2> QED BY <1>2, <2>12, SameLines
  <1> QED BY <1>13, <1>15, <1>17, <1>18, <1>16 DEF ResultsInv

LEMMA CutKeeps ==
  ASSUME ResultsInv, CutLine
  PROVE  ResultsInv'
  <1>1. ResultsTypes /\ CutAtLine /\ PassedInOrder BY DEF ResultsInv
  <1>2. resultsReader = "draining" /\ output' = output /\ arrived' = arrived BY DEF CutLine
  <1>3. /\ OutputLines' = OutputLines /\ LineStarts' = LineStarts /\ AtFault' = AtFault
        /\ \A k : LinesTo(k)' = LinesTo(k)
    BY <1>2, SameLines
  <1>4. PICK a \in Nat, b \in Nat, o \in Nat :
          /\ a = arrived /\ b = Len(lineBuffer) /\ o = Len(output) /\ b <= a /\ a <= o
    <2>1. output \in Seq(OutputTokens) /\ lineBuffer \in Seq(OutputTokens)
      BY <1>1 DEF ResultsTypes
    <2>2. Len(output) \in Nat /\ Len(lineBuffer) \in Nat BY <2>1
    <2>3. arrived \in 0..Len(output) /\ Len(lineBuffer) <= arrived BY <1>1 DEF ResultsTypes
    <2>4. arrived \in Nat /\ arrived <= Len(output) BY <2>2, <2>3
    <2> QED BY <2>2, <2>3, <2>4
  <1>5. /\ output \in Seq(OutputTokens) /\ lineBuffer \in Seq(OutputTokens)
        /\ passedOn \in Seq(Seq(OutputTokens))
    BY <1>1 DEF ResultsTypes
  <1>6. PICK k \in Nat : k = CutSoFar /\ k = a - b BY <1>4 DEF CutSoFar
  <1>7. PICK end : end = CHOOSE i \in Ends : \A j \in Ends : i <= j OBVIOUS
  <1>8. end \in 1..b /\ lineBuffer[end] = Newline /\ \A j \in Ends : end <= j
    <2>1. Ends \in SUBSET Nat BY <1>4, <1>5 DEF Ends
    <2>2. Ends # {} BY <1>1, <1>2 DEF CutAtLine, ToSet, Ends
    <2>3. \E i \in Ends : \A j \in Ends : i <= j
      <3> HIDE DEF Ends
      <3> QED BY <2>1, <2>2, Least
    <2>4. end \in Ends /\ \A j \in Ends : end <= j
      <3> HIDE DEF Ends
      <3> QED BY <1>7, <2>3
    <2>5. end \in DOMAIN lineBuffer /\ lineBuffer[end] = Newline BY <2>4 DEF Ends
    <2> QED BY <1>4, <1>5, <2>4, <2>5
  <1>9. PICK e \in Nat : e = k + end BY <1>6, <1>8
  <1>10. k < e /\ e <= o /\ e - 1 = k + (end - 1) /\ end - 1 \in Nat /\ end - 1 <= b
    BY <1>4, <1>6, <1>8, <1>9
  <1>11. /\ k = 0 \/ output[k] = Newline
         /\ \A i \in 1..b : lineBuffer[i] = output[k + i]
         /\ Len(passedOn) = LinesTo(k)
    BY <1>1, <1>2, <1>4, <1>6 DEF CutAtLine
  <1>12. output[e] = Newline BY <1>8, <1>9, <1>11
  <1>13. ASSUME NEW j \in (k + 1)..(e - 1) PROVE output[j] # Newline
    <2>1. j - k \in 1..b /\ j - k < end /\ j = k + (j - k) BY <1>4, <1>6, <1>8, <1>9
    <2>2. j - k \notin Ends
      <3>1. ~(end <= j - k) BY <1>8, <2>1
      <3> QED BY <1>8, <3>1
    <2>3. lineBuffer[j - k] # Newline BY <1>4, <1>5, <2>1, <2>2 DEF Ends
    <2>4. lineBuffer[j - k] = output[k + (j - k)] BY <1>11, <2>1
    <2> QED BY <2>1, <2>3, <2>4
  <1>14. PICK line : line = SubSeq(lineBuffer, 1, end - 1) OBVIOUS
  <1>15. line = SubSeq(output, k + 1, e - 1)
    <2>1. k + Len(lineBuffer) <= Len(output) BY <1>4, <1>6
    <2>2. \A i \in 1..Len(lineBuffer) : lineBuffer[i] = output[k + i] BY <1>4, <1>11
    <2>3. PICK n \in Nat : n = end - 1 BY <1>10
    <2>4. n <= Len(lineBuffer) BY <1>4, <1>10, <2>3
    <2>5. SubSeq(lineBuffer, 1, n) = SubSeq(output, k + 1, k + n)
      BY <1>1, <2>1, <2>2, <2>4, BufferHolds
    <2> QED BY <1>10, <1>14, <2>3, <2>5
  <1>16. PICK rest : rest = Rest(lineBuffer, end) OBVIOUS
  <1>17. /\ rest \in Seq(OutputTokens) /\ Len(rest) = b - end
         /\ \A i \in 1..(b - end) : rest[i] = lineBuffer[end + i]
    BY <1>4, <1>5, <1>8, <1>16 DEF Rest
  <1>18. CASE end - 1 > MaxLine
    <2>1. resultsReader' = "refused" /\ lineBuffer' = lineBuffer /\ passedOn' = passedOn
      BY <1>7, <1>18 DEF CutLine
    <2>2. line # <<>>
      <3>1. Len(line) = end - 1 /\ end - 1 > 0 BY <1>5, <1>10, <1>14, <1>18, ResultsAssumption, <1>4
      <3> QED BY <3>1
    <2>3. AtFault
      <3>1. k + 1 < e /\ e <= Len(output) + 1
        <4>1. MaxLine >= 0 BY ResultsAssumption
        <4> QED BY <1>4, <1>8, <1>9, <1>10, <1>18, <4>1, ResultsAssumption
      <3>2. /\ LinesTo(k) + 1 \in DOMAIN OutputLines
            /\ OutputLines[LinesTo(k) + 1] = SubSeq(output, k + 1, e - 1)
        BY <1>5, <1>11, <1>12, <1>13, <3>1, NextLine
      <3>3. Len(SubSeq(output, k + 1, e - 1)) = end - 1
        BY <1>4, <1>5, <1>9, <1>10
      <3>4. ~(end - 1 <= MaxLine) BY <1>10, <1>18, ResultsAssumption
      <3> QED BY <3>2, <3>3, <3>4 DEF AtFault, Acceptable
    <2>4. ResultsTypes' BY <1>1, <1>2, <2>1 DEF ResultsTypes
    <2>5. CutAtLine' /\ Completed' BY <2>1 DEF CutAtLine, Completed
    <2>6. PassedInOrder' BY <1>1, <1>3, <2>1 DEF PassedInOrder
    <2>7. RefusedForReason' BY <1>3, <2>3 DEF RefusedForReason
    <2> QED BY <2>4, <2>5, <2>6, <2>7 DEF ResultsInv
  <1>19. CASE ~(end - 1 > MaxLine)
    <2>1. PICK next : next = IF Newline \in ToSet(rest) THEN "draining" ELSE "reading" OBVIOUS
    <2>2. lineBuffer' = rest /\ Yielded(line, next)
      BY <1>7, <1>14, <1>16, <1>19, <2>1 DEF CutLine
    <2>3. /\ PassedInOrder' /\ passedOn' \in Seq(Seq(OutputTokens))
          /\ \/ resultsReader' = next /\ Len(passedOn') = LinesTo(e)
             \/ resultsReader' = "refused" /\ AtFault
      <3>1. e <= Len(output) + 1 BY <1>4, <1>10
      <3>2. Len(line) <= MaxLine
        <4>1. Len(line) = end - 1 BY <1>4, <1>5, <1>10, <1>14
        <4> QED BY <1>10, <1>19, <4>1, ResultsAssumption
      <3> QED BY <1>1, <1>2, <1>10, <1>11, <1>12, <1>13, <1>15, <2>2, <3>1, <3>2, LineYielded
    <2>4. ResultsTypes'
      <3>1. Len(lineBuffer') <= arrived' BY <1>2, <1>4, <1>8, <1>17, <2>2
      <3>2. resultsReader' \in {"reading", "draining", "complete", "refused", "broken"} BY <2>1, <2>3
      <3> QED BY <1>1, <1>2, <1>17, <2>2, <2>3, <3>1, <3>2 DEF ResultsTypes
    <2>5. CutSoFar' = e
      <3>1. CutSoFar' = a - (b - end) BY <1>2, <1>4, <1>17, <2>2 DEF CutSoFar
      <3>2. a - (b - end) = k + end BY <1>4, <1>6, <1>8
      <3> QED BY <1>9, <3>1, <3>2
    <2>6. CutAtLine'
      <3>1. ASSUME NEW i \in 1..Len(lineBuffer') PROVE lineBuffer'[i] = output[e + i]
        <4>1. i \in 1..(b - end) /\ end + i \in 1..b /\ k + (end + i) = e + i
          BY <1>4, <1>6, <1>8, <1>9, <1>17, <2>2
        <4>2. rest[i] = lineBuffer[end + i] /\ lineBuffer[end + i] = output[k + (end + i)]
          BY <1>11, <1>17, <4>1
        <4> QED BY <2>2, <4>1, <4>2
      <3>2. resultsReader' \in {"reading", "draining"} => Len(passedOn') = LinesTo(e)
        BY <2>3
      <3>3. resultsReader' \in {"reading", "draining"} =>
              (resultsReader' = "draining" <=> Newline \in ToSet(lineBuffer'))
        BY <2>1, <2>2, <2>3
      <3> QED BY <1>2, <1>3, <1>12, <2>5, <3>1, <3>2, <3>3 DEF CutAtLine
    <2>7. Completed' BY <2>1, <2>3 DEF Completed
    <2>8. RefusedForReason'
      <3>1. resultsReader' = "refused" => AtFault BY <2>1, <2>3
      <3> QED BY <1>3, <3>1 DEF RefusedForReason
    <2> QED BY <2>3, <2>4, <2>6, <2>7, <2>8 DEF ResultsInv
  <1> QED BY <1>18, <1>19

LEMMA OutputEndKeeps ==
  ASSUME ResultsInv, OutputEnds
  PROVE  ResultsInv'
  <1>1. ResultsTypes /\ CutAtLine /\ PassedInOrder BY DEF ResultsInv
  <1>2. /\ resultsReader = "reading" /\ arrived = Len(output)
        /\ output' = output /\ arrived' = arrived
    BY DEF OutputEnds
  <1>3. /\ OutputLines' = OutputLines /\ LineStarts' = LineStarts
        /\ \A k : LinesTo(k)' = LinesTo(k)
    BY <1>2, SameLines
  <1>4. /\ output \in Seq(OutputTokens) /\ lineBuffer \in Seq(OutputTokens)
        /\ passedOn \in Seq(Seq(OutputTokens))
    BY <1>1 DEF ResultsTypes
  <1>5. PICK b \in Nat, o \in Nat : b = Len(lineBuffer) /\ o = Len(output) /\ b <= o
    <2>1. Len(output) \in Nat /\ Len(lineBuffer) \in Nat /\ Len(lineBuffer) <= arrived
      BY <1>1, <1>4 DEF ResultsTypes
    <2> QED BY <1>2, <2>1
  <1>6. PICK k \in Nat : k = CutSoFar /\ k = o - b
    <2>1. o - b \in Nat /\ CutSoFar = o - b BY <1>2, <1>5 DEF CutSoFar
    <2> QED BY <2>1
  <1>7. Newline \notin ToSet(lineBuffer) BY <1>1, <1>2 DEF CutAtLine
  <1>8. PICK e \in Nat : e = o + 1 OBVIOUS
  <1>9. /\ k = 0 \/ output[k] = Newline
        /\ \A i \in 1..Len(lineBuffer) : lineBuffer[i] = output[k + i]
        /\ Len(passedOn) = LinesTo(k)
    BY <1>1, <1>2, <1>6 DEF CutAtLine
  <1>10. ASSUME NEW j \in (k + 1)..(e - 1) PROVE output[j] # Newline
    <2>1. j - k \in 1..Len(lineBuffer) /\ k + (j - k) = j BY <1>5, <1>6, <1>8
    <2>2. lineBuffer[j - k] \in ToSet(lineBuffer) BY <1>4, <2>1 DEF ToSet
    <2>3. lineBuffer[j - k] = output[k + (j - k)] BY <1>9, <2>1
    <2> QED BY <1>7, <2>1, <2>2, <2>3
  <1>11. lineBuffer = SubSeq(output, k + 1, e - 1)
    <2>1. k + Len(lineBuffer) <= Len(output) /\ b <= Len(lineBuffer) BY <1>5, <1>6
    <2>2. SubSeq(lineBuffer, 1, b) = SubSeq(output, k + 1, k + b)
      BY <1>1, <1>9, <2>1, BufferHolds
    <2>3. SubSeq(lineBuffer, 1, b) = lineBuffer BY <1>4, <1>5
    <2>4. k + b = e - 1 BY <1>5, <1>6, <1>8
    <2> QED BY <2>2, <2>3, <2>4
  <1>12. CASE Len(lineBuffer) > MaxLine
    <2>1. resultsReader' = "refused" /\ lineBuffer' = lineBuffer /\ passedOn' = passedOn
      BY <1>12 DEF OutputEnds
    <2>2. ResultsTypes' BY <1>1, <1>2, <2>1 DEF ResultsTypes
    <2>3. CutAtLine' /\ Completed' BY <2>1 DEF CutAtLine, Completed
    <2>4. PassedInOrder' BY <1>1, <1>3, <2>1 DEF PassedInOrder
    <2>5. AtFault
      <3>1. k + 1 < e /\ e <= Len(output) + 1 /\ e = Len(output) + 1 /\ b > MaxLine
        BY <1>5, <1>6, <1>12, <1>8, ResultsAssumption
      <3>2. /\ LinesTo(k) + 1 \in DOMAIN OutputLines
            /\ OutputLines[LinesTo(k) + 1] = SubSeq(output, k + 1, e - 1)
        BY <1>4, <1>9, <1>10, <3>1, NextLine
      <3>3. ~(Len(lineBuffer) <= MaxLine) BY <1>5, <1>12, ResultsAssumption
      <3> QED BY <1>11, <3>2, <3>3 DEF AtFault, Acceptable
    <2>6. RefusedForReason' BY <1>2, <2>5, SameLines DEF RefusedForReason
    <2> QED BY <2>2, <2>3, <2>4, <2>6 DEF ResultsInv
  <1>13. CASE ~(Len(lineBuffer) > MaxLine)
    <2>1. lineBuffer' = <<>> /\ Yielded(lineBuffer, "complete") BY <1>13 DEF OutputEnds
    <2>6. /\ PassedInOrder' /\ passedOn' \in Seq(Seq(OutputTokens))
          /\ \/ resultsReader' = "complete" /\ Len(passedOn') = LinesTo(e)
             \/ resultsReader' = "refused" /\ AtFault
      <3>1. k < e /\ e <= Len(output) + 1 /\ e = Len(output) + 1 BY <1>5, <1>6, <1>8
      <3>2. PICK line, next : line = lineBuffer /\ next = "complete" OBVIOUS
      <3>3. Len(line) <= MaxLine BY <1>5, <1>13, <3>2, ResultsAssumption
      <3>4. /\ line = SubSeq(output, k + 1, e - 1) /\ Len(passedOn) = LinesTo(k)
            /\ Yielded(line, next)
        BY <1>9, <1>11, <2>1, <3>2
      <3>5. k = 0 \/ output[k] = Newline BY <1>9
      <3>6. \A j \in (k + 1)..(e - 1) : output[j] # Newline BY <1>10
      <3>7. /\ PassedInOrder' /\ passedOn' \in Seq(Seq(OutputTokens))
            /\ \/ resultsReader' = next /\ Len(passedOn') = LinesTo(e)
               \/ resultsReader' = "refused" /\ AtFault
        BY <1>1, <1>2, <3>1, <3>3, <3>4, <3>5, <3>6, LineYielded
      <3> QED BY <3>2, <3>7
    <2>7. LinesTo(e) = Len(OutputLines) BY <1>4, <1>5, <1>8, AllLines, LinesFinite
    <2>8. ResultsTypes'
      <3>1. /\ lineBuffer' \in Seq(OutputTokens) /\ Len(lineBuffer') <= arrived'
        BY <1>2, <1>5, <2>1
      <3>2. resultsReader' \in {"reading", "draining", "complete", "refused", "broken"} BY <2>6
      <3> QED BY <1>1, <1>2, <2>6, <3>1, <3>2 DEF ResultsTypes
    <2>9. CutAtLine' BY <2>6 DEF CutAtLine
    <2>10. Completed' BY <1>3, <2>6, <2>7 DEF Completed
    <2>11. RefusedForReason' BY <1>2, <2>6, SameLines DEF RefusedForReason
    <2> QED BY <2>6, <2>8, <2>9, <2>10, <2>11 DEF ResultsInv
  <1> QED BY <1>12, <1>13

LEMMA FailureKeeps ==
  ASSUME ResultsInv, OutputFails
  PROVE  ResultsInv'
  <1>1. ResultsTypes /\ CutAtLine /\ PassedInOrder BY DEF ResultsInv
  <1>2. /\ resultsReader = "reading" /\ resultsReader' = "broken" /\ output' = output
        /\ UNCHANGED <<arrived, lineBuffer, passedOn>>
    BY DEF OutputFails
  <1>3. ResultsTypes' BY <1>1, <1>2 DEF ResultsTypes
  <1>4. CutAtLine' /\ Completed' BY <1>2 DEF CutAtLine, Completed
  <1>5. PassedInOrder'
    <2>1. OutputLines' = OutputLines BY <1>2, SameLines
    <2> QED BY <1>1, <1>2, <2>1 DEF PassedInOrder
  <1>6. RefusedForReason' BY <1>2 DEF RefusedForReason
  <1> QED BY <1>3, <1>4, <1>5, <1>6 DEF ResultsInv

LEMMA ResultsStart ==
  ASSUME ResultsInit
  PROVE  ResultsInv
  <1>1. /\ arrived = 0 /\ lineBuffer = <<>> /\ passedOn = <<>> /\ resultsReader = "reading"
    BY DEF ResultsInit
  <1>2. output \in Seq(OutputTokens)
    <2>1. PICK n \in 0..MaxOutput : output \in [1..n -> Letters \union {Newline}]
      BY DEF ResultsInit
    <2>2. n \in Nat BY <2>1, ResultsAssumption
    <2> QED BY <2>1, <2>2 DEF OutputTokens
  <1>3. Len(output) \in Nat /\ Len(OutputLines) \in Nat BY <1>2, LinesFinite
  <1>4. ResultsTypes
    <2>1. /\ lineBuffer \in Seq(OutputTokens) /\ passedOn \in Seq(Seq(OutputTokens))
          /\ Len(lineBuffer) = 0 /\ Len(passedOn) = 0
      BY <1>1
    <2> QED BY <1>1, <1>2, <1>3, <2>1 DEF ResultsTypes
  <1>5. CutAtLine
    <2>1. CutSoFar = 0
      <3>1. Len(lineBuffer) = 0 BY <1>1
      <3>2. CutSoFar = 0 - 0 BY <1>1, <3>1 DEF CutSoFar
      <3>3. 0 - 0 = 0 OBVIOUS
      <3> QED BY <3>2, <3>3
    <2>2. LinesTo(CutSoFar) = 0 /\ Len(passedOn) = 0 BY <1>1, <1>2, <2>1, AllLines
    <2>3. Newline \notin ToSet(lineBuffer) BY <1>1 DEF ToSet
    <2>4. \A i \in 1..Len(lineBuffer) : FALSE BY <1>1
    <2> QED BY <1>1, <2>1, <2>2, <2>3, <2>4 DEF CutAtLine
  <1>6. PassedInOrder
    <2>1. Len(passedOn) = 0 /\ DOMAIN passedOn = {} BY <1>1
    <2>2. LineBytes(passedOn) = 0
      <3>1. PICK g : g = [i \in DOMAIN passedOn |-> Len(passedOn[i])] OBVIOUS
      <3>2. SumTo(g, 0) = 0 BY SumOfNone
      <3> QED BY <2>1, <3>1, <3>2 DEF LineBytes
    <2>3. Acceptable(passedOn)
      BY <2>1, <2>2, ResultsAssumption DEF Acceptable, IsInjective
    <2> QED BY <1>3, <2>1, <2>3 DEF PassedInOrder
  <1>7. Completed /\ RefusedForReason BY <1>1 DEF Completed, RefusedForReason
  <1> QED BY <1>4, <1>5, <1>6, <1>7 DEF ResultsInv

LEMMA ResultsInvSuffices ==
  ASSUME ResultsInv
  PROVE  ResultsExact
  <1>1. ResultsTypes /\ PassedInOrder /\ Completed /\ RefusedForReason BY DEF ResultsInv
  <1>2. passedOn \in Seq(Seq(OutputTokens)) /\ output \in Seq(OutputTokens)
    BY <1>1 DEF ResultsTypes
  <1>3. PICK n \in Nat, m \in Nat :
          /\ n = Len(passedOn) /\ DOMAIN passedOn = 1..n
          /\ m = Len(OutputLines) /\ DOMAIN OutputLines = 1..m
    <2>1. Len(passedOn) \in Nat /\ DOMAIN passedOn = 1..Len(passedOn) BY <1>2
    <2>2. Len(OutputLines) \in Nat /\ DOMAIN OutputLines = 1..Len(OutputLines)
      BY <1>2, LinesFinite
    <2> QED BY <2>1, <2>2
  <1>4. n <= m /\ \A i \in 1..n : passedOn[i] = OutputLines[i] BY <1>1, <1>3 DEF PassedInOrder
  <1>5. PICK S : OutputLines \in [1..m -> S] /\ Seq(OutputTokens) \subseteq S
    <2>1. PICK S : S = Seq(OutputTokens) \union {OutputLines[i] : i \in 1..m} OBVIOUS
    <2>2. OutputLines = [i \in 1..Cardinality(LineStarts) |-> LineAt(Ascending(LineStarts)[i])]
      BY DEF OutputLines
    <2>3. Cardinality(LineStarts) = m BY <1>2, <1>3, LinesFinite
    <2>4. PICK f : f = OutputLines OBVIOUS
    <2>5. f = [i \in 1..m |-> f[i]] BY <2>2, <2>3, <2>4
    <2>6. \A i \in 1..m : f[i] \in S BY <2>1, <2>4
    <2>7. f \in [1..m -> S] BY <2>5, <2>6
    <2> QED BY <2>1, <2>4, <2>7
  <1>6. OutputLines \in Seq(S) /\ passedOn \in Seq(S) BY <1>2, <1>3, <1>5
  <1>7. IsPrefix(passedOn, OutputLines)
    <2>1. PICK p : p = SubSeq(passedOn, 1, n) OBVIOUS
    <2>2. PICK q : q = SubSeq(OutputLines, 1, n) OBVIOUS
    <2>3. p \in Seq(S) /\ Len(p) = n /\ \A i \in 1..n : p[i] = passedOn[i]
      BY <1>3, <1>6, <2>1
    <2>4. q \in Seq(S) /\ Len(q) = n /\ \A i \in 1..n : q[i] = OutputLines[i]
      BY <1>3, <1>4, <1>6, <2>2
    <2>5. \A i \in 1..n : p[i] = q[i] BY <1>4, <2>3, <2>4
    <2>6. p = q BY <2>3, <2>4, <2>5
    <2>7. Len(passedOn) <= Len(OutputLines) BY <1>3, <1>4
    <2>8. SubSeq(passedOn, 1, Len(passedOn)) = SubSeq(OutputLines, 1, Len(passedOn))
      BY <1>3, <2>1, <2>2, <2>6
    <2> QED BY <2>7, <2>8 DEF IsPrefix
  <1>8. ASSUME resultsReader = "complete" PROVE passedOn = OutputLines
    <2>1. n = m BY <1>1, <1>3, <1>8 DEF Completed
    <2> QED BY <1>3, <1>4, <1>6, <2>1
  <1>9. Acceptable(passedOn) BY <1>1 DEF PassedInOrder
  <1>10. resultsReader = "refused" => ~Acceptable(OutputLines)
    BY <1>1 DEF RefusedForReason, AtFault
  <1> QED BY <1>7, <1>8, <1>9, <1>10 DEF ResultsExact

(***************************************************************************)
(* What results() passes on, for a file of any length and chunks that end  *)
(* anywhere: its lines in order, valid, once and within the limits, all of *)
(* them if it completes; and a file is refused for its lines alone, never  *)
(* for where its chunks ended.                                             *)
(***************************************************************************)
THEOREM ResultsAreExact == ResultsSpec => []ResultsExact
  <1>1. ResultsInit => ResultsInv BY ResultsStart
  <1>2. ResultsInv /\ [ResultsNext]_resultsVars => ResultsInv'
    <2> SUFFICES ASSUME ResultsInv, [ResultsNext]_resultsVars PROVE ResultsInv' OBVIOUS
    <2>1. CASE UNCHANGED resultsVars
      <3>1. /\ output' = output /\ arrived' = arrived /\ lineBuffer' = lineBuffer
            /\ passedOn' = passedOn /\ resultsReader' = resultsReader
        BY <2>1 DEF resultsVars
      <3>2. /\ OutputLines' = OutputLines /\ AtFault' = AtFault
            /\ \A k : LinesTo(k)' = LinesTo(k)
        BY <3>1, SameLines
      <3>3. CutSoFar' = CutSoFar BY <3>1 DEF CutSoFar
      <3> QED BY <3>1, <3>2, <3>3 DEF ResultsInv, ResultsTypes, CutAtLine, PassedInOrder,
                                      Completed, RefusedForReason
    <2> QED BY <2>1, ChunkKeeps, CutKeeps, OutputEndKeeps, FailureKeeps DEF ResultsNext
  <1>3. ResultsInv => ResultsExact BY ResultsInvSuffices
  <1> QED BY <1>1, <1>2, <1>3, PTL DEF ResultsSpec

=============================================================================
