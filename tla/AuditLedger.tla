----------------------------- MODULE AuditLedger -----------------------------
(***************************************************************************)
(* JsonlAuditLog (zeaz_agent/audit.py): a file of hash-chained records     *)
(* that several processes append to under an exclusive lock.               *)
(*                                                                         *)
(* A write may stop in the middle, an fsync may fail, a process may die    *)
(* with the lock (which the system then releases), and the machine may     *)
(* lose what was not synced.  A record is abstracted to its sequence       *)
(* number, an identifier that stands for its digest, the identifier of its *)
(* predecessor and its size; the schema of events is left out.             *)
(***************************************************************************)
EXTENDS Integers, Sequences, SequencesExt

CONSTANTS
  Writers,        \* processes that append
  MaxEventBytes,  \* max_event_bytes
  MaxLogBytes,    \* max_log_bytes
  MaxAppends,     \* bound of the model on records begun
  NoWriter

ASSUME LedgerAssumption ==
  /\ MaxEventBytes \in Nat \ {0}
  /\ MaxLogBytes \in Nat /\ MaxEventBytes <= MaxLogBytes
  /\ MaxAppends \in Nat
  /\ NoWriter \notin Writers

VARIABLES
  ledger,    \* the records in the file; only the last may be partial
  synced,    \* how many of them have been synced
  flock,     \* who holds the exclusive lock
  entry,     \* entry[w]: the record w has encoded and writes
  drawn,     \* identifiers given to records
  appended   \* history: records whose append() returned

ledgerVars == <<ledger, synced, flock, entry, drawn, appended>>

-----------------------------------------------------------------------------
ZeroHash == 0

NoEntry == [seq |-> -1, previous |-> ZeroHash, id |-> ZeroHash, size |-> 0,
            whole |-> FALSE]

LogSize(log) == FoldSeq(LAMBDA r, n: r.size + n, 0, log)

\* _last_entry() finds the last record: the file is empty, or it ends in a
\* newline and the last max_event_bytes reach back beyond the record, or
\* to the beginning of the file.
LastReadable(log) ==
  log # <<>> =>
    /\ Last(log).whole
    /\ LogSize(log) <= MaxEventBytes \/ Last(log).size < MaxEventBytes

\* verify()
Verifies(log) ==
  \A i \in DOMAIN log :
    /\ log[i].whole
    /\ log[i].seq = i - 1
    /\ log[i].previous = (IF i = 1 THEN ZeroHash ELSE log[i - 1].id)

\* The record append() builds on what _last_entry() has read.
Successor(log, id, size) ==
  [seq      |-> IF log = <<>> THEN 0 ELSE Last(log).seq + 1,
   previous |-> IF log = <<>> THEN ZeroHash ELSE Last(log).id,
   id |-> id, size |-> size, whole |-> FALSE]

-----------------------------------------------------------------------------
\* Mutation: the last record is read before the lock is taken.
AnyLock == TRUE

LockFree == flock = NoWriter

\* append() up to its write: lock, measure, read the last record, encode.
BeginAppend(w) ==
  /\ entry[w] = NoEntry
  /\ LockFree
  /\ drawn < MaxAppends
  /\ LastReadable(ledger)
  /\ \E size \in 1..MaxEventBytes :
       /\ LogSize(ledger) + size <= MaxLogBytes
       /\ entry' = [entry EXCEPT ![w] = Successor(ledger, drawn + 1, size)]
  /\ drawn' = drawn + 1
  /\ flock' = w
  /\ UNCHANGED <<ledger, synced, appended>>

Written(w) == ledger # <<>> /\ Last(ledger).id = entry[w].id

\* One write() of _write_all(): a part of the record, or what is left of it.
Write(w, whole) ==
  /\ entry[w] # NoEntry
  /\ IF Written(w)
     THEN ~Last(ledger).whole /\ whole
          /\ ledger' = [ledger EXCEPT ![Len(ledger)].whole = TRUE]
     ELSE ledger' = Append(ledger, [entry[w] EXCEPT !.whole = whole])
  /\ UNCHANGED <<synced, flock, entry, drawn, appended>>

Unlock(w) ==
  /\ entry' = [entry EXCEPT ![w] = NoEntry]
  /\ flock' = NoWriter

SyncAll == Len(ledger)

\* fsync, close and return.
EndAppend(w) ==
  /\ entry[w] # NoEntry
  /\ Written(w) /\ Last(ledger).whole
  /\ synced' = SyncAll
  /\ appended' = appended \cup {Last(ledger)}
  /\ Unlock(w)
  /\ UNCHANGED <<ledger, drawn>>

\* write() or fsync() raises, or the process dies: close() releases the lock,
\* whatever has been written stays.
AbandonAppend(w) ==
  /\ entry[w] # NoEntry
  /\ Unlock(w)
  /\ UNCHANGED <<ledger, synced, drawn, appended>>

\* The machine loses what was not synced, or a part of it.
PowerLoss ==
  /\ \E n \in synced..Len(ledger) : ledger' = SubSeq(ledger, 1, n)
  /\ entry' = [w \in Writers |-> NoEntry]
  /\ flock' = NoWriter
  /\ UNCHANGED <<synced, drawn, appended>>

-----------------------------------------------------------------------------
LedgerInit ==
  /\ ledger = <<>> /\ synced = 0 /\ flock = NoWriter
  /\ entry = [w \in Writers |-> NoEntry]
  /\ drawn = 0 /\ appended = {}

LedgerNext ==
  \/ \E w \in Writers :
       \/ BeginAppend(w) \/ EndAppend(w) \/ AbandonAppend(w)
       \/ \E whole \in BOOLEAN : Write(w, whole)
  \/ PowerLoss

AuditSpec == LedgerInit /\ [][LedgerNext]_ledgerVars

-----------------------------------------------------------------------------
(* Properties *)

\* Concurrent appenders, failed writes and crashes leave a chain that
\* verifies, but for a partial last record, and an append that has returned is
\* in it (append(), _last_entry() and verify() of audit.py).
LedgerSound ==
  /\ \/ Verifies(ledger)
     \/ Verifies(Front(ledger)) /\ ~Last(ledger).whole
  /\ appended \subseteq ToSet(ledger)

=============================================================================
