---------------------------- MODULE ControlPlane ----------------------------
(***************************************************************************)
(* BatchService and ControlFileService of zeaz-control: a local catalog of *)
(* a provider's files and batches, kept by concurrent calls that each ask  *)
(* the provider and then write what it answered.  Between the question and *)
(* the write other calls are served, the provider works on, and the        *)
(* process may die.                                                        *)
(*                                                                         *)
(* One provider and one account.  A database transaction is one step; its  *)
(* audit event is part of it.  The provider honours idempotency keys: it   *)
(* answers a key it knows with the answer it gave.                         *)
(***************************************************************************)
EXTENDS Integers, Sequences

CONSTANTS
  Callers,     \* concurrent calls
  CreateKeys,  \* idempotency keys of operation batch.create
  CancelKeys,  \* idempotency keys of operation batch.cancel
  Files,       \* file ids the provider may give
  MaxBatches,  \* bound: batches the provider creates, numbered in order
  MaxClock,    \* bound: the provider's clock, in seconds
  MaxDone,     \* bound: requests of a batch
  MaxLost,     \* bound: answers lost after the provider has acted, and crashes
  MaxCalls,    \* bound: calls begun
  NoSnap, NoKey, NoFile

Batches == 1..MaxBatches
Keys    == CreateKeys \cup CancelKeys

Statuses == {"validating", "in_progress", "cancelling", "completed", "cancelled"}
Terminal == {"completed", "cancelled"}  \* failed and expired are as completed

\* A record of a batch, as the provider gives it and the catalog keeps it.
Snapshots == [id : Batches, file : Files, status : Statuses, done : 0..MaxDone, at : 0..MaxClock]

ASSUME ControlAssumption ==
  /\ MaxBatches \in Nat /\ MaxClock \in Nat /\ MaxDone \in Nat /\ MaxLost \in Nat /\ MaxCalls \in Nat
  /\ CreateKeys \cap CancelKeys = {} /\ NoKey \notin Keys /\ NoSnap \notin Snapshots
  /\ NoFile \notin Files \cup Batches /\ Files \cap Batches = {}

VARIABLES
  \* the provider
  clock,     \* its time
  remote,    \* batch -> its present record, or NoSnap
  replies,   \* idempotency key -> the answer it gave, or NoSnap
  store,     \* file -> "unused", "kept" or "deleted"
  life,      \* history: batch -> the records it has had, in order
  \* the control database
  files,     \* table control_files: the ids it lists
  rows,      \* table control_batches: batch -> its last written record, or NoSnap
  keys,      \* table control_idempotency
  \* the process
  call,      \* caller -> the call it is making, or has made
  calls,     \* calls begun
  lost,      \* answers lost, and crashes
  adrift     \* history: files whose upload or deletion was cut short

remotes == <<clock, remote, replies, store, life>>
tables  == <<files, rows, keys>>
vars == <<clock, remote, replies, store, life, files, rows, keys, call, calls, lost, adrift>>

NoCall == [op |-> "none", pc |-> "idle", key |-> NoKey, on |-> NoFile, got |-> {},
           cursor |-> MaxBatches + 1, prior |-> {}]
Free   == [state |-> "free", request |-> NoFile, response |-> NoSnap]

Created == {b \in Batches : remote[b] # NoSnap}
Listed  == {b \in Batches : rows[b] # NoSnap}

Init ==
  /\ clock = 0 /\ remote = [b \in Batches |-> NoSnap] /\ replies = [k \in Keys |-> NoSnap]
  /\ store = [f \in Files |-> "unused"] /\ life = [b \in Batches |-> <<>>]
  /\ files = {} /\ rows = [b \in Batches |-> NoSnap] /\ keys = [k \in Keys |-> Free]
  /\ call = [c \in Callers |-> NoCall] /\ calls = 0 /\ lost = 0 /\ adrift = {}

-----------------------------------------------------------------------------
(* A call: begun, answered by the provider, and returned or raised.         *)

Idle(c) == call[c].pc \in {"idle", "returned"}
Begin(c) == Idle(c) /\ calls < MaxCalls /\ calls' = calls + 1
At(c, op, pc) == call[c].op = op /\ call[c].pc = pc

Ask(c, op, key, on) ==
  call' = [call EXCEPT ![c] = [NoCall EXCEPT !.op = op, !.pc = "calling", !.key = key, !.on = on]]
Answer(c, s)  == call' = [call EXCEPT ![c].pc = "answered", ![c].got = {s}]
Return(c)     == call' = [call EXCEPT ![c].pc = "returned"]
Raise(c)      == call' = [call EXCEPT ![c] = NoCall]
ReturnRow(c, op, key, on, s) ==
  call' = [call EXCEPT ![c] = [NoCall EXCEPT !.op = op, !.pc = "returned", !.key = key, !.on = on,
                                            !.got = {s}]]

Got(c) == CHOOSE s \in call[c].got : TRUE

-----------------------------------------------------------------------------
(* ControlFileService.                                                      *)

\* upload: the content has been spooled and validated.
Upload(c) ==
  /\ Begin(c) /\ Ask(c, "upload", NoKey, NoFile)
  /\ UNCHANGED <<remotes, tables, lost, adrift>>

ProviderUpload(c, f) ==
  /\ At(c, "upload", "calling") /\ store[f] = "unused"
  /\ store' = [store EXCEPT ![f] = "kept"]
  /\ call' = [call EXCEPT ![c].pc = "answered", ![c].on = f]
  /\ UNCHANGED <<calls, clock, remote, replies, life, tables, lost, adrift>>

PutRecord(c) ==
  /\ At(c, "upload", "answered")
  /\ files' = files \cup {call[c].on} /\ Return(c)
  /\ UNCHANGED <<calls, remotes, rows, keys, lost, adrift>>

Delete(c, f) ==
  /\ Begin(c) /\ f \in files /\ Ask(c, "delete", NoKey, f)
  /\ UNCHANGED <<remotes, tables, lost, adrift>>

\* Of a file it does not have the provider confirms no deletion.
ProviderDelete(c) ==
  /\ At(c, "delete", "calling")
  /\ \/ /\ store[call[c].on] = "kept"
        /\ store' = [store EXCEPT ![call[c].on] = "deleted"]
        /\ call' = [call EXCEPT ![c].pc = "answered"]
     \/ store[call[c].on] # "kept" /\ Raise(c) /\ UNCHANGED store
  /\ UNCHANGED <<calls, clock, remote, replies, life, tables, lost, adrift>>

DropRecord(c) ==
  /\ At(c, "delete", "answered")
  /\ files' = files \ {call[c].on} /\ Return(c)
  /\ UNCHANGED <<calls, remotes, rows, keys, lost, adrift>>

-----------------------------------------------------------------------------
(* BatchService: the key of a call is reserved, and completed together with *)
(* the write of the answer.                                                 *)

\* Mutation: the request is not compared.
ReservedAny(k, on) == keys[k].state # "free"

\* _reserve: the key is held for this very request.
Reserved(k, on) == keys[k].state # "free" /\ keys[k].request = on

\* _reserve finds no row and inserts one, or finds a pending one.
Reserve(k, on) ==
  \/ /\ keys[k].state = "free"
     /\ keys' = [keys EXCEPT ![k] = [state |-> "pending", request |-> on, response |-> NoSnap]]
  \/ Reserved(k, on) /\ keys[k].state = "pending" /\ UNCHANGED keys

\* Mutation: the times are not compared.
WritableAnyTime(s) ==
  LET r == rows[s.id] IN r # NoSnap => s.done >= r.done /\ (r.status \in Terminal => s.status = r.status)

\* _upsert_batch refuses a record older than the row, a change of a terminal status,
\* and counts that go back.
Writable(s) ==
  LET r == rows[s.id] IN
    r # NoSnap => /\ s.at >= r.at /\ s.done >= r.done
                  /\ r.status \in Terminal => s.status = r.status

Written(S) == rows' = [b \in Batches |-> IF \E s \in S : s.id = b
                                          THEN CHOOSE s \in S : s.id = b ELSE rows[b]]

\* A completed key is answered from its row, if the file or batch it names is still
\* listed; another request's key is refused, which changes nothing.
Replay(c, op, k, on) ==
  /\ Begin(c) /\ on \in files \cup Listed /\ Reserved(k, on) /\ keys[k].state = "completed"
  /\ ReturnRow(c, op, k, on, keys[k].response)
  /\ UNCHANGED <<remotes, tables, lost, adrift>>

Submit(c, k, f) ==
  /\ Begin(c) /\ f \in files
  /\ Reserve(k, f) /\ Ask(c, "submit", k, f)
  /\ UNCHANGED <<remotes, files, rows, lost, adrift>>

\* The provider's record of a batch becomes s.
Becomes(s) ==
  /\ remote' = [remote EXCEPT ![s.id] = s]
  /\ life' = [life EXCEPT ![s.id] = Append(@, s)]

\* A new key makes a batch of a file the provider has; a known key is answered again.
ProviderSubmit(c) ==
  LET k == call[c].key  f == call[c].on  b == CHOOSE b \in Batches \ Created :
                                                \A x \in Batches \ Created : b <= x IN
    /\ At(c, "submit", "calling")
    /\ \/ /\ replies[k] # NoSnap /\ replies[k].file = f
          /\ Answer(c, replies[k]) /\ UNCHANGED <<remote, life, replies>>
       \/ /\ replies[k] = NoSnap /\ store[f] = "kept" /\ Created # Batches
          /\ LET s == [id |-> b, file |-> f, status |-> "validating", done |-> 0, at |-> clock] IN
               Becomes(s) /\ replies' = [replies EXCEPT ![k] = s] /\ Answer(c, s)
    /\ UNCHANGED <<calls, clock, store, tables, lost, adrift>>

\* The row, read before the key is reserved, says that the batch is over.
Over(b) == rows[b].status \in Terminal

Cancel(c, k, b) ==
  /\ Begin(c) /\ b \in Listed /\ Reserve(k, b)
  /\ IF Over(b) THEN call' = [call EXCEPT ![c] = [NoCall EXCEPT !.op = "cancel", !.pc = "answered",
                                                   !.key = k, !.on = b, !.got = {rows[b]}]]
                ELSE Ask(c, "cancel", k, b)
  /\ UNCHANGED <<remotes, files, rows, lost, adrift>>

ProviderCancel(c) ==
  LET k == call[c].key  b == call[c].on IN
    /\ At(c, "cancel", "calling")
    /\ \/ /\ replies[k] # NoSnap /\ replies[k].id = b
          /\ Answer(c, replies[k]) /\ UNCHANGED <<remote, life, replies>>
       \/ /\ replies[k] = NoSnap /\ remote[b].status \notin Terminal
          /\ LET s == [remote[b] EXCEPT !.status = "cancelling", !.at = clock] IN
               Becomes(s) /\ replies' = [replies EXCEPT ![k] = s] /\ Answer(c, s)
    /\ UNCHANGED <<calls, clock, store, tables, lost, adrift>>

\* _complete writes the row and the response.  Of two calls with one key the second
\* finds it completed, and returns the answer it got.
CompleteWith(c, row, response) ==
  LET k == call[c].key IN
    /\ call[c].op \in {"submit", "cancel"} /\ call[c].pc = "answered"
    /\ \/ keys[k].state = "completed" /\ Return(c) /\ UNCHANGED <<rows, keys>>
       \/ keys[k].state = "pending" /\ ~Writable(row) /\ Raise(c) /\ UNCHANGED <<rows, keys>>
       \/ /\ keys[k].state = "pending" /\ Writable(row) /\ Written({row})
          /\ keys' = [keys EXCEPT ![k].state = "completed", ![k].response = response]
          /\ Return(c)
    /\ UNCHANGED <<calls, remotes, files, lost, adrift>>

CompleteEarly(c) ==
  LET s == Got(c) IN
    CompleteWith(c, IF s.status = "cancelling" THEN [s EXCEPT !.status = "cancelled"] ELSE s, s)

Complete(c) == CompleteWith(c, Got(c), Got(c))

Retrieve(c, b) ==
  /\ Begin(c) /\ b \in Created /\ Ask(c, "retrieve", NoKey, b)
  /\ UNCHANGED <<remotes, tables, lost, adrift>>

ProviderGet(c) ==
  /\ At(c, "retrieve", "calling") /\ Answer(c, remote[call[c].on])
  /\ UNCHANGED <<calls, remotes, tables, lost, adrift>>

\* refresh: the batches, newest first, a page at a time.
Refresh(c) ==
  /\ Begin(c)
  /\ call' = [call EXCEPT ![c] = [NoCall EXCEPT !.op = "refresh", !.pc = "calling",
                                                !.prior = Created]]
  /\ UNCHANGED <<remotes, tables, lost, adrift>>

Older(n) == {b \in Created : b < n}
Newest(B) == CHOOSE b \in B : \A x \in B : x <= b

\* The records of a page are added to those of the pages before.
Gathered(c, S) == call[c].got \cup S

\* One page of one batch; the last one has no cursor.
ProviderList(c) ==
  LET more == Older(call[c].cursor)
      b    == Newest(more) IN
    /\ At(c, "refresh", "calling")
    /\ IF more = {} THEN call' = [call EXCEPT ![c].pc = "answered"]
       ELSE call' = [call EXCEPT ![c].got = Gathered(c, {remote[b]}), ![c].cursor = b,
                                 ![c].pc = IF Older(b) = {} THEN "answered" ELSE "calling"]
    /\ UNCHANGED <<calls, remotes, tables, lost, adrift>>

\* retrieve and refresh write all they got, or nothing.
Store(c) ==
  /\ call[c].op \in {"retrieve", "refresh"} /\ call[c].pc = "answered"
  /\ \/ (\A s \in call[c].got : Writable(s)) /\ Written(call[c].got) /\ Return(c)
     \/ (\E s \in call[c].got : ~Writable(s)) /\ Raise(c) /\ UNCHANGED rows
  /\ UNCHANGED <<calls, remotes, files, keys, lost, adrift>>

-----------------------------------------------------------------------------
(* Failures, and the provider's own work.                                   *)

\* The files whose fate at the provider a call no longer hears of.
Dropped(c) == IF call[c].op \in {"upload", "delete"} /\ call[c].pc = "answered"
                THEN {call[c].on} ELSE {}

\* The provider refuses, answers nonsense or is not reached.
Fail(c) ==
  /\ call[c].pc = "calling" /\ Raise(c)
  /\ UNCHANGED <<calls, remotes, tables, lost, adrift>>

\* It has acted, but its answer is lost or late.
Lose(c) ==
  /\ call[c].pc = "answered" /\ lost < MaxLost /\ lost' = lost + 1
  /\ adrift' = adrift \cup Dropped(c) /\ Raise(c)
  /\ UNCHANGED <<calls, remotes, tables>>

Crash ==
  /\ lost < MaxLost /\ lost' = lost + 1
  /\ \E c \in Callers : ~Idle(c)
  /\ call' = [c \in Callers |-> NoCall]
  /\ adrift' = adrift \cup UNION {Dropped(c) : c \in Callers}
  /\ UNCHANGED <<calls, remotes, tables>>

\* The statuses that may follow another.
After(s) ==
  CASE s = "validating"  -> {"in_progress", "completed"}
    [] s = "in_progress" -> {"completed"}
    [] s = "cancelling"  -> {"cancelled", "completed"}
    [] OTHER             -> {}

Advance(b) ==
  /\ b \in Created
  /\ \/ \E s \in After(remote[b].status) :
          Becomes([remote[b] EXCEPT !.status = s, !.at = clock])
     \/ /\ remote[b].status = "in_progress" /\ remote[b].done < MaxDone
        /\ Becomes([remote[b] EXCEPT !.done = @ + 1])
  /\ UNCHANGED <<calls, clock, replies, store, tables, call, lost, adrift>>

Tick ==
  /\ clock < MaxClock /\ clock' = clock + 1
  /\ UNCHANGED <<calls, remote, replies, store, life, tables, call, lost, adrift>>

Next ==
  \/ \E c \in Callers :
       \/ Upload(c) \/ PutRecord(c) \/ ProviderDelete(c) \/ DropRecord(c)
       \/ \E f \in Files : ProviderUpload(c, f) \/ Delete(c, f)
       \/ \E k \in CreateKeys, f \in Files : Submit(c, k, f) \/ Replay(c, "submit", k, f)
       \/ \E k \in CancelKeys, b \in Batches : Cancel(c, k, b) \/ Replay(c, "cancel", k, b)
       \/ ProviderSubmit(c) \/ ProviderCancel(c) \/ Complete(c)
       \/ \E b \in Batches : Retrieve(c, b)
       \/ ProviderGet(c) \/ Refresh(c) \/ ProviderList(c) \/ Store(c)
       \/ Fail(c) \/ Lose(c)
  \/ Crash \/ Tick \/ \E b \in Batches : Advance(b)

Spec == Init /\ [][Next]_vars

-----------------------------------------------------------------------------
(* Properties.                                                              *)

\* Batch b has had the record r, and s as well, at that time or later.
Came(b, r, s) ==
  \E i \in DOMAIN life[b] : \E j \in i..Len(life[b]) : life[b][i] = r /\ life[b][j] = s

\* A call that returns has the batch of its own key and its own request, whether it
\* asked the provider, came second, or was answered from the table; and a key of
\* batch.cancel completes only when the provider has been told, or the batch is over.
AnswersMatch ==
  /\ \A c \in Callers :
       call[c].pc = "returned" =>
         /\ call[c].op = "submit" => Got(c).file = call[c].on /\ Got(c).id = replies[call[c].key].id
         /\ call[c].op = "cancel" => Got(c).id = call[c].on
  /\ \A k \in CancelKeys :
       keys[k].state = "completed" => remote[keys[k].request].status \in Terminal \cup {"cancelling"}

\* What a completed key answers is in the catalog, at that record, one that came later,
\* or one of the same second: the provider's times are in seconds.
CompletedListed ==
  \A k \in Keys :
    keys[k].state = "completed" =>
      LET s == keys[k].response  r == rows[s.id] IN r # NoSnap /\ (Came(s.id, s, r) \/ r.at = s.at)

\* ROADMAP.md: pagination never skips a record.  After a refresh every batch that
\* was there when it began is listed, though batches are created meanwhile.
RefreshSkipsNothing ==
  \A c \in Callers : At(c, "refresh", "returned") => call[c].prior \subseteq Listed

\* Unless a call was cut short after the provider had acted, a file is in the catalog
\* exactly if the provider keeps it, but for the calls that are about to write.
FilesAgree ==
  \A f \in Files \ (adrift \cup UNION {Dropped(c) : c \in Callers}) :
    f \in files <=> store[f] = "kept"

\* A row is a record that the provider has had, and one that shows a batch as over is
\* the provider's present one.
RowsTrue ==
  \A b \in Listed :
    /\ Came(b, rows[b], remote[b])
    /\ rows[b].status \in Terminal => rows[b] = remote[b]

\* The catalogs tell the truth: what keys, refreshes and calls promise is in them, and
\* no row is anything but what the provider's record is or once was.
CatalogTrue == CompletedListed /\ RefreshSkipsNothing /\ FilesAgree /\ RowsTrue

\* A step takes no row away, and none back in the life of its batch but to a record of
\* the same second with the same counts, of a batch that was not shown as over.
RowsOnward ==
  \A b \in Listed :
    LET r == rows[b]  s == rows'[b] IN
      /\ s # NoSnap
      /\ Came(b, r, s) \/ (s.at = r.at /\ s.done = r.done /\ r.status \notin Terminal)

\* The catalog refuses what a call was answered.
Refused(c) ==
  /\ call[c].op \in {"submit", "cancel", "retrieve", "refresh"} /\ call[c].pc = "answered"
  /\ call'[c].pc = "idle" /\ lost' = lost

\* It does so only if one of its rows is of later date in the life of its batch.
RefusalsDue ==
  \A c \in Callers :
    Refused(c) => \E s \in call[c].got : rows[s.id] \notin {s, NoSnap} /\ Came(s.id, s, rows[s.id])

\* In whatever order answers are written, _upsert_batch lets no row go back by a second
\* or more, in its counts, or from its end, and refuses no answer that is not overtaken:
\* so its comparison of times, counts and statuses stands for the order in which the
\* provider had the records, which it cannot see, but for statuses within one second.
RowsForward == [][RowsOnward /\ RefusalsDue]_vars
=============================================================================
