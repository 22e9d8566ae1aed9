---------------------------- MODULE ControlProofs ----------------------------
(***************************************************************************)
(* What the control plane's catalog of files and batches keeps, for any    *)
(* number of calls, keys, files and batches, and wherever a call is cut    *)
(* short.                                                                  *)
(***************************************************************************)
EXTENDS ControlPlane, WellFoundedInduction, TLAPS

USE ControlAssumption

-----------------------------------------------------------------------------
(* The inductive invariant.                                                 *)

Ons   == Files \cup Batches \cup {NoFile}
Calls == [op : {"none", "upload", "delete", "submit", "cancel", "retrieve", "refresh"},
          pc : {"idle", "calling", "answered", "returned"},
          key : Keys \cup {NoKey}, on : Ons, got : SUBSET Snapshots,
          cursor : 1..(MaxBatches + 1), prior : SUBSET Batches]
Held  == [state : {"free", "pending", "completed"}, request : Ons, response : Snapshots \cup {NoSnap}]

TypeOK ==
  /\ clock \in 0..MaxClock /\ remote \in [Batches -> Snapshots \cup {NoSnap}]
  /\ replies \in [Keys -> Snapshots \cup {NoSnap}]
  /\ store \in [Files -> {"unused", "kept", "deleted"}]
  /\ files \in SUBSET Files /\ rows \in [Batches -> Snapshots \cup {NoSnap}] /\ keys \in [Keys -> Held]
  /\ call \in [Callers -> Calls]
  /\ calls \in 0..MaxCalls /\ lost \in 0..MaxLost /\ adrift \in SUBSET Files

\* The record s may follow r in the life of a batch, and in its row.
Follows(s, r) ==
  /\ s.at >= r.at /\ s.done >= r.done
  /\ r.status \in Terminal => s.status = r.status

\* s is what the provider's record of its batch may follow.
Known(s) ==
  /\ remote[s.id] # NoSnap /\ remote[s.id].file = s.file
  /\ Follows(remote[s.id], s)

\* The provider has been told to cancel b, or b is over.
Ended(b) == remote[b] # NoSnap /\ remote[b].status \in Terminal \cup {"cancelling"}

\* What the provider holds, and what it has answered to each key.
ProviderTrue ==
  /\ \A b \in Batches : remote[b] # NoSnap => remote[b].id = b /\ remote[b].at <= clock
  /\ \A k \in Keys : replies[k] # NoSnap =>
       Known(replies[k]) /\ (k \in CancelKeys => Ended(replies[k].id))

\* The rows are records that the provider has had.
RowsKnown == \A b \in Batches : rows[b] # NoSnap => rows[b].id = b /\ Known(rows[b])

\* s answers the request on under key k.
Answers(k, on, s) ==
  IF k \in CreateKeys THEN s.file = on /\ replies[k] # NoSnap /\ s.id = replies[k].id
                      ELSE s.id = on /\ Ended(s.id)

\* What a completed key answers is an answer, and in the catalog.
KeyTrue(k) ==
  LET s == keys[k].response IN
    /\ s \in Snapshots /\ Known(s) /\ Answers(k, keys[k].request, s)
    /\ rows[s.id] # NoSnap /\ Follows(rows[s.id], s)

KeysTrue == \A k \in Keys : keys[k].state = "completed" => KeyTrue(k)

\* A call with a key: the key is held for its request, and what it got answers that.
Keyed(c) ==
  LET k == call[c].key IN
    /\ call[c].op = "submit" => k \in CreateKeys /\ call[c].on \in Files
    /\ call[c].op = "cancel" => k \in CancelKeys /\ call[c].on \in Created
    /\ keys[k].state # "free" /\ keys[k].request = call[c].on
    /\ call[c].pc # "calling" =>
         \E s \in Snapshots : call[c].got = {s} /\ Answers(k, call[c].on, s)

\* A refresh: of the batches that were there when it began it has those from its
\* cursor on, and in the end all.
Refreshing(c) ==
  /\ call[c].prior \in SUBSET Created
  /\ call[c].pc = "calling" =>
       \A b \in call[c].prior : b >= call[c].cursor => \E s \in call[c].got : s.id = b
  /\ call[c].pc = "answered" => \A b \in call[c].prior : \E s \in call[c].got : s.id = b
  /\ call[c].pc = "returned" => call[c].prior \in SUBSET Listed

CallTrue(c) ==
  /\ \A s \in call[c].got : Known(s)
  /\ call[c].op \in {"none", "upload", "delete"} => call[c].got = {}
  /\ call[c].op \in {"submit", "cancel"} => Keyed(c)
  /\ call[c].op = "refresh" => Refreshing(c)
  /\ call[c].op = "retrieve" => call[c].on \in Created

CallsTrue == \A c \in Callers : CallTrue(c)

Uploaded(c) == call[c].op = "upload" /\ call[c].pc = "answered"
Deleting(c) == call[c].op = "delete" /\ call[c].pc \in {"calling", "answered"}

\* A file that a call is about to list is that call's alone; one that a call is about
\* to strike off has been deleted.
FilesTrue ==
  /\ \A f \in files : store[f] # "unused"
  /\ \A c \in Callers :
       /\ Deleting(c) => /\ call[c].on \in Files /\ store[call[c].on] # "unused"
                         /\ call[c].pc = "answered" => store[call[c].on] = "deleted"
       /\ Uploaded(c) => /\ call[c].on \in Files \ files /\ store[call[c].on] = "kept"
                         /\ \A d \in Callers \ {c} :
                              Uploaded(d) \/ Deleting(d) => call[d].on # call[c].on

BatchesTrue == ProviderTrue /\ RowsKnown /\ KeysTrue /\ CallsTrue

Inductive == TypeOK /\ BatchesTrue /\ FilesTrue /\ FilesAgree

-----------------------------------------------------------------------------
(* Numbers, and what may follow what.                                       *)

\* Of some natural numbers one is the least.
LEMMA Least ==
  ASSUME NEW T \in SUBSET Nat, T # {}
  PROVE  \E x \in T : \A y \in T : x <= y
  <1> DEFINE R == {ss \in Nat \X Nat : ss[1] < ss[2]}
  <1>1. IsWellFoundedOn(R, Nat) BY NatLessThanWellFounded DEF OpToRel
  <1>2. \E x \in T : \A y \in T : ~ (<<y, x>> \in R)
    <2> HIDE DEF R
    <2> QED BY <1>1, WFMin
  <1>3. \A x, y \in T : ~ (<<y, x>> \in R) => x <= y OBVIOUS
  <1> QED BY <1>2, <1>3

\* Of some numbers up to a bound one is the greatest.
LEMMA Greatest ==
  ASSUME NEW n \in Nat, NEW T \in SUBSET (1..n), T # {}
  PROVE  \E x \in T : \A y \in T : y <= x
  <1> DEFINE U == {n - x : x \in T}
  <1>1. U \in SUBSET Nat /\ U # {} OBVIOUS
  <1>2. PICK u \in U : \A v \in U : u <= v
    <2> HIDE DEF U
    <2> QED BY <1>1, Least
  <1>3. PICK x \in T : u = n - x OBVIOUS
  <1>4. ASSUME NEW y \in T PROVE y <= x
    <2>1. n - y \in U OBVIOUS
    <2>2. u <= n - y
      <3> HIDE DEF U
      <3> QED BY <1>2, <2>1
    <2> QED BY <1>3, <2>2
  <1> QED BY <1>4

\* The batch that the provider numbers next is one of those there are.
LEMMA NextBatch ==
  ASSUME TypeOK, Created # Batches
  PROVE  (CHOOSE b \in Batches \ Created : \A x \in Batches \ Created : b <= x) \in Batches \ Created
  <1> DEFINE T == Batches \ Created
  <1>1. T \in SUBSET Nat /\ T # {} BY DEF Created, Batches
  <1>2. \E b \in T : \A x \in T : b <= x
    <2> HIDE DEF T
    <2> QED BY <1>1, Least
  <1> QED BY <1>2

\* The batch of the next page is the newest of those that are left.
LEMMA NewestOf ==
  ASSUME NEW T \in SUBSET Batches, T # {}
  PROVE  Newest(T) \in T /\ \A x \in T : x <= Newest(T)
  <1>1. \E b \in T : \A x \in T : x <= b BY Greatest DEF Batches
  <1> QED BY <1>1 DEF Newest

\* Follows is an order.
LEMMA FollowsItself == ASSUME NEW s \in Snapshots PROVE Follows(s, s)
  BY DEF Snapshots, Follows

LEMMA FollowsOn ==
  ASSUME NEW s \in Snapshots, NEW r \in Snapshots, NEW q \in Snapshots, Follows(s, r), Follows(r, q)
  PROVE  Follows(s, q)
  BY DEF Snapshots, Follows

-----------------------------------------------------------------------------
(* Steps only add to what is known.                                         *)

RemoteForward ==
  \A b \in Batches :
    remote[b] # NoSnap =>
      /\ remote'[b] # NoSnap /\ remote'[b].file = remote[b].file /\ Follows(remote'[b], remote[b])
      /\ Ended(b) => Ended(b)'

RowsFollow == \A b \in Batches : rows[b] # NoSnap => rows'[b] # NoSnap /\ Follows(rows'[b], rows[b])

RepliesKept == \A k \in Keys : replies[k] # NoSnap => replies'[k] = replies[k]

KeysKept ==
  \A k \in Keys :
    /\ keys[k].state # "free" => keys'[k].state # "free" /\ keys'[k].request = keys[k].request
    /\ keys[k].state = "completed" => keys'[k] = keys[k]

Forward == RemoteForward /\ RowsFollow /\ RepliesKept /\ KeysKept

\* A record that the provider has had stays one.
LEMMA KnownOnward ==
  ASSUME TypeOK, TypeOK', Forward, NEW s \in Snapshots, Known(s) PROVE Known(s)'
  <1>1. s.id \in Batches BY DEF Snapshots
  <1>2. remote[s.id] \in Snapshots /\ remote'[s.id] \in Snapshots
    BY <1>1 DEF TypeOK, Known, Forward, RemoteForward
  <1>3. Follows(remote'[s.id], s) BY <1>1, <1>2, FollowsOn DEF Known, Forward, RemoteForward
  <1> QED BY <1>1, <1>3 DEF Known, Forward, RemoteForward

\* An answer to a key stays one.
LEMMA AnswersOnward ==
  ASSUME TypeOK, Forward, NEW k \in Keys, NEW on \in Ons, NEW s \in Snapshots, Answers(k, on, s)
  PROVE  Answers(k, on, s)'
  <1>1. s.id \in Batches BY DEF Snapshots
  <1> QED BY <1>1 DEF Answers, Ended, Forward, RemoteForward, RepliesKept

LEMMA SetsOnward ==
  ASSUME Forward PROVE Created \subseteq Created' /\ Listed \subseteq Listed'
  BY DEF Forward, RemoteForward, RowsFollow, Created, Listed

\* What is true of a call that does not move stays so.
LEMMA CallOnward ==
  ASSUME TypeOK, TypeOK', Forward, NEW c \in Callers, CallTrue(c), call'[c] = call[c]
  PROVE  CallTrue(c)'
  <1>1. call[c] \in Calls BY DEF TypeOK
  <1>2. \A s \in call[c].got : Known(s)' BY <1>1, KnownOnward DEF CallTrue, Calls
  <1>3. ASSUME call[c].op \in {"submit", "cancel"} PROVE Keyed(c)'
    <2>1. Keyed(c) BY <1>3 DEF CallTrue
    <2>2. call[c].key \in Keys /\ call[c].on \in Ons BY <1>1, <1>3, <2>1 DEF Keyed, Keys, Calls
    <2>3. \A s \in Snapshots : Answers(call[c].key, call[c].on, s) => Answers(call[c].key, call[c].on, s)'
      BY <2>2, AnswersOnward
    <2>4. keys'[call[c].key].state # "free" /\ keys'[call[c].key].request = call[c].on
      BY <2>1, <2>2 DEF Keyed, Forward, KeysKept
    <2>5. call[c].op = "cancel" => call[c].on \in Created' BY <2>1, SetsOnward DEF Keyed
    <2>6. call[c].pc # "calling" =>
            \E s \in Snapshots : call[c].got = {s} /\ Answers(call[c].key, call[c].on, s)'
      BY <2>1, <2>3 DEF Keyed
    <2> QED BY <2>1, <2>4, <2>5, <2>6 DEF Keyed, Answers, Ended
  <1>4. ASSUME call[c].op = "refresh" PROVE Refreshing(c)'
    BY <1>4, SetsOnward DEF CallTrue, Refreshing
  <1>5. call[c].op = "retrieve" => call[c].on \in Created' BY SetsOnward DEF CallTrue
  <1> QED BY <1>2, <1>3, <1>4, <1>5 DEF CallTrue, Known

\* When one call moves, what is true of the others stays so.
LEMMA CallsOnward ==
  ASSUME TypeOK, TypeOK', Forward, CallsTrue, NEW c \in Callers, CallTrue(c)',
         \A d \in Callers \ {c} : call'[d] = call[d]
  PROVE  CallsTrue'
  BY CallOnward DEF CallsTrue

\* What the provider has answered stays true while its records and answers stay.
LEMMA ProviderOnward ==
  ASSUME ProviderTrue, UNCHANGED <<remote, replies>>, clock' >= clock, TypeOK, TypeOK' PROVE ProviderTrue'
  <1>1. ASSUME NEW b \in Batches, remote[b] # NoSnap PROVE remote[b].at <= clock'
    BY <1>1 DEF ProviderTrue, TypeOK, Snapshots
  <1> QED BY <1>1 DEF ProviderTrue, Known, Ended

\* The rows stay true while they stay.
LEMMA RowsStay ==
  ASSUME TypeOK, TypeOK', Forward, RowsKnown, UNCHANGED rows PROVE RowsKnown'
  <1>1. ASSUME NEW b \in Batches, rows[b] # NoSnap PROVE Known(rows[b])'
    <2>1. rows[b] \in Snapshots /\ Known(rows[b]) BY <1>1 DEF TypeOK, RowsKnown
    <2>2. rows'[b] = rows[b] OBVIOUS
    <2> QED BY <2>1, <2>2, KnownOnward DEF Known
  <1> QED BY <1>1 DEF RowsKnown, Known

\* A completed key stays true while the rows go forward.
LEMMA KeyOnward ==
  ASSUME TypeOK, TypeOK', Forward, KeysTrue, NEW k \in Keys, keys[k].state = "completed"
  PROVE  KeyTrue(k)'
  <1>1. PICK s \in Snapshots, on \in Ons : s = keys[k].response /\ on = keys[k].request
    BY DEF KeysTrue, KeyTrue, TypeOK, Held
  <1>2. keys'[k] = keys[k] /\ Known(s) /\ Answers(k, on, s) /\ rows[s.id] # NoSnap /\ Follows(rows[s.id], s)
    BY <1>1 DEF KeysTrue, KeyTrue, Forward, KeysKept
  <1>3. rows'[s.id] # NoSnap /\ Follows(rows'[s.id], s)
    <2>1. s.id \in Batches BY DEF Snapshots
    <2>2. rows'[s.id] # NoSnap /\ Follows(rows'[s.id], rows[s.id]) BY <1>2, <2>1 DEF Forward, RowsFollow
    <2>3. rows'[s.id] \in Snapshots /\ rows[s.id] \in Snapshots BY <1>2, <2>1, <2>2 DEF TypeOK
    <2> QED BY <1>2, <2>2, <2>3, FollowsOn
  <1>4. Known(s)' /\ Answers(k, on, s)' BY <1>2, KnownOnward, AnswersOnward
  <1> QED BY <1>1, <1>2, <1>3, <1>4 DEF KeyTrue

\* Keys stay true while none is completed.
LEMMA KeysStay ==
  ASSUME TypeOK, TypeOK', Forward, KeysTrue,
         \A k \in Keys : keys'[k].state = "completed" => keys[k].state = "completed"
  PROVE  KeysTrue'
  BY KeyOnward DEF KeysTrue

-----------------------------------------------------------------------------
(* One call moves.                                                          *)

\* c's call is now r, and no other has moved.
Moves(c, r) == call'[c] = r /\ \A d \in Callers \ {c} : call'[d] = call[d]

\* c has just asked the provider.
Began(c, op, key, on) ==
  /\ call'[c].op = op /\ call'[c].pc = "calling" /\ call'[c].key = key /\ call'[c].on = on
  /\ call'[c].got = {} /\ call'[c].prior = {}
  /\ \A d \in Callers \ {c} : call'[d] = call[d]

LEMMA CallMoves ==
  ASSUME TypeOK, NEW c \in Callers, NEW r \in Calls, call' = [call EXCEPT ![c] = r]
  PROVE  call' \in [Callers -> Calls] /\ Moves(c, r)
  BY DEF TypeOK, Moves

LEMMA NoCallTypes == NoCall \in Calls
  BY DEF NoCall, Calls, Ons

\* A call that begins, and asks the provider.
LEMMA AskMoves ==
  ASSUME TypeOK, NEW c \in Callers, NEW op \in {"upload", "delete", "submit", "cancel", "retrieve"},
         NEW key \in Keys \cup {NoKey}, NEW on \in Ons, Ask(c, op, key, on)
  PROVE  call' \in [Callers -> Calls] /\ Began(c, op, key, on)
  <1> DEFINE r == [NoCall EXCEPT !.op = op, !.pc = "calling", !.key = key, !.on = on]
  <1>1. NoCall \in Calls /\ NoCall.got = {} /\ NoCall.prior = {} BY NoCallTypes DEF NoCall
  <1>2. r \in Calls BY <1>1 DEF Calls
  <1>3. /\ r.op = op /\ r.pc = "calling" /\ r.key = key /\ r.on = on /\ r.got = {} /\ r.prior = {}
    BY <1>1 DEF Calls
  <1>4. call' = [call EXCEPT ![c] = r] BY DEF Ask
  <1> HIDE DEF r
  <1>5. call' \in [Callers -> Calls] /\ Moves(c, r) BY <1>2, <1>4, CallMoves
  <1> QED BY <1>3, <1>5 DEF Moves, Began

\* A call that raises.
LEMMA RaiseMoves ==
  ASSUME TypeOK, NEW c \in Callers, Raise(c) PROVE call' \in [Callers -> Calls] /\ Moves(c, NoCall)
  BY NoCallTypes, CallMoves DEF Raise

\* A call goes on to a step of its own.
LEMMA PcMoves ==
  ASSUME TypeOK, NEW c \in Callers, NEW pc \in {"calling", "answered", "returned"},
         call' = [call EXCEPT ![c].pc = pc]
  PROVE  call' \in [Callers -> Calls] /\ Moves(c, [call[c] EXCEPT !.pc = pc])
  <1>1. call[c] \in Calls BY DEF TypeOK
  <1>2. [call[c] EXCEPT !.pc = pc] \in Calls BY <1>1 DEF Calls
  <1>3. call' = [call EXCEPT ![c] = [call[c] EXCEPT !.pc = pc]] BY DEF TypeOK
  <1> QED BY <1>2, <1>3, CallMoves

\* A call is answered with a record.
LEMMA AnswerMoves ==
  ASSUME TypeOK, NEW c \in Callers, NEW s \in Snapshots, Answer(c, s)
  PROVE  call' \in [Callers -> Calls] /\ Moves(c, [call[c] EXCEPT !.pc = "answered", !.got = {s}])
  <1>1. call[c] \in Calls BY DEF TypeOK
  <1>2. [call[c] EXCEPT !.pc = "answered", !.got = {s}] \in Calls BY <1>1 DEF Calls
  <1>3. call' = [call EXCEPT ![c] = [call[c] EXCEPT !.pc = "answered", !.got = {s}]]
    BY DEF TypeOK, Answer
  <1> QED BY <1>2, <1>3, CallMoves

\* Nothing that the batches' part is about changes, but for one call.
LEMMA BatchesStay ==
  ASSUME Inductive, TypeOK', UNCHANGED <<clock, remote, replies, rows, keys>>, NEW c \in Callers,
         \A d \in Callers \ {c} : call'[d] = call[d], CallTrue(c)'
  PROVE  BatchesTrue'
  <1>1. TypeOK /\ BatchesTrue BY DEF Inductive
  <1>2. Forward
    BY <1>1, FollowsItself
    DEF TypeOK, Forward, RemoteForward, RowsFollow, RepliesKept, KeysKept, Ended
  <1>3. clock' >= clock BY <1>1 DEF TypeOK
  <1> QED BY <1>1, <1>2, <1>3, ProviderOnward, RowsStay, KeysStay, CallsOnward DEF BatchesTrue

\* Nothing that the files' part is about changes, but for a call that has no file.
LEMMA FilesStay ==
  ASSUME Inductive, UNCHANGED <<store, files, adrift>>, NEW c \in Callers, Dropped(c) = {},
         \A d \in Callers \ {c} : call'[d] = call[d],
         ~(Uploaded(c) \/ Deleting(c))'
  PROVE  FilesTrue' /\ FilesAgree'
  <1>1. FilesTrue /\ FilesAgree BY DEF Inductive
  <1>2. FilesTrue' BY <1>1 DEF FilesTrue, Uploaded, Deleting
  <1>3. \A d \in Callers : Dropped(d)' = Dropped(d) BY DEF Dropped, Uploaded, Deleting
  <1>4. FilesAgree' BY <1>1, <1>3 DEF FilesAgree
  <1> QED BY <1>2, <1>4

LEMMA IdleDropsNothing == ASSUME NEW c \in Callers, Idle(c) PROVE Dropped(c) = {}
  BY DEF Idle, Dropped

-----------------------------------------------------------------------------
(* Files.                                                                   *)

\* A call that has no records and no key says nothing of batches.
LEMMA PlainCall ==
  ASSUME NEW c \in Callers, call'[c].op \in {"none", "upload", "delete"}, call'[c].got = {}
  PROVE  CallTrue(c)'
  BY DEF CallTrue

\* Calls for files have no records.
LEMMA UploadInductive == ASSUME Inductive, NEW c \in Callers, Upload(c) PROVE Inductive'
  <1>1. TypeOK BY DEF Inductive
  <1>2. call' \in [Callers -> Calls] /\ Began(c, "upload", NoKey, NoFile)
    BY <1>1, AskMoves DEF Upload, Ons
  <1>3. UNCHANGED <<clock, remote, replies, store, files, rows, keys, lost, adrift>>
    BY DEF Upload, remotes, tables
  <1>4. calls' \in 0..MaxCalls BY <1>1 DEF Upload, Begin, TypeOK
  <1>5. TypeOK' BY <1>1, <1>2, <1>3, <1>4 DEF TypeOK
  <1>6. /\ call'[c].op = "upload" /\ call'[c].pc = "calling" /\ call'[c].got = {}
        /\ \A d \in Callers \ {c} : call'[d] = call[d]
    BY <1>2 DEF Began
  <1>7. BatchesTrue' BY <1>3, <1>5, <1>6, PlainCall, BatchesStay
  <1>8. Dropped(c) = {} BY IdleDropsNothing DEF Upload, Begin
  <1>9. FilesTrue' /\ FilesAgree' BY <1>3, <1>6, <1>8, FilesStay DEF Uploaded, Deleting
  <1> QED BY <1>5, <1>7, <1>9 DEF Inductive

\* Call c is about to write what has become of f.
Dropping(c, f) ==
  (Uploaded(c) \/ (Deleting(c) /\ call[c].pc = "answered")) /\ call[c].on = f

\* FilesAgree, a file at a time.
AgreeAt ==
  \A f \in Files :
    f \notin adrift /\ (\A c \in Callers : ~Dropping(c, f)) => (f \in files <=> store[f] = "kept")

LEMMA AgreeEach == (FilesAgree <=> AgreeAt) /\ (FilesAgree' <=> AgreeAt')
  <1>1. \A c \in Callers : \A f \in Files : Dropping(c, f) <=> f \in Dropped(c)
    BY DEF Dropping, Uploaded, Deleting, Dropped
  <1>2. \A c \in Callers : \A f \in Files : (Dropping(c, f) <=> f \in Dropped(c))'
    BY DEF Dropping, Uploaded, Deleting, Dropped
  <1> QED BY <1>1, <1>2 DEF FilesAgree, AgreeAt

\* The provider's answer to an upload, and the row of the file.
LEMMA UploadedInductive ==
  ASSUME Inductive, NEW c \in Callers,
         (\E f \in Files : ProviderUpload(c, f)) \/ PutRecord(c)
  PROVE  Inductive'
  <1>1. TypeOK /\ FilesTrue /\ FilesAgree /\ CallTrue(c)
    BY DEF Inductive, BatchesTrue, CallsTrue
  <1>2. call[c] \in Calls /\ store \in [Files -> {"unused", "kept", "deleted"}] /\ files \in SUBSET Files
    BY <1>1 DEF TypeOK
  <1>3. call[c].op = "upload" /\ UNCHANGED <<calls, clock, remote, replies, rows, keys, lost, adrift>>
    BY DEF ProviderUpload, PutRecord, At, remotes, tables
  <1>4. call[c].got = {} BY <1>1, <1>3 DEF CallTrue
  <1>5. ASSUME NEW f \in Files, ProviderUpload(c, f) PROVE Inductive'
    <2>1. /\ store[f] = "unused" /\ store' = [store EXCEPT ![f] = "kept"] /\ files' = files
          /\ call' = [call EXCEPT ![c].pc = "answered", ![c].on = f]
      BY <1>5 DEF ProviderUpload, tables
    <2> DEFINE r == [call[c] EXCEPT !.pc = "answered", !.on = f]
    <2>2. r \in Calls BY <1>2 DEF Calls, Ons
    <2>3. call' = [call EXCEPT ![c] = r] BY <1>1, <2>1 DEF TypeOK
    <2>4. r.op = "upload" /\ r.pc = "answered" /\ r.on = f /\ r.got = {}
      BY <1>2, <1>3, <1>4 DEF Calls
    <2> HIDE DEF r
    <2>5. call' \in [Callers -> Calls] /\ Moves(c, r) BY <1>1, <2>2, <2>3, CallMoves
    <2>6. /\ call'[c].op = "upload" /\ call'[c].pc = "answered" /\ call'[c].on = f /\ call'[c].got = {}
          /\ \A d \in Callers \ {c} : call'[d] = call[d]
      BY <2>4, <2>5 DEF Moves
    <2>7. store' \in [Files -> {"unused", "kept", "deleted"}] BY <1>2, <2>1
    <2>8. TypeOK' BY <1>1, <1>3, <2>1, <2>5, <2>7 DEF TypeOK
    <2>9. BatchesTrue' BY <1>3, <2>6, <2>8, PlainCall, BatchesStay
    <2>10. \A g \in Files : store'[g] = IF g = f THEN "kept" ELSE store[g] BY <1>2, <2>1
    <2>11. \A g \in files' : store'[g] # "unused" BY <1>1, <1>2, <2>1, <2>10 DEF FilesTrue
    <2>12. \A d \in Callers \ {c} :
             /\ Deleting(d) => call[d].on \in Files /\ call[d].on # f
             /\ Uploaded(d) => call[d].on \in Files /\ call[d].on # f
      BY <1>1, <2>1 DEF FilesTrue
    <2>13. \A d \in Callers \ {c} : (Deleting(d)' <=> Deleting(d)) /\ (Uploaded(d)' <=> Uploaded(d))
      BY <2>6 DEF Deleting, Uploaded
    <2>14. ~Deleting(c)' /\ Uploaded(c)' /\ f \notin files BY <1>1, <2>1, <2>6 DEF Deleting, Uploaded, FilesTrue
    <2>15. FilesTrue'
      <3>1. ASSUME NEW d \in Callers, Deleting(d)'
            PROVE  /\ call'[d].on \in Files /\ store'[call'[d].on] # "unused"
                   /\ call'[d].pc = "answered" => store'[call'[d].on] = "deleted"
        <4>1. d # c /\ Deleting(d) /\ call'[d] = call[d] BY <2>6, <2>13, <2>14, <3>1
        <4> QED BY <1>1, <2>10, <2>12, <4>1 DEF FilesTrue
      <3>2. ASSUME NEW d \in Callers, Uploaded(d)'
            PROVE  /\ call'[d].on \in Files \ files' /\ store'[call'[d].on] = "kept"
                   /\ \A e \in Callers \ {d} : (Uploaded(e) \/ Deleting(e))' => call'[e].on # call'[d].on
        <4>1. CASE d = c
          <5>1. call'[d].on = f /\ f \in Files \ files' /\ store'[f] = "kept" BY <2>1, <2>6, <2>10, <2>14, <4>1
          <5>2. \A e \in Callers \ {d} : (Uploaded(e) \/ Deleting(e))' => call'[e].on # f
            BY <2>6, <2>12, <2>13, <4>1
          <5> QED BY <5>1, <5>2
        <4>2. CASE d # c
          <5>1. Uploaded(d) /\ call'[d] = call[d] BY <2>6, <2>13, <3>2, <4>2
          <5>2. /\ call[d].on \in Files \ files /\ store[call[d].on] = "kept" /\ call[d].on # f
                /\ \A e \in Callers \ {d} : Uploaded(e) \/ Deleting(e) => call[e].on # call[d].on
            BY <1>1, <2>12, <4>2, <5>1 DEF FilesTrue
          <5> QED BY <2>1, <2>6, <2>10, <2>13, <5>1, <5>2
        <4> QED BY <4>1, <4>2
      <3> QED BY <2>11, <3>1, <3>2 DEF FilesTrue
    <2>16. Dropping(c, f)' BY <2>6, <2>14 DEF Dropping
    <2>17. ASSUME NEW g \in Files \ {f}, NEW d \in Callers, Dropping(d, g) PROVE Dropping(d, g)'
      BY <1>3, <2>1, <2>6, <2>13, <2>17, <1>5 DEF Dropping, ProviderUpload, At, Uploaded, Deleting
    <2>18. FilesAgree' BY <1>1, <1>3, <2>1, <2>10, <2>16, <2>17, AgreeEach DEF AgreeAt
    <2> QED BY <2>8, <2>9, <2>15, <2>18 DEF Inductive
  <1>6. CASE PutRecord(c)
    <2> DEFINE f == call[c].on
    <2>1. Uploaded(c) /\ store' = store /\ files' = files \cup {f} /\ Return(c)
      BY <1>6 DEF PutRecord, At, Uploaded, remotes
    <2>2. call' \in [Callers -> Calls] /\ Moves(c, [call[c] EXCEPT !.pc = "returned"])
      BY <1>1, <2>1, PcMoves DEF Return
    <2>3. /\ call'[c].op = "upload" /\ call'[c].pc = "returned" /\ call'[c].got = {}
          /\ \A d \in Callers \ {c} : call'[d] = call[d]
      BY <1>2, <1>3, <1>4, <2>2 DEF Moves, Calls
    <2>4. f \in Files \ files /\ store[f] = "kept"
          /\ \A d \in Callers \ {c} : Uploaded(d) \/ Deleting(d) => call[d].on # f
      BY <1>1, <2>1 DEF FilesTrue
    <2> HIDE DEF f
    <2>5. TypeOK' BY <1>1, <1>3, <2>1, <2>2, <2>4 DEF TypeOK
    <2>6. BatchesTrue' BY <1>3, <2>3, <2>5, PlainCall, BatchesStay
    <2>7. \A d \in Callers \ {c} : (Deleting(d)' <=> Deleting(d)) /\ (Uploaded(d)' <=> Uploaded(d))
      BY <2>3 DEF Deleting, Uploaded
    <2>8. ~Deleting(c)' /\ ~Uploaded(c)' BY <2>3 DEF Deleting, Uploaded
    <2>9. FilesTrue' BY <1>1, <2>1, <2>3, <2>4, <2>7, <2>8 DEF FilesTrue
    <2>10. ASSUME NEW g \in Files \ {f}, NEW d \in Callers, Dropping(d, g) PROVE Dropping(d, g)'
      <3>1. d # c BY <2>10, <2>1 DEF Dropping, f
      <3> QED BY <3>1, <2>3, <2>7, <2>10 DEF Dropping
    <2>11. FilesAgree' BY <1>1, <1>3, <2>1, <2>4, <2>10, AgreeEach DEF AgreeAt
    <2> QED BY <2>5, <2>6, <2>9, <2>11 DEF Inductive
  <1> QED BY <1>5, <1>6

\* A file is deleted: the question, the provider's answer, and the row.
LEMMA DeleteInductive ==
  ASSUME Inductive, NEW c \in Callers, NEW f \in Files, Delete(c, f) PROVE Inductive'
  <1>1. TypeOK /\ FilesTrue /\ FilesAgree BY DEF Inductive
  <1>2. call' \in [Callers -> Calls] /\ Began(c, "delete", NoKey, f)
    BY <1>1, AskMoves DEF Delete, Ons
  <1>3. UNCHANGED <<clock, remote, replies, store, files, rows, keys, lost, adrift>> /\ f \in files
    BY DEF Delete, remotes, tables
  <1>4. calls' \in 0..MaxCalls BY <1>1 DEF Delete, Begin, TypeOK
  <1>5. TypeOK' BY <1>1, <1>2, <1>3, <1>4 DEF TypeOK
  <1>6. /\ call'[c].op = "delete" /\ call'[c].pc = "calling" /\ call'[c].got = {} /\ call'[c].on = f
        /\ \A d \in Callers \ {c} : call'[d] = call[d]
    BY <1>2 DEF Began
  <1>7. BatchesTrue' BY <1>3, <1>5, <1>6, PlainCall, BatchesStay
  <1>8. \A d \in Callers \ {c} : (Deleting(d)' <=> Deleting(d)) /\ (Uploaded(d)' <=> Uploaded(d))
    BY <1>6 DEF Deleting, Uploaded
  <1>9. ~Uploaded(c)' BY <1>6 DEF Uploaded
  <1>10. FilesTrue' BY <1>1, <1>3, <1>6, <1>8, <1>9 DEF FilesTrue
  <1>11. ASSUME NEW g \in Files, NEW d \in Callers, Dropping(d, g) PROVE Dropping(d, g)'
    <2>1. d # c BY <1>11 DEF Dropping, Uploaded, Delete, Begin, Idle
    <2> QED BY <2>1, <1>6, <1>8, <1>11 DEF Dropping
  <1>12. FilesAgree' BY <1>1, <1>3, <1>11, AgreeEach DEF AgreeAt
  <1> QED BY <1>5, <1>7, <1>10, <1>12 DEF Inductive

\* The provider confirms a deletion, or does not.
LEMMA ProviderDeleteInductive ==
  ASSUME Inductive, NEW c \in Callers, ProviderDelete(c) PROVE Inductive'
  <1>0. PICK f : f = call[c].on OBVIOUS
  <1>1. TypeOK /\ FilesTrue /\ FilesAgree /\ CallTrue(c)
    BY DEF Inductive, BatchesTrue, CallsTrue
  <1>2. call[c] \in Calls /\ store \in [Files -> {"unused", "kept", "deleted"}] /\ files \in SUBSET Files
    BY <1>1 DEF TypeOK
  <1>3. /\ call[c].op = "delete" /\ call[c].pc = "calling" /\ Deleting(c) /\ ~Uploaded(c)
        /\ UNCHANGED <<calls, clock, remote, replies, files, rows, keys, lost, adrift>>
    BY DEF ProviderDelete, At, tables, Deleting, Uploaded
  <1>4. call[c].got = {} /\ f \in Files BY <1>0, <1>1, <1>3 DEF CallTrue, FilesTrue
  <1>5. CASE store[f] = "kept" /\ store' = [store EXCEPT ![f] = "deleted"]
             /\ call' = [call EXCEPT ![c].pc = "answered"]
    <2>1. call' \in [Callers -> Calls] /\ Moves(c, [call[c] EXCEPT !.pc = "answered"])
      BY <1>1, <1>5, PcMoves
    <2>2. /\ call'[c].op = "delete" /\ call'[c].pc = "answered" /\ call'[c].got = {} /\ call'[c].on = f
          /\ \A d \in Callers \ {c} : call'[d] = call[d]
      BY <1>0, <1>2, <1>3, <1>4, <2>1 DEF Moves, Calls
    <2>3. store' \in [Files -> {"unused", "kept", "deleted"}] BY <1>2, <1>5
    <2>4. TypeOK' BY <1>1, <1>3, <2>1, <2>3 DEF TypeOK
    <2>5. BatchesTrue' BY <1>3, <2>2, <2>4, PlainCall, BatchesStay
    <2>6. \A g \in Files : store'[g] = IF g = f THEN "deleted" ELSE store[g] BY <1>2, <1>5
    <2>7. \A d \in Callers : (Deleting(d)' <=> Deleting(d)) /\ (Uploaded(d)' <=> Uploaded(d))
      BY <1>3, <2>2 DEF Deleting, Uploaded
    <2>8. \A d \in Callers : Uploaded(d) => call[d].on # f BY <1>0, <1>1, <1>3 DEF FilesTrue
    <2>9. \A d \in Callers : call'[d].on = call[d].on BY <1>0, <2>2
    <2>10. FilesTrue'
      <3>1. \A g \in files' : store'[g] # "unused" BY <1>1, <1>2, <1>3, <2>6 DEF FilesTrue
      <3>2. ASSUME NEW d \in Callers, Deleting(d)'
            PROVE  /\ call'[d].on \in Files /\ store'[call'[d].on] # "unused"
                   /\ call'[d].pc = "answered" => store'[call'[d].on] = "deleted"
        <4>1. CASE d = c BY <1>4, <2>2, <2>6, <4>1
        <4>2. CASE d # c
          <5>1. Deleting(d) /\ call'[d] = call[d] BY <2>2, <2>7, <3>2, <4>2
          <5> QED BY <1>1, <2>6, <5>1 DEF FilesTrue
        <4> QED BY <4>1, <4>2
      <3>3. ASSUME NEW d \in Callers, Uploaded(d)'
            PROVE  /\ call'[d].on \in Files \ files' /\ store'[call'[d].on] = "kept"
                   /\ \A e \in Callers \ {d} : (Uploaded(e) \/ Deleting(e))' => call'[e].on # call'[d].on
        <4>1. Uploaded(d) BY <2>7, <3>3
        <4>2. /\ call[d].on \in Files \ files /\ store[call[d].on] = "kept" /\ call[d].on # f
              /\ \A e \in Callers \ {d} : Uploaded(e) \/ Deleting(e) => call[e].on # call[d].on
          BY <1>1, <2>8, <4>1 DEF FilesTrue
        <4> QED BY <1>3, <2>6, <2>7, <2>9, <4>2
      <3> QED BY <3>1, <3>2, <3>3 DEF FilesTrue
    <2>11. Dropping(c, f)' BY <1>3, <2>2, <2>7 DEF Dropping
    <2>12. ASSUME NEW g \in Files, NEW d \in Callers, Dropping(d, g) PROVE Dropping(d, g)'
      <3>1. d # c BY <1>3, <2>12 DEF Dropping
      <3> QED BY <2>2, <2>7, <2>12, <3>1 DEF Dropping
    <2>13. FilesAgree' BY <1>1, <1>3, <2>6, <2>11, <2>12, AgreeEach DEF AgreeAt
    <2> QED BY <2>4, <2>5, <2>10, <2>13 DEF Inductive
  <1>6. CASE Raise(c) /\ store' = store
    <2>1. call' \in [Callers -> Calls] /\ Moves(c, NoCall) BY <1>1, <1>6, RaiseMoves
    <2>2. /\ call'[c].op = "none" /\ call'[c].got = {} /\ \A d \in Callers \ {c} : call'[d] = call[d]
      BY <2>1 DEF Moves, NoCall
    <2>3. TypeOK' BY <1>1, <1>3, <1>6, <2>1 DEF TypeOK
    <2>4. BatchesTrue' BY <1>3, <2>2, <2>3, PlainCall, BatchesStay
    <2>5. Dropped(c) = {} BY <1>3 DEF Dropped
    <2>6. FilesTrue' /\ FilesAgree' BY <1>3, <1>6, <2>2, <2>5, FilesStay DEF Uploaded, Deleting
    <2> QED BY <2>3, <2>4, <2>6 DEF Inductive
  <1> QED BY <1>0, <1>5, <1>6 DEF ProviderDelete

\* The row of a file that has been deleted goes.
LEMMA DropRecordInductive == ASSUME Inductive, NEW c \in Callers, DropRecord(c) PROVE Inductive'
  <1> DEFINE f == call[c].on
  <1>1. TypeOK /\ FilesTrue /\ FilesAgree /\ CallTrue(c)
    BY DEF Inductive, BatchesTrue, CallsTrue
  <1>2. call[c] \in Calls /\ files \in SUBSET Files BY <1>1 DEF TypeOK
  <1>3. /\ call[c].op = "delete" /\ call[c].pc = "answered" /\ Deleting(c) /\ ~Uploaded(c)
        /\ UNCHANGED <<calls, clock, remote, replies, store, rows, keys, lost, adrift>>
        /\ files' = files \ {f} /\ Return(c)
    BY DEF DropRecord, At, remotes, Deleting, Uploaded
  <1>4. call[c].got = {} /\ f \in Files /\ store[f] = "deleted" BY <1>1, <1>3 DEF CallTrue, FilesTrue
  <1>5. call' \in [Callers -> Calls] /\ Moves(c, [call[c] EXCEPT !.pc = "returned"])
    BY <1>1, <1>3, PcMoves DEF Return
  <1>6. /\ call'[c].op = "delete" /\ call'[c].pc = "returned" /\ call'[c].got = {}
        /\ \A d \in Callers \ {c} : call'[d] = call[d]
    BY <1>2, <1>3, <1>4, <1>5 DEF Moves, Calls
  <1> HIDE DEF f
  <1>7. TypeOK' BY <1>1, <1>2, <1>3, <1>5 DEF TypeOK
  <1>8. BatchesTrue' BY <1>3, <1>6, <1>7, PlainCall, BatchesStay
  <1>9. \A d \in Callers \ {c} : (Deleting(d)' <=> Deleting(d)) /\ (Uploaded(d)' <=> Uploaded(d))
    BY <1>6 DEF Deleting, Uploaded
  <1>10. ~Deleting(c)' /\ ~Uploaded(c)' BY <1>6 DEF Deleting, Uploaded
  <1>11. FilesTrue'
    <2>1. ASSUME NEW d \in Callers, Uploaded(d)'
          PROVE  /\ call'[d].on \in Files \ files' /\ store'[call'[d].on] = "kept"
                 /\ \A e \in Callers \ {d} : (Uploaded(e) \/ Deleting(e))' => call'[e].on # call'[d].on
      <3>1. d # c /\ Uploaded(d) /\ call'[d] = call[d] BY <1>6, <1>9, <1>10, <2>1
      <3>2. /\ call[d].on \in Files \ files /\ store[call[d].on] = "kept"
            /\ \A e \in Callers \ {d} : Uploaded(e) \/ Deleting(e) => call[e].on # call[d].on
        BY <1>1, <3>1 DEF FilesTrue
      <3> QED BY <1>3, <1>6, <1>9, <1>10, <3>1, <3>2
    <2> QED BY <1>1, <1>3, <1>6, <1>9, <1>10, <2>1 DEF FilesTrue
  <1>12. ASSUME NEW g \in Files \ {f}, NEW d \in Callers, Dropping(d, g) PROVE Dropping(d, g)'
    <2>1. d # c BY <1>12 DEF Dropping, f
    <2> QED BY <2>1, <1>6, <1>9, <1>12 DEF Dropping
  <1>13. FilesAgree' BY <1>1, <1>3, <1>4, <1>12, AgreeEach DEF AgreeAt
  <1> QED BY <1>7, <1>8, <1>11, <1>13 DEF Inductive

-----------------------------------------------------------------------------
(* Calls that are cut short.                                                *)

\* The provider refuses, or its answer is lost after it has acted.
LEMMA CutShortInductive == ASSUME Inductive, NEW c \in Callers, Fail(c) \/ Lose(c) PROVE Inductive'
  <1>1. TypeOK /\ FilesTrue /\ FilesAgree BY DEF Inductive
  <1>2. /\ Raise(c) /\ UNCHANGED <<calls, clock, remote, replies, store, files, rows, keys>>
        /\ lost' \in 0..MaxLost
    BY <1>1 DEF Fail, Lose, remotes, tables, TypeOK
  <1>3. adrift' = adrift \cup Dropped(c) BY DEF Fail, Lose, Dropped
  <1>4. call' \in [Callers -> Calls] /\ Moves(c, NoCall) BY <1>1, <1>2, RaiseMoves
  <1>5. /\ call'[c].op = "none" /\ call'[c].got = {} /\ \A d \in Callers \ {c} : call'[d] = call[d]
    BY <1>4 DEF Moves, NoCall
  <1>6. Dropped(c) \subseteq Files
    BY <1>1 DEF Dropped, FilesTrue, Uploaded, Deleting
  <1>7. TypeOK' BY <1>1, <1>2, <1>3, <1>4, <1>6 DEF TypeOK
  <1>8. BatchesTrue' BY <1>2, <1>5, <1>7, PlainCall, BatchesStay
  <1>9. \A d \in Callers \ {c} : (Deleting(d)' <=> Deleting(d)) /\ (Uploaded(d)' <=> Uploaded(d))
    BY <1>5 DEF Deleting, Uploaded
  <1>10. ~Deleting(c)' /\ ~Uploaded(c)' BY <1>5 DEF Deleting, Uploaded
  <1>11. FilesTrue'
    <2>1. ASSUME NEW d \in Callers, Uploaded(d)'
          PROVE  /\ call'[d].on \in Files \ files' /\ store'[call'[d].on] = "kept"
                 /\ \A e \in Callers \ {d} : (Uploaded(e) \/ Deleting(e))' => call'[e].on # call'[d].on
      <3>1. d # c /\ Uploaded(d) /\ call'[d] = call[d] BY <1>5, <1>9, <1>10, <2>1
      <3>2. /\ call[d].on \in Files \ files /\ store[call[d].on] = "kept"
            /\ \A e \in Callers \ {d} : Uploaded(e) \/ Deleting(e) => call[e].on # call[d].on
        BY <1>1, <3>1 DEF FilesTrue
      <3> QED BY <1>2, <1>5, <1>9, <1>10, <3>1, <3>2
    <2> QED BY <1>1, <1>2, <1>5, <1>9, <1>10, <2>1 DEF FilesTrue
  <1>12. ASSUME NEW g \in Files \ adrift', NEW d \in Callers, Dropping(d, g) PROVE Dropping(d, g)'
    <2>1. d # c BY <1>3, <1>12 DEF Dropping, Uploaded, Deleting, Dropped
    <2> QED BY <2>1, <1>5, <1>9, <1>12 DEF Dropping
  <1>13. FilesAgree' BY <1>1, <1>2, <1>3, <1>12, AgreeEach DEF AgreeAt
  <1> QED BY <1>7, <1>8, <1>11, <1>13 DEF Inductive

\* The process dies with all its calls.
LEMMA CrashInductive == ASSUME Inductive, Crash PROVE Inductive'
  <1>1. TypeOK /\ FilesTrue /\ FilesAgree /\ BatchesTrue BY DEF Inductive
  <1>2. /\ UNCHANGED <<calls, clock, remote, replies, store, files, rows, keys>>
        /\ lost' \in 0..MaxLost /\ call' = [c \in Callers |-> NoCall]
        /\ adrift' = adrift \cup UNION {Dropped(c) : c \in Callers}
    BY <1>1 DEF Crash, remotes, tables, TypeOK
  <1>3. \A c \in Callers : Dropped(c) \subseteq Files
    BY <1>1 DEF Dropped, FilesTrue, Uploaded, Deleting
  <1>4. TypeOK' BY <1>1, <1>2, <1>3, NoCallTypes DEF TypeOK
  <1>5. \A c \in Callers : call'[c].op = "none" /\ call'[c].got = {} BY <1>2 DEF NoCall
  <1>6. CallsTrue' BY <1>5, PlainCall DEF CallsTrue
  <1>7. Forward
    BY <1>1, <1>2, FollowsItself
    DEF TypeOK, Forward, RemoteForward, RowsFollow, RepliesKept, KeysKept, Ended
  <1>8. clock' >= clock BY <1>1, <1>2 DEF TypeOK
  <1>9. BatchesTrue'
    BY <1>1, <1>2, <1>4, <1>6, <1>7, <1>8, ProviderOnward, RowsStay, KeysStay DEF BatchesTrue
  <1>10. \A c \in Callers : ~Uploaded(c)' /\ ~Deleting(c)' BY <1>5 DEF Uploaded, Deleting
  <1>11. FilesTrue' BY <1>1, <1>2, <1>10 DEF FilesTrue
  <1>12. FilesAgree' BY <1>1, <1>2, <1>10 DEF FilesAgree
  <1> QED BY <1>4, <1>9, <1>11, <1>12 DEF Inductive

-----------------------------------------------------------------------------
(* Batches: calls begin.                                                    *)

\* The batches' part, put together again after a step of one call.
LEMMA BatchesMove ==
  ASSUME Inductive, TypeOK', Forward, ProviderTrue', RowsKnown', KeysTrue', NEW c \in Callers,
         \A d \in Callers \ {c} : call'[d] = call[d], CallTrue(c)'
  PROVE  BatchesTrue'
  BY CallsOnward DEF Inductive, BatchesTrue

\* A call that asks about batches has no file.
LEMMA BatchCallHasNoFile ==
  ASSUME NEW c \in Callers
  PROVE  /\ call[c].op \in {"none", "submit", "cancel", "retrieve", "refresh"} => Dropped(c) = {}
         /\ call'[c].op \in {"none", "submit", "cancel", "retrieve", "refresh"}
              => ~(Uploaded(c) \/ Deleting(c))'
  BY DEF Dropped, Uploaded, Deleting

\* retrieve() begins.
LEMMA RetrieveInductive ==
  ASSUME Inductive, NEW c \in Callers, NEW b \in Batches, Retrieve(c, b) PROVE Inductive'
  <1>1. TypeOK BY DEF Inductive
  <1>2. call' \in [Callers -> Calls] /\ Began(c, "retrieve", NoKey, b)
    BY <1>1, AskMoves DEF Retrieve, Ons
  <1>3. UNCHANGED <<clock, remote, replies, store, files, rows, keys, lost, adrift>> /\ b \in Created
    BY DEF Retrieve, remotes, tables
  <1>4. calls' \in 0..MaxCalls BY <1>1 DEF Retrieve, Begin, TypeOK
  <1>5. TypeOK' BY <1>1, <1>2, <1>3, <1>4 DEF TypeOK
  <1>6. /\ call'[c].op = "retrieve" /\ call'[c].got = {} /\ call'[c].on = b
        /\ \A d \in Callers \ {c} : call'[d] = call[d]
    BY <1>2 DEF Began
  <1>7. CallTrue(c)' BY <1>3, <1>6 DEF CallTrue, Created
  <1>8. BatchesTrue' BY <1>3, <1>5, <1>6, <1>7, BatchesStay
  <1>9. Dropped(c) = {} BY IdleDropsNothing DEF Retrieve, Begin
  <1>10. FilesTrue' /\ FilesAgree' BY <1>3, <1>6, <1>9, FilesStay, BatchCallHasNoFile
  <1> QED BY <1>5, <1>8, <1>10 DEF Inductive

\* refresh() begins, and has seen no page.
LEMMA RefreshInductive == ASSUME Inductive, NEW c \in Callers, Refresh(c) PROVE Inductive'
  <1>1. TypeOK BY DEF Inductive
  <1> DEFINE r == [NoCall EXCEPT !.op = "refresh", !.pc = "calling", !.prior = Created]
  <1>2. NoCall \in Calls /\ NoCall.got = {} /\ NoCall.cursor = MaxBatches + 1 BY NoCallTypes DEF NoCall
  <1>3. Created \in SUBSET Batches BY DEF Created
  <1>4. r \in Calls BY <1>2, <1>3 DEF Calls
  <1>5. /\ r.op = "refresh" /\ r.pc = "calling" /\ r.prior = Created /\ r.got = {}
        /\ r.cursor = MaxBatches + 1
    BY <1>2 DEF Calls
  <1>6. call' = [call EXCEPT ![c] = r] BY DEF Refresh
  <1>7. UNCHANGED <<clock, remote, replies, store, files, rows, keys, lost, adrift>>
    BY DEF Refresh, remotes, tables
  <1> HIDE DEF r
  <1>8. call' \in [Callers -> Calls] /\ Moves(c, r) BY <1>1, <1>4, <1>6, CallMoves
  <1>9. calls' \in 0..MaxCalls BY <1>1 DEF Refresh, Begin, TypeOK
  <1>10. TypeOK' BY <1>1, <1>7, <1>8, <1>9 DEF TypeOK
  <1>11. /\ call'[c].op = "refresh" /\ call'[c].pc = "calling" /\ call'[c].prior = Created
         /\ call'[c].got = {} /\ call'[c].cursor = MaxBatches + 1
         /\ \A d \in Callers \ {c} : call'[d] = call[d]
    BY <1>5, <1>8 DEF Moves
  <1>12. Created' = Created BY <1>7 DEF Created
  <1>13. \A b \in Created : ~(b >= MaxBatches + 1) BY DEF Created, Batches
  <1>14. CallTrue(c)' BY <1>11, <1>12, <1>13 DEF CallTrue, Refreshing
  <1>15. BatchesTrue' BY <1>7, <1>10, <1>11, <1>14, BatchesStay
  <1>16. Dropped(c) = {} BY IdleDropsNothing DEF Refresh, Begin
  <1>17. FilesTrue' /\ FilesAgree' BY <1>7, <1>11, <1>16, FilesStay, BatchCallHasNoFile
  <1> QED BY <1>10, <1>15, <1>17 DEF Inductive

\* _reserve() holds the key for the request, and completes none.
LEMMA ReserveKeeps ==
  ASSUME TypeOK, NEW k \in Keys, NEW on \in Ons, Reserve(k, on)
  PROVE  /\ keys' \in [Keys -> Held] /\ KeysKept
         /\ keys'[k].state # "free" /\ keys'[k].request = on
         /\ \A q \in Keys : keys'[q].state = "completed" => keys[q].state = "completed"
  <1>1. keys \in [Keys -> Held] BY DEF TypeOK
  <1>2. CASE keys[k].state = "free"
             /\ keys' = [keys EXCEPT ![k] = [state |-> "pending", request |-> on, response |-> NoSnap]]
    <2>1. [state |-> "pending", request |-> on, response |-> NoSnap] \in Held BY DEF Held
    <2> QED BY <1>1, <1>2, <2>1 DEF KeysKept
  <1>3. CASE Reserved(k, on) /\ keys' = keys BY <1>1, <1>3 DEF Reserved, KeysKept
  <1> QED BY <1>2, <1>3 DEF Reserve

\* What stays when a key is reserved.
LEMMA ReserveForward ==
  ASSUME Inductive, TypeOK', UNCHANGED <<clock, remote, replies, rows>>, KeysKept,
         \A q \in Keys : keys'[q].state = "completed" => keys[q].state = "completed"
  PROVE  Forward /\ ProviderTrue' /\ RowsKnown' /\ KeysTrue'
  <1>1. TypeOK /\ BatchesTrue BY DEF Inductive
  <1>2. Forward
    BY <1>1, FollowsItself DEF TypeOK, Forward, RemoteForward, RowsFollow, RepliesKept, Ended
  <1>3. clock' >= clock BY <1>1 DEF TypeOK
  <1> QED BY <1>1, <1>2, <1>3, ProviderOnward, RowsStay, KeysStay DEF BatchesTrue

\* submit() begins, with its key.
LEMMA SubmitInductive ==
  ASSUME Inductive, NEW c \in Callers, NEW k \in CreateKeys, NEW f \in Files, Submit(c, k, f)
  PROVE  Inductive'
  <1>1. TypeOK /\ k \in Keys /\ f \in Ons BY DEF Inductive, Keys, Ons
  <1>2. call' \in [Callers -> Calls] /\ Began(c, "submit", k, f) BY <1>1, AskMoves DEF Submit
  <1>3. UNCHANGED <<clock, remote, replies, store, files, rows, lost, adrift>> /\ Reserve(k, f)
    BY DEF Submit, remotes
  <1>4. calls' \in 0..MaxCalls BY <1>1 DEF Submit, Begin, TypeOK
  <1>5. /\ keys' \in [Keys -> Held] /\ KeysKept /\ keys'[k].state # "free" /\ keys'[k].request = f
        /\ \A q \in Keys : keys'[q].state = "completed" => keys[q].state = "completed"
    BY <1>1, <1>3, ReserveKeeps
  <1>6. TypeOK' BY <1>1, <1>2, <1>3, <1>4, <1>5 DEF TypeOK
  <1>7. Forward /\ ProviderTrue' /\ RowsKnown' /\ KeysTrue' BY <1>3, <1>5, <1>6, ReserveForward
  <1>8. /\ call'[c].op = "submit" /\ call'[c].pc = "calling" /\ call'[c].got = {} /\ call'[c].on = f
        /\ call'[c].key = k /\ \A d \in Callers \ {c} : call'[d] = call[d]
    BY <1>2 DEF Began
  <1>9. Keyed(c)' BY <1>1, <1>5, <1>8 DEF Keyed
  <1>10. CallTrue(c)' BY <1>8, <1>9 DEF CallTrue
  <1>11. BatchesTrue' BY <1>6, <1>7, <1>8, <1>10, BatchesMove
  <1>12. Dropped(c) = {} BY IdleDropsNothing DEF Submit, Begin
  <1>13. FilesTrue' /\ FilesAgree' BY <1>3, <1>8, <1>12, FilesStay, BatchCallHasNoFile
  <1> QED BY <1>6, <1>11, <1>13 DEF Inductive

\* A row that is over is of a batch that is over.
LEMMA OverEnded ==
  ASSUME Inductive, NEW b \in Listed, Over(b)
  PROVE  rows[b] \in Snapshots /\ rows[b].id = b /\ Known(rows[b]) /\ Ended(b)
  <1>1. b \in Batches /\ rows[b] # NoSnap BY DEF Listed
  <1>2. rows[b] \in Snapshots /\ rows[b].id = b /\ Known(rows[b])
    BY <1>1 DEF Inductive, TypeOK, BatchesTrue, RowsKnown
  <1> QED BY <1>2 DEF Known, Follows, Over, Ended

\* cancel() begins, with its key; of a batch that is over the row is the answer.
LEMMA CancelInductive ==
  ASSUME Inductive, NEW c \in Callers, NEW k \in CancelKeys, NEW b \in Batches, Cancel(c, k, b)
  PROVE  Inductive'
  <1>1. TypeOK /\ k \in Keys /\ k \notin CreateKeys /\ b \in Ons BY DEF Inductive, Keys, Ons
  <1>2. /\ UNCHANGED <<clock, remote, replies, store, files, rows, lost, adrift>> /\ Reserve(k, b)
        /\ b \in Listed
    BY DEF Cancel, remotes
  <1>3. calls' \in 0..MaxCalls BY <1>1 DEF Cancel, Begin, TypeOK
  <1>4. /\ keys' \in [Keys -> Held] /\ KeysKept /\ keys'[k].state # "free" /\ keys'[k].request = b
        /\ \A q \in Keys : keys'[q].state = "completed" => keys[q].state = "completed"
    BY <1>1, <1>2, ReserveKeeps
  <1>5. rows[b] \in Snapshots /\ rows[b].id = b /\ Known(rows[b]) /\ b \in Created
    BY <1>2 DEF Inductive, TypeOK, BatchesTrue, RowsKnown, Listed, Created, Known
  <1>6. b \in Created' BY <1>2, <1>5 DEF Created
  <1>7. Dropped(c) = {} BY IdleDropsNothing DEF Cancel, Begin
  <1>8. CASE Over(b)
    <2> DEFINE r == [NoCall EXCEPT !.op = "cancel", !.pc = "answered", !.key = k, !.on = b,
                                   !.got = {rows[b]}]
    <2>1. r \in Calls BY <1>1, <1>5, NoCallTypes DEF Calls
    <2>2. r.op = "cancel" /\ r.pc = "answered" /\ r.key = k /\ r.on = b /\ r.got = {rows[b]}
      BY NoCallTypes DEF Calls
    <2>3. call' = [call EXCEPT ![c] = r] BY <1>8 DEF Cancel
    <2> HIDE DEF r
    <2>4. call' \in [Callers -> Calls] /\ Moves(c, r) BY <1>1, <2>1, <2>3, CallMoves
    <2>5. /\ call'[c].op = "cancel" /\ call'[c].pc = "answered" /\ call'[c].key = k
          /\ call'[c].on = b /\ call'[c].got = {rows[b]} /\ \A d \in Callers \ {c} : call'[d] = call[d]
      BY <2>2, <2>4 DEF Moves
    <2>6. TypeOK' BY <1>1, <1>2, <1>3, <1>4, <2>4 DEF TypeOK
    <2>7. Forward /\ ProviderTrue' /\ RowsKnown' /\ KeysTrue' BY <1>2, <1>4, <2>6, ReserveForward
    <2>8. PICK s \in Snapshots : s = rows[b] BY <1>5
    <2>9. Known(s) /\ s.id = b /\ Ended(b) BY <1>2, <1>5, <1>8, <2>8, OverEnded
    <2>10. Known(s)' /\ Answers(k, b, s)' BY <1>1, <1>2, <2>9 DEF Known, Answers, Ended
    <2>11. Keyed(c)' BY <1>1, <1>4, <1>6, <2>5, <2>8, <2>10 DEF Keyed
    <2>12. CallTrue(c)' BY <2>5, <2>8, <2>10, <2>11 DEF CallTrue
    <2>13. BatchesTrue' BY <2>5, <2>6, <2>7, <2>12, BatchesMove
    <2>14. FilesTrue' /\ FilesAgree' BY <1>2, <1>7, <2>5, FilesStay, BatchCallHasNoFile
    <2> QED BY <2>6, <2>13, <2>14 DEF Inductive
  <1>9. CASE ~Over(b)
    <2>1. call' \in [Callers -> Calls] /\ Began(c, "cancel", k, b) BY <1>1, <1>9, AskMoves DEF Cancel
    <2>2. /\ call'[c].op = "cancel" /\ call'[c].pc = "calling" /\ call'[c].got = {} /\ call'[c].on = b
          /\ call'[c].key = k /\ \A d \in Callers \ {c} : call'[d] = call[d]
      BY <2>1 DEF Began
    <2>3. TypeOK' BY <1>1, <1>2, <1>3, <1>4, <2>1 DEF TypeOK
    <2>4. Forward /\ ProviderTrue' /\ RowsKnown' /\ KeysTrue' BY <1>2, <1>4, <2>3, ReserveForward
    <2>5. Keyed(c)' BY <1>1, <1>4, <1>6, <2>2 DEF Keyed
    <2>6. CallTrue(c)' BY <2>2, <2>5 DEF CallTrue
    <2>7. BatchesTrue' BY <2>2, <2>3, <2>4, <2>6, BatchesMove
    <2>8. FilesTrue' /\ FilesAgree' BY <1>2, <1>7, <2>2, FilesStay, BatchCallHasNoFile
    <2> QED BY <2>3, <2>7, <2>8 DEF Inductive
  <1> QED BY <1>8, <1>9

\* A completed key is answered from its row.
LEMMA ReplayInductive ==
  ASSUME Inductive, NEW c \in Callers, NEW op \in {"submit", "cancel"}, NEW k \in Keys, NEW on \in Ons,
         op = "submit" => k \in CreateKeys /\ on \in Files,
         op = "cancel" => k \in CancelKeys, Replay(c, op, k, on)
  PROVE  Inductive'
  <1>1. TypeOK BY DEF Inductive
  <1>2. /\ UNCHANGED <<clock, remote, replies, store, files, rows, keys, lost, adrift>>
        /\ keys[k].state = "completed" /\ keys[k].request = on
    BY DEF Replay, Reserved, remotes, tables
  <1>3. calls' \in 0..MaxCalls BY <1>1 DEF Replay, Begin, TypeOK
  <1>4. KeyTrue(k) BY <1>2 DEF Inductive, BatchesTrue, KeysTrue
  <1>5. PICK s \in Snapshots : s = keys[k].response /\ Known(s) /\ Answers(k, on, s)
    BY <1>2, <1>4 DEF KeyTrue
  <1> DEFINE r == [NoCall EXCEPT !.op = op, !.pc = "returned", !.key = k, !.on = on, !.got = {s}]
  <1>6. r \in Calls BY NoCallTypes DEF Calls
  <1>7. r.op = op /\ r.pc = "returned" /\ r.key = k /\ r.on = on /\ r.got = {s}
    BY NoCallTypes DEF Calls
  <1>8. call' = [call EXCEPT ![c] = r] BY <1>5 DEF Replay, ReturnRow
  <1> HIDE DEF r
  <1>9. call' \in [Callers -> Calls] /\ Moves(c, r) BY <1>1, <1>6, <1>8, CallMoves
  <1>10. /\ call'[c].op = op /\ call'[c].pc = "returned" /\ call'[c].key = k
         /\ call'[c].on = on /\ call'[c].got = {s} /\ \A d \in Callers \ {c} : call'[d] = call[d]
    BY <1>7, <1>9 DEF Moves
  <1>11. TypeOK' BY <1>1, <1>2, <1>3, <1>9 DEF TypeOK
  <1>12. Known(s)' /\ Answers(k, on, s)' BY <1>2, <1>5 DEF Known, Answers, Ended
  <1>13. op = "cancel" => on \in Created' BY <1>2, <1>5 DEF Answers, Ended, Created, Keys, Snapshots
  <1>14. Keyed(c)' BY <1>2, <1>10, <1>12, <1>13 DEF Keyed
  <1>15. CallTrue(c)' BY <1>10, <1>12, <1>14 DEF CallTrue
  <1>16. BatchesTrue' BY <1>2, <1>10, <1>11, <1>15, BatchesStay
  <1>17. Dropped(c) = {} BY IdleDropsNothing DEF Replay, Begin
  <1>18. FilesTrue' /\ FilesAgree' BY <1>2, <1>10, <1>17, FilesStay, BatchCallHasNoFile
  <1> QED BY <1>11, <1>16, <1>18 DEF Inductive

-----------------------------------------------------------------------------
(* Batches: the provider.                                                   *)

\* What the provider has answered to a key stays true.
LEMMA ReplyOnward ==
  ASSUME TypeOK, TypeOK', Forward, ProviderTrue, NEW q \in Keys, replies[q] # NoSnap
  PROVE  (Known(replies[q]) /\ (q \in CancelKeys => Ended(replies[q].id)))'
  <1>1. PICK s \in Snapshots : s = replies[q] BY DEF TypeOK
  <1>2. s = replies'[q] BY <1>1 DEF Forward, RepliesKept
  <1>3. Known(s) /\ (q \in CancelKeys => Ended(s.id)) BY <1>1 DEF ProviderTrue
  <1>4. Known(s)' BY <1>3, KnownOnward
  <1>5. Ended(s.id) => Ended(s.id)' BY DEF Forward, RemoteForward, Ended, Snapshots
  <1> QED BY <1>2, <1>3, <1>4, <1>5

\* A call with a key is answered with s.
LEMMA AnsweredInductive ==
  ASSUME Inductive, NEW c \in Callers, NEW s \in Snapshots, Answer(c, s),
         call[c].op \in {"submit", "cancel"}, call[c].pc = "calling",
         UNCHANGED <<calls, clock, store, files, rows, keys, lost, adrift>>,
         remote' \in [Batches -> Snapshots \cup {NoSnap}],
         replies' \in [Keys -> Snapshots \cup {NoSnap}],
         RemoteForward, RepliesKept, ProviderTrue',
         NEW k \in Keys, NEW on \in Ons, k = call[c].key, on = call[c].on,
         Known(s)', Answers(k, on, s)'
  PROVE  Inductive'
  <1>1. TypeOK /\ BatchesTrue /\ CallTrue(c) /\ call[c] \in Calls
    BY DEF Inductive, BatchesTrue, CallsTrue, TypeOK
  <1>2. call' \in [Callers -> Calls] /\ Moves(c, [call[c] EXCEPT !.pc = "answered", !.got = {s}])
    BY <1>1, AnswerMoves
  <1>3. TypeOK' BY <1>1, <1>2 DEF TypeOK
  <1>4. /\ call'[c].op = call[c].op /\ call'[c].pc = "answered" /\ call'[c].key = call[c].key
        /\ call'[c].on = call[c].on /\ call'[c].got = {s} /\ \A d \in Callers \ {c} : call'[d] = call[d]
    BY <1>1, <1>2 DEF Moves, Calls
  <1>5. Forward BY <1>1, FollowsItself DEF Forward, RowsFollow, KeysKept, TypeOK
  <1>6. RowsKnown' /\ KeysTrue' BY <1>1, <1>3, <1>5, RowsStay, KeysStay DEF BatchesTrue
  <1>7. Keyed(c) BY <1>1 DEF CallTrue
  <1>8. call[c].on \in Created => call[c].on \in Created' BY <1>5, SetsOnward
  <1>9. Keyed(c)' BY <1>4, <1>7, <1>8 DEF Keyed
  <1>10. CallTrue(c)' BY <1>4, <1>9 DEF CallTrue
  <1>11. BatchesTrue' BY <1>3, <1>4, <1>5, <1>6, <1>10, BatchesMove
  <1>12. FilesTrue' /\ FilesAgree' BY <1>4, FilesStay, BatchCallHasNoFile
  <1> QED BY <1>3, <1>11, <1>12 DEF Inductive

\* The provider makes a batch, or answers a known key again.
LEMMA ProviderSubmitInductive ==
  ASSUME Inductive, NEW c \in Callers, ProviderSubmit(c) PROVE Inductive'
  <1>1. TypeOK /\ ProviderTrue /\ CallTrue(c) /\ call[c] \in Calls
    BY DEF Inductive, BatchesTrue, CallsTrue, TypeOK
  <1>2. /\ call[c].op = "submit" /\ call[c].pc = "calling"
        /\ UNCHANGED <<calls, clock, store, files, rows, keys, lost, adrift>>
    BY DEF ProviderSubmit, At, tables
  <1>3. PICK k \in CreateKeys, f \in Files : k = call[c].key /\ f = call[c].on
    BY <1>1, <1>2 DEF CallTrue, Keyed
  <1>4. k \in Keys /\ k \notin CancelKeys /\ f \in Ons BY DEF Keys, Ons
  <1>5. CASE /\ replies[k] # NoSnap /\ replies[k].file = f
             /\ Answer(c, replies[k]) /\ UNCHANGED <<remote, replies>>
    <2>1. PICK s \in Snapshots : s = replies[k] BY <1>1, <1>4, <1>5 DEF TypeOK
    <2>2. Known(s) BY <1>1, <1>4, <1>5, <2>1 DEF ProviderTrue
    <2>3. Known(s)' /\ Answers(k, f, s)' BY <1>5, <2>1, <2>2 DEF Known, Answers
    <2>4. RemoteForward /\ RepliesKept
      BY <1>1, <1>5, FollowsItself DEF TypeOK, RemoteForward, RepliesKept, Ended
    <2>5. ProviderTrue' BY <1>1, <1>2, <1>5 DEF ProviderTrue, Known, Ended
    <2>6. remote' \in [Batches -> Snapshots \cup {NoSnap}] /\ replies' \in [Keys -> Snapshots \cup {NoSnap}]
      BY <1>1, <1>5 DEF TypeOK
    <2>7. Answer(c, s) BY <1>5, <2>1
    <2> QED BY <1>2, <1>3, <1>4, <2>3, <2>4, <2>5, <2>6, <2>7, AnsweredInductive
  <1>6. CASE ~(/\ replies[k] # NoSnap /\ replies[k].file = f
               /\ Answer(c, replies[k]) /\ UNCHANGED <<remote, life, replies>>)
    <2> DEFINE n == CHOOSE b \in Batches \ Created : \A x \in Batches \ Created : b <= x
    <2>1. Created # Batches /\ replies[k] = NoSnap BY <1>3, <1>6 DEF ProviderSubmit
    <2>2. n \in Batches \ Created BY <1>1, <2>1, NextBatch
    <2>3. PICK b \in Batches \ Created : b = n BY <2>2
    <2> DEFINE r == [id |-> b, file |-> f, status |-> "validating", done |-> 0, at |-> clock]
    <2>4. r \in Snapshots BY <1>1, <2>3 DEF Snapshots, Statuses, TypeOK
    <2>5. /\ remote' = [remote EXCEPT ![b] = r] /\ replies' = [replies EXCEPT ![k] = r] /\ Answer(c, r)
      BY <1>3, <1>6, <2>3 DEF ProviderSubmit, Becomes
    <2>6. PICK s \in Snapshots : s = r BY <2>4
    <2>7. s.id = b /\ s.file = f /\ s.at = clock BY <2>6
    <2> HIDE DEF r, n
    <2>8. remote[b] = NoSnap BY <2>3 DEF Created
    <2>9. /\ remote' \in [Batches -> Snapshots \cup {NoSnap}]
          /\ replies' \in [Keys -> Snapshots \cup {NoSnap}]
          /\ \A x \in Batches : remote'[x] = IF x = b THEN s ELSE remote[x]
          /\ \A q \in Keys : replies'[q] = IF q = k THEN s ELSE replies[q]
      BY <1>1, <1>4, <2>3, <2>5, <2>6 DEF TypeOK
    <2>10. RemoteForward /\ RepliesKept
      BY <1>1, <2>1, <2>8, <2>9, FollowsItself DEF TypeOK, RemoteForward, RepliesKept, Ended
    <2>11. s # NoSnap OBVIOUS
    <2>12. Known(s)' BY <2>7, <2>9, <2>11, FollowsItself DEF Known
    <2>13. Answers(k, f, s)' BY <1>4, <2>7, <2>9, <2>11 DEF Answers
    <2>14. call' \in [Callers -> Calls] BY <1>1, <2>5, <2>6, AnswerMoves
    <2>15. TypeOK' BY <1>1, <1>2, <2>9, <2>14 DEF TypeOK
    <2>16. Forward
      BY <1>1, <1>2, <2>10, FollowsItself DEF Forward, RowsFollow, KeysKept, TypeOK
    <2>17. ProviderTrue'
      <3>1. ASSUME NEW x \in Batches, remote'[x] # NoSnap PROVE remote'[x].id = x /\ remote'[x].at <= clock'
        BY <1>1, <1>2, <2>7, <2>9, <3>1 DEF ProviderTrue, TypeOK
      <3>2. ASSUME NEW q \in Keys, replies'[q] # NoSnap
            PROVE  (Known(replies[q]) /\ (q \in CancelKeys => Ended(replies[q].id)))'
        <4>1. CASE q = k BY <1>4, <2>9, <2>12, <4>1
        <4>2. CASE q # k BY <1>1, <2>9, <2>15, <2>16, <3>2, <4>2, ReplyOnward
        <4> QED BY <4>1, <4>2
      <3> QED BY <3>1, <3>2 DEF ProviderTrue
    <2>18. Answer(c, s) BY <2>5, <2>6
    <2> QED BY <1>2, <1>3, <1>4, <2>9, <2>10, <2>12, <2>13, <2>17, <2>18, AnsweredInductive
  <1> QED BY <1>5, <1>6

\* The provider takes a cancellation, or answers a known key again.
LEMMA ProviderCancelInductive ==
  ASSUME Inductive, NEW c \in Callers, ProviderCancel(c) PROVE Inductive'
  <1>1. TypeOK /\ ProviderTrue /\ CallTrue(c) /\ call[c] \in Calls
    BY DEF Inductive, BatchesTrue, CallsTrue, TypeOK
  <1>2. /\ call[c].op = "cancel" /\ call[c].pc = "calling"
        /\ UNCHANGED <<calls, clock, store, files, rows, keys, lost, adrift>>
    BY DEF ProviderCancel, At, tables
  <1>3. PICK k \in CancelKeys, b \in Created : k = call[c].key /\ b = call[c].on
    BY <1>1, <1>2 DEF CallTrue, Keyed
  <1>4. k \in Keys /\ k \notin CreateKeys /\ b \in Batches /\ b \in Ons /\ remote[b] # NoSnap
    BY DEF Keys, Ons, Created
  <1>5. CASE /\ replies[k] # NoSnap /\ replies[k].id = b
             /\ Answer(c, replies[k]) /\ UNCHANGED <<remote, replies>>
    <2>1. PICK s \in Snapshots : s = replies[k] BY <1>1, <1>4, <1>5 DEF TypeOK
    <2>2. Known(s) /\ Ended(s.id) BY <1>1, <1>4, <1>5, <2>1 DEF ProviderTrue
    <2>3. Known(s)' /\ Answers(k, b, s)' BY <1>4, <1>5, <2>1, <2>2 DEF Known, Answers, Ended
    <2>4. RemoteForward /\ RepliesKept
      BY <1>1, <1>5, FollowsItself DEF TypeOK, RemoteForward, RepliesKept, Ended
    <2>5. ProviderTrue' BY <1>1, <1>2, <1>5 DEF ProviderTrue, Known, Ended
    <2>6. remote' \in [Batches -> Snapshots \cup {NoSnap}] /\ replies' \in [Keys -> Snapshots \cup {NoSnap}]
      BY <1>1, <1>5 DEF TypeOK
    <2>7. Answer(c, s) BY <1>5, <2>1
    <2> QED BY <1>2, <1>3, <1>4, <2>3, <2>4, <2>5, <2>6, <2>7, AnsweredInductive
  <1>6. CASE ~(/\ replies[k] # NoSnap /\ replies[k].id = b
               /\ Answer(c, replies[k]) /\ UNCHANGED <<remote, life, replies>>)
    <2> DEFINE r == [remote[b] EXCEPT !.status = "cancelling", !.at = clock]
    <2>1. /\ remote' = [remote EXCEPT ![b] = r] /\ replies' = [replies EXCEPT ![k] = r] /\ Answer(c, r)
          /\ replies[k] = NoSnap /\ remote[b].status \notin Terminal
      <3>1. r.id = b BY <1>1, <1>4 DEF TypeOK, ProviderTrue, Snapshots
      <3> QED BY <1>3, <1>6, <3>1 DEF ProviderCancel, Becomes
    <2>2. remote[b] \in Snapshots /\ remote[b].id = b /\ remote[b].at <= clock
      BY <1>1, <1>4 DEF TypeOK, ProviderTrue
    <2>3. r \in Snapshots BY <1>1, <2>2 DEF Snapshots, Statuses, TypeOK
    <2>4. PICK s \in Snapshots : s = r BY <2>3
    <2>5. /\ s.id = b /\ s.file = remote[b].file /\ s.at = clock /\ s.done = remote[b].done
          /\ s.status = "cancelling"
      BY <2>2, <2>4 DEF Snapshots
    <2> HIDE DEF r
    <2>6. /\ remote' \in [Batches -> Snapshots \cup {NoSnap}]
          /\ replies' \in [Keys -> Snapshots \cup {NoSnap}]
          /\ \A x \in Batches : remote'[x] = IF x = b THEN s ELSE remote[x]
          /\ \A q \in Keys : replies'[q] = IF q = k THEN s ELSE replies[q]
      BY <1>1, <1>4, <2>1, <2>4 DEF TypeOK
    <2>7. s # NoSnap OBVIOUS
    <2>8. Follows(s, remote[b]) BY <2>1, <2>2, <2>5 DEF Follows, Snapshots
    <2>9. RemoteForward
      <3>1. ASSUME NEW x \in Batches, remote[x] # NoSnap
            PROVE  /\ remote'[x] # NoSnap /\ remote'[x].file = remote[x].file
                   /\ Follows(remote'[x], remote[x]) /\ (Ended(x) => Ended(x)')
        <4>1. CASE x = b BY <2>5, <2>6, <2>7, <2>8, <4>1 DEF Ended
        <4>2. CASE x # b BY <1>1, <2>6, <3>1, <4>2, FollowsItself DEF Ended, TypeOK
        <4> QED BY <4>1, <4>2
      <3> QED BY <3>1 DEF RemoteForward
    <2>10. RepliesKept BY <2>1, <2>6 DEF RepliesKept
    <2>11. Known(s)' BY <1>4, <2>5, <2>6, <2>7, FollowsItself DEF Known
    <2>12. Ended(b)' BY <1>4, <2>5, <2>6, <2>7 DEF Ended
    <2>13. Answers(k, b, s)' BY <1>4, <2>5, <2>12 DEF Answers
    <2>14. call' \in [Callers -> Calls] BY <1>1, <2>1, <2>4, AnswerMoves
    <2>15. TypeOK' BY <1>1, <1>2, <2>6, <2>14 DEF TypeOK
    <2>16. Forward
      BY <1>1, <1>2, <2>9, <2>10, FollowsItself DEF Forward, RowsFollow, KeysKept, TypeOK
    <2>17. ProviderTrue'
      <3>1. ASSUME NEW x \in Batches, remote'[x] # NoSnap PROVE remote'[x].id = x /\ remote'[x].at <= clock'
        BY <1>1, <1>2, <2>5, <2>6, <3>1 DEF ProviderTrue, TypeOK
      <3>2. ASSUME NEW q \in Keys, replies'[q] # NoSnap
            PROVE  (Known(replies[q]) /\ (q \in CancelKeys => Ended(replies[q].id)))'
        <4>1. CASE q = k BY <1>4, <2>5, <2>6, <2>11, <2>12, <4>1
        <4>2. CASE q # k BY <1>1, <2>6, <2>15, <2>16, <3>2, <4>2, ReplyOnward
        <4> QED BY <4>1, <4>2
      <3> QED BY <3>1, <3>2 DEF ProviderTrue
    <2>18. Answer(c, s) BY <2>1, <2>4
    <2> QED BY <1>2, <1>3, <1>4, <2>6, <2>9, <2>10, <2>11, <2>13, <2>17, <2>18, AnsweredInductive
  <1> QED BY <1>5, <1>6

-----------------------------------------------------------------------------
(* Batches: the answers are written.                                        *)

\* A write of records that rows admit moves each row on, to one of them or not at all.
LEMMA WrittenOnward ==
  ASSUME TypeOK, NEW S \in SUBSET Snapshots, Written(S), \A s \in S : Writable(s)
  PROVE  /\ rows' \in [Batches -> Snapshots \cup {NoSnap}] /\ RowsFollow
         /\ \A b \in Batches : rows'[b] = rows[b] \/ (rows'[b] \in S /\ rows'[b].id = b)
         /\ \A s \in S : rows'[s.id] \in S /\ rows'[s.id].id = s.id
  <1>1. rows \in [Batches -> Snapshots \cup {NoSnap}] BY DEF TypeOK
  <1>2. ASSUME NEW b \in Batches, \E s \in S : s.id = b
        PROVE  rows'[b] \in S /\ rows'[b].id = b
    <2>1. rows'[b] = CHOOSE s \in S : s.id = b BY <1>2 DEF Written
    <2> QED BY <1>2, <2>1
  <1>3. ASSUME NEW b \in Batches, ~ \E s \in S : s.id = b PROVE rows'[b] = rows[b]
    BY <1>3 DEF Written
  <1>4. \A s \in S : s.id \in Batches BY DEF Snapshots
  <1>5. rows' \in [Batches -> Snapshots \cup {NoSnap}] BY <1>1, <1>2, <1>3 DEF Written
  <1>6. ASSUME NEW b \in Batches, rows[b] # NoSnap
        PROVE  rows'[b] # NoSnap /\ Follows(rows'[b], rows[b])
    <2>1. CASE \E s \in S : s.id = b
      <3>1. PICK s \in S : s = rows'[b] /\ s.id = b BY <1>2, <2>1
      <3>2. Writable(s) OBVIOUS
      <3>3. Follows(s, rows[b]) BY <1>6, <3>1, <3>2 DEF Writable, Follows
      <3> QED BY <3>1, <3>3
    <2>2. CASE ~ \E s \in S : s.id = b
      <3>1. rows[b] \in Snapshots BY <1>1, <1>6
      <3> QED BY <1>3, <1>6, <2>2, <3>1, FollowsItself
    <2> QED BY <2>1, <2>2
  <1>7. ASSUME NEW s \in S PROVE rows'[s.id] \in S /\ rows'[s.id].id = s.id
    BY <1>2, <1>4, <1>7
  <1>8. ASSUME NEW b \in Batches PROVE rows'[b] = rows[b] \/ (rows'[b] \in S /\ rows'[b].id = b)
    <2>1. CASE \E s \in S : s.id = b BY <1>2, <2>1
    <2>2. CASE ~ \E s \in S : s.id = b BY <1>3, <2>2
    <2> QED BY <2>1, <2>2
  <1>9. RowsFollow BY <1>6 DEF RowsFollow
  <1> QED BY <1>5, <1>7, <1>8, <1>9

\* Rows written with records that the provider has had are such records.
LEMMA RowsWritten ==
  ASSUME Inductive, UNCHANGED remote, NEW S \in SUBSET Snapshots, \A s \in S : Known(s),
         TypeOK', \A b \in Batches : rows'[b] = rows[b] \/ (rows'[b] \in S /\ rows'[b].id = b)
  PROVE  RowsKnown'
  <1>1. TypeOK /\ RowsKnown BY DEF Inductive, BatchesTrue
  <1>2. ASSUME NEW b \in Batches, rows'[b] # NoSnap PROVE rows'[b].id = b /\ Known(rows[b])'
    <2>1. PICK s \in Snapshots : s = rows'[b] BY <1>2 DEF TypeOK
    <2>2. Known(s) /\ s.id = b BY <1>1, <1>2, <2>1 DEF RowsKnown
    <2>3. Known(s)' BY <2>2 DEF Known
    <2> QED BY <2>1, <2>2, <2>3 DEF Known
  <1> QED BY <1>2 DEF RowsKnown

\* _complete() writes the row and the response, finds the key completed, or refuses.
LEMMA CompleteInductive == ASSUME Inductive, NEW c \in Callers, Complete(c) PROVE Inductive'
  <1>1. TypeOK /\ BatchesTrue /\ CallTrue(c) /\ call[c] \in Calls
    BY DEF Inductive, BatchesTrue, CallsTrue, TypeOK
  <1>2. /\ call[c].op \in {"submit", "cancel"} /\ call[c].pc = "answered"
        /\ UNCHANGED <<calls, clock, remote, replies, store, files, lost, adrift>>
    BY DEF Complete, CompleteWith, remotes
  <1>3. Keyed(c) BY <1>1, <1>2 DEF CallTrue
  <1>4. PICK k \in Keys, on \in Ons : k = call[c].key /\ on = call[c].on
    BY <1>1, <1>2, <1>3 DEF Keyed, Keys, Calls
  <1>5. PICK s \in Snapshots : call[c].got = {s} /\ Answers(k, on, s)
    BY <1>2, <1>3, <1>4 DEF Keyed
  <1>6. Got(c) = s /\ Known(s) BY <1>1, <1>5 DEF Got, CallTrue
  <1>7. Answers(k, on, s)' /\ Known(s)' BY <1>2, <1>5, <1>6 DEF Answers, Ended, Known
  <1>8. Dropped(c) = {} BY <1>2, BatchCallHasNoFile
  <1>9. \/ keys[k].state = "completed" /\ Return(c) /\ UNCHANGED <<rows, keys>>
        \/ Raise(c) /\ UNCHANGED <<rows, keys>>
        \/ /\ keys[k].state = "pending" /\ Writable(s) /\ Written({s})
           /\ keys' = [keys EXCEPT ![k].state = "completed", ![k].response = s] /\ Return(c)
    BY <1>4, <1>6 DEF Complete, CompleteWith
  <1>10. CASE Raise(c) /\ UNCHANGED <<rows, keys>>
    <2>1. call' \in [Callers -> Calls] /\ Moves(c, NoCall) BY <1>1, <1>10, RaiseMoves
    <2>2. /\ call'[c].op = "none" /\ call'[c].got = {} /\ \A d \in Callers \ {c} : call'[d] = call[d]
      BY <2>1 DEF Moves, NoCall
    <2>3. TypeOK' BY <1>1, <1>2, <1>10, <2>1 DEF TypeOK
    <2>4. BatchesTrue' BY <1>2, <1>10, <2>2, <2>3, PlainCall, BatchesStay
    <2>5. FilesTrue' /\ FilesAgree' BY <1>2, <1>8, <2>2, FilesStay, BatchCallHasNoFile
    <2> QED BY <2>3, <2>4, <2>5 DEF Inductive
  <1>11. ASSUME Return(c), keys' \in [Keys -> Held], KeysKept PROVE
           /\ call' \in [Callers -> Calls] /\ CallTrue(c)' /\ FilesTrue' /\ FilesAgree'
           /\ \A d \in Callers \ {c} : call'[d] = call[d]
    <2>1. call' \in [Callers -> Calls] /\ Moves(c, [call[c] EXCEPT !.pc = "returned"])
      BY <1>1, <1>11, PcMoves DEF Return
    <2>2. /\ call'[c].op = call[c].op /\ call'[c].pc = "returned" /\ call'[c].key = k
          /\ call'[c].on = on /\ call'[c].got = {s} /\ \A d \in Callers \ {c} : call'[d] = call[d]
      BY <1>1, <1>4, <1>5, <2>1 DEF Moves, Calls
    <2>3. Created' = Created BY <1>2 DEF Created
    <2>4. keys'[k].state # "free" /\ keys'[k].request = on BY <1>3, <1>4, <1>11 DEF Keyed, KeysKept
    <2>5. Keyed(c)' BY <1>3, <1>4, <1>7, <2>2, <2>3, <2>4 DEF Keyed
    <2>6. CallTrue(c)' BY <1>2, <1>7, <2>2, <2>5 DEF CallTrue
    <2>7. FilesTrue' /\ FilesAgree' BY <1>2, <1>8, <2>2, FilesStay, BatchCallHasNoFile
    <2> QED BY <2>1, <2>2, <2>6, <2>7
  <1>12. CASE Return(c) /\ UNCHANGED <<rows, keys>>
    <2>1. keys' \in [Keys -> Held] /\ KeysKept BY <1>1, <1>12 DEF TypeOK, KeysKept
    <2>2. TypeOK' BY <1>1, <1>2, <1>11, <1>12, <2>1 DEF TypeOK
    <2>3. BatchesTrue' BY <1>2, <1>11, <1>12, <2>1, <2>2, BatchesStay
    <2> QED BY <1>11, <1>12, <2>1, <2>2, <2>3 DEF Inductive
  <1>13. CASE /\ keys[k].state = "pending" /\ Writable(s) /\ Written({s})
              /\ keys' = [keys EXCEPT ![k].state = "completed", ![k].response = s] /\ Return(c)
    <2>1. /\ rows' \in [Batches -> Snapshots \cup {NoSnap}] /\ RowsFollow
          /\ \A b \in Batches : rows'[b] = rows[b] \/ (rows'[b] \in {s} /\ rows'[b].id = b)
          /\ rows'[s.id] = s
      BY <1>1, <1>13, WrittenOnward
    <2>2. /\ keys' \in [Keys -> Held] /\ KeysKept
          /\ keys'[k].response = s /\ keys'[k].request = on
          /\ \A q \in Keys \ {k} : keys'[q] = keys[q]
      <3>1. keys \in [Keys -> Held] /\ keys[k].request = on BY <1>1, <1>3, <1>4 DEF TypeOK, Keyed
      <3>2. keys[k] \in Held BY <3>1
      <3>3. [keys[k] EXCEPT !.state = "completed", !.response = s] \in Held BY <3>2 DEF Held
      <3>4. keys' = [keys EXCEPT ![k] = [keys[k] EXCEPT !.state = "completed", !.response = s]]
        BY <1>13, <3>1
      <3>5. keys'[k] = [keys[k] EXCEPT !.state = "completed", !.response = s] BY <3>1, <3>4
      <3>6. keys'[k].response = s /\ keys'[k].request = on /\ keys'[k].state = "completed"
        BY <3>1, <3>2, <3>5 DEF Held
      <3>7. keys' \in [Keys -> Held] /\ \A q \in Keys \ {k} : keys'[q] = keys[q] BY <3>1, <3>3, <3>4
      <3> QED BY <1>13, <3>1, <3>6, <3>7 DEF KeysKept
    <2>3. TypeOK' BY <1>1, <1>2, <1>11, <1>13, <2>1, <2>2 DEF TypeOK
    <2>4. Forward
      BY <1>1, <1>2, <2>1, <2>2, FollowsItself DEF TypeOK, Forward, RemoteForward, RepliesKept, Ended
    <2>5. RowsKnown' BY <1>2, <1>6, <2>1, <2>3, RowsWritten
    <2>6. ASSUME NEW q \in Keys, keys'[q].state = "completed" PROVE KeyTrue(q)'
      <3>1. CASE q = k BY <1>7, <2>1, <2>2, <3>1, FollowsItself DEF KeyTrue
      <3>2. CASE q # k BY <1>1, <2>2, <2>3, <2>4, <2>6, <3>2, KeyOnward DEF BatchesTrue
      <3> QED BY <3>1, <3>2
    <2>7. KeysTrue' BY <2>6 DEF KeysTrue
    <2>8. clock' >= clock BY <1>1, <1>2 DEF TypeOK
    <2>9. ProviderTrue' BY <1>1, <1>2, <2>3, <2>8, ProviderOnward DEF BatchesTrue
    <2>10. BatchesTrue' BY <1>11, <1>13, <2>2, <2>3, <2>4, <2>5, <2>7, <2>9, BatchesMove
    <2> QED BY <1>11, <1>13, <2>2, <2>3, <2>10 DEF Inductive
  <1> QED BY <1>9, <1>10, <1>12, <1>13

\* retrieve() is given the batch's present record.
LEMMA ProviderGetInductive == ASSUME Inductive, NEW c \in Callers, ProviderGet(c) PROVE Inductive'
  <1>1. TypeOK /\ ProviderTrue /\ CallTrue(c) /\ call[c] \in Calls
    BY DEF Inductive, BatchesTrue, CallsTrue, TypeOK
  <1>2. /\ call[c].op = "retrieve" /\ call[c].pc = "calling"
        /\ UNCHANGED <<calls, clock, remote, replies, store, files, rows, keys, lost, adrift>>
    BY DEF ProviderGet, At, tables, remotes
  <1>3. PICK b \in Batches : b = call[c].on /\ remote[b] # NoSnap
    BY <1>1, <1>2 DEF CallTrue, Created
  <1>4. PICK s \in Snapshots : s = remote[b] BY <1>1, <1>3 DEF TypeOK
  <1>5. s.id = b BY <1>1, <1>3, <1>4 DEF ProviderTrue
  <1>6. Known(s)' BY <1>2, <1>3, <1>4, <1>5, FollowsItself DEF Known
  <1>7. Answer(c, s) BY <1>3, <1>4 DEF ProviderGet
  <1>8. call' \in [Callers -> Calls] /\ Moves(c, [call[c] EXCEPT !.pc = "answered", !.got = {s}])
    BY <1>1, <1>7, AnswerMoves
  <1>9. TypeOK' BY <1>1, <1>2, <1>8 DEF TypeOK
  <1>10. /\ call'[c].op = "retrieve" /\ call'[c].on = b /\ call'[c].got = {s}
         /\ \A d \in Callers \ {c} : call'[d] = call[d]
    BY <1>1, <1>2, <1>3, <1>8 DEF Moves, Calls
  <1>11. b \in Created' BY <1>2, <1>3 DEF Created
  <1>12. CallTrue(c)' BY <1>6, <1>10, <1>11 DEF CallTrue
  <1>13. BatchesTrue' BY <1>2, <1>9, <1>10, <1>12, BatchesStay
  <1>14. FilesTrue' /\ FilesAgree' BY <1>2, <1>10, FilesStay, BatchCallHasNoFile
  <1> QED BY <1>9, <1>13, <1>14 DEF Inductive

\* refresh() is given a page.
LEMMA ProviderListInductive == ASSUME Inductive, NEW c \in Callers, ProviderList(c) PROVE Inductive'
  <1>1. TypeOK /\ ProviderTrue /\ CallTrue(c) /\ call[c] \in Calls
    BY DEF Inductive, BatchesTrue, CallsTrue, TypeOK
  <1>2. /\ call[c].op = "refresh" /\ call[c].pc = "calling"
        /\ UNCHANGED <<calls, clock, remote, replies, store, files, rows, keys, lost, adrift>>
    BY DEF ProviderList, At, tables, remotes
  <1>3. Refreshing(c) BY <1>1, <1>2 DEF CallTrue
  <1>4. Created' = Created /\ Dropped(c) = {} BY <1>2, BatchCallHasNoFile DEF Created
  <1>5. \A s \in call[c].got : Known(s)' BY <1>1, <1>2 DEF CallTrue, Known
  <1>6. PICK n \in 1..(MaxBatches + 1), G \in SUBSET Snapshots : n = call[c].cursor /\ G = call[c].got
    BY <1>1 DEF Calls
  <1>7. /\ \A b \in call[c].prior : b >= n => \E s \in G : s.id = b
        /\ call[c].prior \in SUBSET Created
    BY <1>2, <1>3, <1>6 DEF Refreshing
  <1>8. Created \in SUBSET Batches /\ (\A b \in Created : b \in Int) /\ n \in Int
    BY DEF Created, Batches
  <1>9. CASE Older(n) = {}
    <2>1. call' \in [Callers -> Calls] /\ Moves(c, [call[c] EXCEPT !.pc = "answered"])
      BY <1>1, <1>6, <1>9, PcMoves DEF ProviderList
    <2>2. /\ call'[c].op = "refresh" /\ call'[c].pc = "answered" /\ call'[c].got = G
          /\ call'[c].prior = call[c].prior /\ \A d \in Callers \ {c} : call'[d] = call[d]
      BY <1>1, <1>2, <1>6, <2>1 DEF Moves, Calls
    <2>3. TypeOK' BY <1>1, <1>2, <2>1 DEF TypeOK
    <2>4. \A b \in Created : b >= n BY <1>8, <1>9 DEF Older
    <2>5. Refreshing(c)' BY <1>4, <1>7, <2>2, <2>4 DEF Refreshing
    <2>6. CallTrue(c)' BY <1>5, <1>6, <2>2, <2>5 DEF CallTrue
    <2>7. BatchesTrue' BY <1>2, <2>2, <2>3, <2>6, BatchesStay
    <2>8. FilesTrue' /\ FilesAgree' BY <1>2, <1>4, <2>2, FilesStay, BatchCallHasNoFile
    <2> QED BY <2>3, <2>7, <2>8 DEF Inductive
  <1>10. CASE Older(n) # {}
    <2>1. Older(n) \in SUBSET Batches BY <1>8 DEF Older
    <2>2. Newest(Older(n)) \in Older(n) /\ \A x \in Older(n) : x <= Newest(Older(n))
      BY <1>10, <2>1, NewestOf
    <2>3. PICK b \in Older(n) : b = Newest(Older(n)) /\ \A x \in Older(n) : x <= b BY <2>2
    <2>4. b \in Created /\ b \in Batches /\ b < n BY <1>8 DEF Older
    <2>5. PICK s \in Snapshots : s = remote[b] BY <1>1, <2>4 DEF TypeOK, Created
    <2>6. s.id = b BY <1>1, <2>4, <2>5 DEF ProviderTrue, Created
    <2>7. Known(s)' BY <1>2, <2>4, <2>5, <2>6, FollowsItself DEF Known, Created
    <2>8. PICK pc \in {"answered", "calling"} :
            pc = IF Older(b) = {} THEN "answered" ELSE "calling"
      OBVIOUS
    <2> DEFINE r == [call[c] EXCEPT !.got = G \cup {s}, !.cursor = b, !.pc = pc]
    <2>9. call' = [call EXCEPT ![c].got = G \cup {s}, ![c].cursor = b, ![c].pc = pc]
      BY <1>6, <1>10, <2>3, <2>5, <2>8 DEF ProviderList, Gathered
    <2>10. call' = [call EXCEPT ![c] = r] BY <1>1, <2>9 DEF TypeOK
    <2>11. b \in 1..(MaxBatches + 1) BY <2>4 DEF Batches
    <2>12. r \in Calls BY <1>1, <1>6, <2>11 DEF Calls
    <2>13. /\ r.op = "refresh" /\ r.pc = pc /\ r.got = G \cup {s} /\ r.cursor = b
           /\ r.prior = call[c].prior
      BY <1>1, <1>2 DEF Calls
    <2> HIDE DEF r
    <2>14. call' \in [Callers -> Calls] /\ Moves(c, r) BY <1>1, <2>10, <2>12, CallMoves
    <2>15. /\ call'[c].op = "refresh" /\ call'[c].pc = pc /\ call'[c].got = G \cup {s}
           /\ call'[c].cursor = b /\ call'[c].prior = call[c].prior
           /\ \A d \in Callers \ {c} : call'[d] = call[d]
      BY <2>13, <2>14 DEF Moves
    <2>16. TypeOK' BY <1>1, <1>2, <2>14 DEF TypeOK
    <2>17. ASSUME NEW x \in call[c].prior, x >= b PROVE \E t \in G \cup {s} : t.id = x
      <3>1. CASE x >= n BY <1>7, <3>1
      <3>2. CASE x < n
        <4>1. x \in Older(n) BY <1>7, <3>2 DEF Older
        <4>2. x = b
          <5>1. x <= b BY <2>3, <4>1
          <5>2. x \in Int /\ b \in Int BY <1>7, <1>8, <2>4
          <5> QED BY <2>17, <5>1, <5>2
        <4> QED BY <2>6, <4>2
      <3> QED BY <1>7, <1>8, <3>1, <3>2
    <2>18. pc = "answered" => \A x \in call[c].prior : x >= b
      BY <1>7, <1>8, <2>4, <2>8 DEF Older
    <2>19. Refreshing(c)' BY <1>4, <1>7, <2>8, <2>15, <2>17, <2>18 DEF Refreshing
    <2>20. CallTrue(c)' BY <1>5, <1>6, <2>7, <2>15, <2>19 DEF CallTrue
    <2>21. BatchesTrue' BY <1>2, <2>15, <2>16, <2>20, BatchesStay
    <2>22. FilesTrue' /\ FilesAgree' BY <1>2, <1>4, <2>15, FilesStay, BatchCallHasNoFile
    <2> QED BY <2>16, <2>21, <2>22 DEF Inductive
  <1> QED BY <1>9, <1>10

\* retrieve() and refresh() write all that they got, or nothing.
LEMMA StoreInductive == ASSUME Inductive, NEW c \in Callers, Store(c) PROVE Inductive'
  <1>1. TypeOK /\ BatchesTrue /\ CallTrue(c) /\ call[c] \in Calls
    BY DEF Inductive, BatchesTrue, CallsTrue, TypeOK
  <1>2. /\ call[c].op \in {"retrieve", "refresh"} /\ call[c].pc = "answered"
        /\ UNCHANGED <<calls, clock, remote, replies, store, files, keys, lost, adrift>>
    BY DEF Store, remotes
  <1>3. PICK S \in SUBSET Snapshots : S = call[c].got BY <1>1 DEF Calls
  <1>4. \A s \in S : Known(s) BY <1>1, <1>3 DEF CallTrue
  <1>5. \A s \in S : Known(s)' BY <1>2, <1>4 DEF Known
  <1>6. Dropped(c) = {} /\ Created' = Created BY <1>2, BatchCallHasNoFile DEF Created
  <1>7. CASE Raise(c) /\ UNCHANGED rows
    <2>1. call' \in [Callers -> Calls] /\ Moves(c, NoCall) BY <1>1, <1>7, RaiseMoves
    <2>2. /\ call'[c].op = "none" /\ call'[c].got = {} /\ \A d \in Callers \ {c} : call'[d] = call[d]
      BY <2>1 DEF Moves, NoCall
    <2>3. TypeOK' BY <1>1, <1>2, <1>7, <2>1 DEF TypeOK
    <2>4. BatchesTrue' BY <1>2, <1>7, <2>2, <2>3, PlainCall, BatchesStay
    <2>5. FilesTrue' /\ FilesAgree' BY <1>2, <1>6, <2>2, FilesStay, BatchCallHasNoFile
    <2> QED BY <2>3, <2>4, <2>5 DEF Inductive
  <1>8. CASE (\A s \in S : Writable(s)) /\ Written(S) /\ Return(c)
    <2>1. /\ rows' \in [Batches -> Snapshots \cup {NoSnap}] /\ RowsFollow
          /\ \A b \in Batches : rows'[b] = rows[b] \/ (rows'[b] \in S /\ rows'[b].id = b)
          /\ \A s \in S : rows'[s.id] \in S /\ rows'[s.id].id = s.id
      BY <1>1, <1>8, WrittenOnward
    <2>2. call' \in [Callers -> Calls] /\ Moves(c, [call[c] EXCEPT !.pc = "returned"])
      BY <1>1, <1>8, PcMoves DEF Return
    <2>3. /\ call'[c].op = call[c].op /\ call'[c].pc = "returned" /\ call'[c].got = S
          /\ call'[c].on = call[c].on /\ call'[c].prior = call[c].prior
          /\ \A d \in Callers \ {c} : call'[d] = call[d]
      BY <1>1, <1>3, <2>2 DEF Moves, Calls
    <2>4. TypeOK' BY <1>1, <1>2, <2>1, <2>2 DEF TypeOK
    <2>5. Forward
      BY <1>1, <1>2, <2>1, FollowsItself
      DEF TypeOK, Forward, RemoteForward, RepliesKept, KeysKept, Ended
    <2>6. RowsKnown' BY <1>2, <1>4, <2>1, <2>4, RowsWritten
    <2>7. KeysTrue' BY <1>1, <1>2, <2>4, <2>5, KeysStay DEF BatchesTrue
    <2>8. clock' >= clock BY <1>1, <1>2 DEF TypeOK
    <2>9. ProviderTrue' BY <1>1, <1>2, <2>4, <2>8, ProviderOnward DEF BatchesTrue
    <2>10. ASSUME call[c].op = "refresh" PROVE Refreshing(c)'
      <3>1. Refreshing(c) BY <1>1, <2>10 DEF CallTrue
      <3>2. ASSUME NEW b \in call[c].prior PROVE b \in Listed'
        <4>1. PICK s \in S : s.id = b BY <1>2, <1>3, <3>1, <3>2 DEF Refreshing
        <4>2. rows'[b] \in S /\ b \in Batches BY <2>1, <4>1 DEF Snapshots
        <4> QED BY <4>2 DEF Listed
      <3> QED BY <1>6, <2>3, <3>1, <3>2 DEF Refreshing
    <2>11. call[c].op = "retrieve" => call[c].on \in Created' BY <1>1, <1>6 DEF CallTrue
    <2>12. CallTrue(c)' BY <1>2, <1>5, <2>3, <2>10, <2>11 DEF CallTrue
    <2>13. BatchesTrue' BY <2>3, <2>4, <2>5, <2>6, <2>7, <2>9, <2>12, BatchesMove
    <2>14. FilesTrue' /\ FilesAgree' BY <1>2, <1>6, <2>3, FilesStay, BatchCallHasNoFile
    <2> QED BY <2>4, <2>13, <2>14 DEF Inductive
  <1> QED BY <1>3, <1>7, <1>8 DEF Store

\* The clock moves on.
LEMMA TickInductive == ASSUME Inductive, Tick PROVE Inductive'
  <1>1. TypeOK /\ BatchesTrue /\ FilesTrue /\ FilesAgree BY DEF Inductive
  <1>2. /\ UNCHANGED <<calls, remote, replies, store, files, rows, keys, call, lost, adrift>>
        /\ clock' \in 0..MaxClock /\ clock' >= clock
    BY <1>1 DEF Tick, tables, TypeOK
  <1>3. TypeOK' BY <1>1, <1>2 DEF TypeOK
  <1>4. Forward
    BY <1>1, <1>2, FollowsItself
    DEF TypeOK, Forward, RemoteForward, RowsFollow, RepliesKept, KeysKept, Ended
  <1>5. CallsTrue' BY <1>1, <1>2, <1>3, <1>4, CallOnward DEF BatchesTrue, CallsTrue
  <1>6. BatchesTrue'
    BY <1>1, <1>2, <1>3, <1>4, <1>5, ProviderOnward, RowsStay, KeysStay DEF BatchesTrue
  <1>7. FilesTrue' /\ FilesAgree'
    BY <1>1, <1>2 DEF FilesTrue, FilesAgree, Uploaded, Deleting, Dropped
  <1> QED BY <1>3, <1>6, <1>7 DEF Inductive

\* The provider works on a batch.
LEMMA AdvanceInductive == ASSUME Inductive, NEW b \in Batches, Advance(b) PROVE Inductive'
  <1>1. TypeOK /\ BatchesTrue /\ FilesTrue /\ FilesAgree BY DEF Inductive
  <1>2. /\ UNCHANGED <<calls, clock, replies, store, files, rows, keys, call, lost, adrift>>
        /\ remote[b] # NoSnap /\ remote[b] \in Snapshots /\ remote[b].id = b /\ remote[b].at <= clock
        /\ clock \in 0..MaxClock
    BY <1>1 DEF Advance, Created, tables, TypeOK, BatchesTrue, ProviderTrue
  <1>3. PICK s \in Snapshots :
          /\ remote' = [remote EXCEPT ![b] = s]
          /\ s.id = b /\ s.file = remote[b].file /\ s.at <= clock /\ Follows(s, remote[b])
          /\ remote[b].status \in Terminal \cup {"cancelling"} => s.status \in Terminal \cup {"cancelling"}
    <2>1. ASSUME NEW t \in After(remote[b].status),
                 Becomes([remote[b] EXCEPT !.status = t, !.at = clock])
          PROVE  \E s \in Snapshots :
                   /\ remote' = [remote EXCEPT ![b] = s]
                   /\ s.id = b /\ s.file = remote[b].file /\ s.at <= clock /\ Follows(s, remote[b])
                   /\ remote[b].status \in Terminal \cup {"cancelling"}
                        => s.status \in Terminal \cup {"cancelling"}
      <3> DEFINE s == [remote[b] EXCEPT !.status = t, !.at = clock]
      <3>1. remote' = [remote EXCEPT ![b] = s] BY <1>2, <2>1 DEF Becomes, Snapshots
      <3>2. t \in Statuses /\ remote[b].status \notin Terminal /\ remote[b].status \in Statuses
            /\ (remote[b].status = "cancelling" => t \in Terminal)
        BY <1>2 DEF After, Statuses, Terminal, Snapshots
      <3>3. s \in Snapshots BY <1>2, <3>2 DEF Snapshots
      <3>4. s.id = b /\ s.file = remote[b].file /\ s.at = clock /\ s.done = remote[b].done /\ s.status = t
        BY <1>2 DEF Snapshots
      <3> HIDE DEF s
      <3>5. Follows(s, remote[b]) BY <1>2, <3>2, <3>4 DEF Follows, Snapshots
      <3>6. s.at <= clock BY <1>2, <3>4
      <3>7. remote[b].status \in Terminal \cup {"cancelling"} => s.status \in Terminal \cup {"cancelling"}
        BY <3>2, <3>4
      <3> QED BY <3>1, <3>3, <3>4, <3>5, <3>6, <3>7
    <2>2. ASSUME remote[b].status = "in_progress", remote[b].done < MaxDone,
                 Becomes([remote[b] EXCEPT !.done = @ + 1])
          PROVE  \E s \in Snapshots :
                   /\ remote' = [remote EXCEPT ![b] = s]
                   /\ s.id = b /\ s.file = remote[b].file /\ s.at <= clock /\ Follows(s, remote[b])
                   /\ remote[b].status \in Terminal \cup {"cancelling"}
                        => s.status \in Terminal \cup {"cancelling"}
      <3> DEFINE s == [remote[b] EXCEPT !.done = remote[b].done + 1]
      <3>1. remote' = [remote EXCEPT ![b] = s] BY <1>2, <2>2 DEF Becomes, Snapshots
      <3>2. remote[b].done + 1 \in 0..MaxDone BY <1>2, <2>2 DEF Snapshots
      <3>3. s \in Snapshots BY <1>2, <3>2 DEF Snapshots
      <3>4. s.id = b /\ s.file = remote[b].file /\ s.at = remote[b].at /\ s.done = remote[b].done + 1
            /\ s.status = remote[b].status
        BY <1>2 DEF Snapshots
      <3> HIDE DEF s
      <3>5. Follows(s, remote[b]) BY <1>2, <3>4 DEF Follows, Snapshots
      <3> QED BY <1>2, <3>1, <3>3, <3>4, <3>5
    <2> QED BY <2>1, <2>2 DEF Advance
  <1>4. /\ remote' \in [Batches -> Snapshots \cup {NoSnap}]
        /\ \A x \in Batches : remote'[x] = IF x = b THEN s ELSE remote[x]
    BY <1>1, <1>3 DEF TypeOK
  <1>5. TypeOK' BY <1>1, <1>2, <1>4 DEF TypeOK
  <1>6. ASSUME NEW x \in Batches, remote[x] # NoSnap
        PROVE  /\ remote'[x] # NoSnap /\ remote'[x].file = remote[x].file
               /\ Follows(remote'[x], remote[x]) /\ (Ended(x) => Ended(x)')
    <2>1. CASE x = b BY <1>3, <1>4, <2>1 DEF Ended
    <2>2. CASE x # b BY <1>1, <1>4, <1>6, <2>2, FollowsItself DEF Ended, TypeOK
    <2> QED BY <2>1, <2>2
  <1>7. RowsFollow /\ RepliesKept /\ KeysKept
    BY <1>1, <1>2, FollowsItself DEF TypeOK, RowsFollow, RepliesKept, KeysKept
  <1>8. Forward BY <1>6, <1>7 DEF Forward, RemoteForward
  <1>9. ASSUME NEW x \in Batches, remote'[x] # NoSnap PROVE remote'[x].id = x /\ remote'[x].at <= clock'
    BY <1>1, <1>2, <1>3, <1>4, <1>9 DEF BatchesTrue, ProviderTrue
  <1>10. ASSUME NEW q \in Keys, replies'[q] # NoSnap
         PROVE  (Known(replies[q]) /\ (q \in CancelKeys => Ended(replies[q].id)))'
    BY <1>1, <1>2, <1>5, <1>8, <1>10, ReplyOnward DEF BatchesTrue
  <1>11. ProviderTrue' BY <1>9, <1>10 DEF ProviderTrue
  <1>12. CallsTrue' BY <1>1, <1>2, <1>5, <1>8, CallOnward DEF BatchesTrue, CallsTrue
  <1>13. BatchesTrue' BY <1>1, <1>2, <1>5, <1>8, <1>11, <1>12, RowsStay, KeysStay DEF BatchesTrue
  <1>14. FilesTrue' /\ FilesAgree'
    BY <1>1, <1>2 DEF FilesTrue, FilesAgree, Uploaded, Deleting, Dropped
  <1> QED BY <1>5, <1>13, <1>14 DEF Inductive

-----------------------------------------------------------------------------
(* The theorems.                                                            *)

LEMMA InitInductive == ASSUME Init PROVE Inductive
  <1>1. NoSnap \in Snapshots \cup {NoSnap} /\ Free \in Held /\ NoCall \in Calls
    BY NoCallTypes DEF Free, Held, Ons
  <1>2. TypeOK BY <1>1 DEF Init, TypeOK
  <1>3. ProviderTrue /\ RowsKnown BY DEF Init, ProviderTrue, RowsKnown
  <1>4. KeysTrue BY DEF Init, KeysTrue, Free
  <1>5. \A c \in Callers : call[c].op = "none" /\ call[c].got = {} BY DEF Init, NoCall
  <1>6. CallsTrue BY <1>5 DEF CallsTrue, CallTrue
  <1>7. FilesTrue /\ FilesAgree BY <1>5 DEF Init, FilesTrue, FilesAgree, Uploaded, Deleting, Dropped
  <1> QED BY <1>2, <1>3, <1>4, <1>6, <1>7 DEF Inductive, BatchesTrue

LEMMA StutterInductive == ASSUME Inductive, UNCHANGED vars PROVE Inductive'
  <1>1. TypeOK /\ BatchesTrue /\ FilesTrue /\ FilesAgree BY DEF Inductive
  <1>2. UNCHANGED <<clock, remote, replies, store, files, rows, keys, call, calls, lost, adrift>>
    BY DEF vars
  <1>3. TypeOK' BY <1>1, <1>2 DEF TypeOK
  <1>4. Forward
    BY <1>1, <1>2, FollowsItself
    DEF TypeOK, Forward, RemoteForward, RowsFollow, RepliesKept, KeysKept, Ended
  <1>5. CallsTrue' BY <1>1, <1>2, <1>3, <1>4, CallOnward DEF BatchesTrue, CallsTrue
  <1>6. clock' >= clock BY <1>1, <1>2 DEF TypeOK
  <1>7. BatchesTrue'
    BY <1>1, <1>2, <1>3, <1>4, <1>5, <1>6, ProviderOnward, RowsStay, KeysStay DEF BatchesTrue
  <1>8. FilesTrue' /\ FilesAgree'
    BY <1>1, <1>2 DEF FilesTrue, FilesAgree, Uploaded, Deleting, Dropped
  <1> QED BY <1>3, <1>7, <1>8 DEF Inductive

LEMMA StepInductive == ASSUME Inductive, [Next]_vars PROVE Inductive'
  <1>1. CASE UNCHANGED vars BY <1>1, StutterInductive
  <1>2. CASE Crash \/ Tick BY <1>2, CrashInductive, TickInductive
  <1>3. ASSUME NEW b \in Batches, Advance(b) PROVE Inductive' BY <1>3, AdvanceInductive
  <1>4. ASSUME NEW c \in Callers,
               Upload(c) \/ PutRecord(c) \/ ProviderDelete(c) \/ DropRecord(c) \/ Fail(c) \/ Lose(c)
        PROVE  Inductive'
    BY <1>4, UploadInductive, UploadedInductive, ProviderDeleteInductive, DropRecordInductive,
       CutShortInductive
  <1>5. ASSUME NEW c \in Callers, NEW f \in Files, ProviderUpload(c, f) \/ Delete(c, f) PROVE Inductive'
    BY <1>5, UploadedInductive, DeleteInductive
  <1>6. ASSUME NEW c \in Callers, NEW k \in CreateKeys, NEW f \in Files,
               Submit(c, k, f) \/ Replay(c, "submit", k, f)
        PROVE  Inductive'
    <2>1. k \in Keys /\ f \in Ons BY DEF Keys, Ons
    <2> QED BY <1>6, <2>1, SubmitInductive, ReplayInductive
  <1>7. ASSUME NEW c \in Callers, NEW k \in CancelKeys, NEW b \in Batches,
               Cancel(c, k, b) \/ Replay(c, "cancel", k, b)
        PROVE  Inductive'
    <2>1. k \in Keys /\ b \in Ons BY DEF Keys, Ons
    <2> QED BY <1>7, <2>1, CancelInductive, ReplayInductive
  <1>8. ASSUME NEW c \in Callers,
               \/ ProviderSubmit(c) \/ ProviderCancel(c) \/ Complete(c)
               \/ ProviderGet(c) \/ Refresh(c) \/ ProviderList(c) \/ Store(c)
        PROVE  Inductive'
    BY <1>8, ProviderSubmitInductive, ProviderCancelInductive, CompleteInductive,
       ProviderGetInductive, RefreshInductive, ProviderListInductive, StoreInductive
  <1>9. ASSUME NEW c \in Callers, NEW b \in Batches, Retrieve(c, b) PROVE Inductive'
    BY <1>9, RetrieveInductive
  <1> QED BY <1>1, <1>2, <1>3, <1>4, <1>5, <1>6, <1>7, <1>8, <1>9 DEF Next

\* The inductive invariant holds throughout, whatever calls are made, however their steps
\* and the provider's mix, and wherever they fail, lose their answer or die with the process.
THEOREM ControlInvariant == Spec => []Inductive
  BY InitInductive, StepInductive, PTL DEF Spec

\* submit() and cancel() return the batch of their own key and request, whether they asked
\* the provider, came second or were answered from the table; and no key of batch.cancel is
\* completed before the provider has been told.
THEOREM AnswersAreOwn == Spec => []AnswersMatch
  <1>1. ASSUME Inductive PROVE AnswersMatch
    <2>1. TypeOK /\ KeysTrue /\ CallsTrue BY <1>1 DEF Inductive, BatchesTrue
    <2>2. ASSUME NEW c \in Callers, call[c].pc = "returned", call[c].op \in {"submit", "cancel"}
          PROVE  /\ call[c].op = "submit" =>
                      Got(c).file = call[c].on /\ Got(c).id = replies[call[c].key].id
                 /\ call[c].op = "cancel" => Got(c).id = call[c].on
      <3>1. Keyed(c) BY <2>1, <2>2 DEF CallsTrue, CallTrue
      <3>2. PICK s \in Snapshots : call[c].got = {s} /\ Answers(call[c].key, call[c].on, s)
        BY <2>2, <3>1 DEF Keyed
      <3>3. Got(c) = s BY <3>2 DEF Got
      <3> QED BY <3>1, <3>2, <3>3 DEF Keyed, Answers
    <2>3. ASSUME NEW k \in CancelKeys, keys[k].state = "completed"
          PROVE  remote[keys[k].request].status \in Terminal \cup {"cancelling"}
      <3>1. k \in Keys /\ k \notin CreateKeys BY DEF Keys
      <3> QED BY <2>1, <2>3, <3>1 DEF KeysTrue, KeyTrue, Answers, Ended
    <2> QED BY <2>2, <2>3 DEF AnswersMatch
  <1> QED BY <1>1, ControlInvariant, PTL

\* Rows are written with records that a call has got, and while the provider is not heard.
RowsFrom ==
  \/ UNCHANGED rows
  \/ /\ UNCHANGED life
     /\ \A b \in Batches : \/ rows'[b] = rows[b]
                           \/ \E c \in Callers : \E s \in call[c].got : s.id = b /\ rows'[b] = s

\* A step writes rows only where _upsert_batch admits the record, or leaves them alone.
LEMMA StepRows == ASSUME Inductive, [Next]_vars PROVE RowsFollow /\ RowsFrom
  <1>1. TypeOK /\ CallsTrue BY DEF Inductive, BatchesTrue
  <1>2. ASSUME UNCHANGED rows PROVE RowsFollow /\ RowsFrom
    BY <1>1, <1>2, FollowsItself DEF TypeOK, RowsFollow, RowsFrom
  <1>3. ASSUME NEW c \in Callers, Complete(c) PROVE RowsFollow /\ RowsFrom
    <2>1. CASE UNCHANGED rows BY <1>2, <2>1
    <2>2. CASE ~UNCHANGED rows
      <3>1. /\ Writable(Got(c)) /\ Written({Got(c)}) /\ UNCHANGED life
            /\ call[c].op \in {"submit", "cancel"} /\ call[c].pc = "answered"
        BY <1>3, <2>2 DEF Complete, CompleteWith, remotes
      <3>2. PICK s \in Snapshots : call[c].got = {s} BY <1>1, <3>1 DEF CallsTrue, CallTrue, Keyed
      <3>3. Got(c) = s BY <3>2 DEF Got
      <3>4. RowsFollow /\ \A b \in Batches : rows'[b] = rows[b] \/ (rows'[b] \in {s} /\ rows'[b].id = b)
        BY <1>1, <3>1, <3>3, WrittenOnward
      <3>5. RowsFrom BY <3>1, <3>2, <3>4 DEF RowsFrom
      <3> QED BY <3>4, <3>5
    <2> QED BY <2>1, <2>2
  <1>4. ASSUME NEW c \in Callers, Store(c) PROVE RowsFollow /\ RowsFrom
    <2>1. CASE UNCHANGED rows BY <1>2, <2>1
    <2>2. CASE ~UNCHANGED rows
      <3>1. (\A s \in call[c].got : Writable(s)) /\ Written(call[c].got) /\ UNCHANGED life
        BY <1>4, <2>2 DEF Store, remotes
      <3>2. call[c].got \in SUBSET Snapshots BY <1>1 DEF TypeOK, Calls
      <3>3. /\ RowsFollow
            /\ \A b \in Batches : rows'[b] = rows[b] \/ (rows'[b] \in call[c].got /\ rows'[b].id = b)
        BY <1>1, <3>1, <3>2, WrittenOnward
      <3>4. RowsFrom BY <3>1, <3>3 DEF RowsFrom
      <3> QED BY <3>3, <3>4
    <2> QED BY <2>1, <2>2
  <1>5. CASE UNCHANGED vars BY <1>2, <1>5 DEF vars
  <1>6. ASSUME NEW c \in Callers,
               \/ Upload(c) \/ PutRecord(c) \/ ProviderDelete(c) \/ DropRecord(c) \/ Fail(c) \/ Lose(c)
               \/ ProviderSubmit(c) \/ ProviderCancel(c) \/ ProviderGet(c) \/ Refresh(c)
               \/ ProviderList(c)
        PROVE  UNCHANGED rows
    BY <1>6 DEF tables, Upload, PutRecord, ProviderDelete, DropRecord, Fail, Lose, ProviderSubmit,
                ProviderCancel, ProviderGet, Refresh, ProviderList
  <1>7. ASSUME NEW c \in Callers, NEW f \in Files, ProviderUpload(c, f) \/ Delete(c, f)
        PROVE  UNCHANGED rows
    BY <1>7 DEF tables, ProviderUpload, Delete
  <1>8. ASSUME NEW c \in Callers, NEW k \in CreateKeys, NEW f \in Files,
               Submit(c, k, f) \/ Replay(c, "submit", k, f)
        PROVE  UNCHANGED rows
    BY <1>8 DEF tables, Submit, Replay
  <1>9. ASSUME NEW c \in Callers, NEW k \in CancelKeys, NEW b \in Batches,
               Cancel(c, k, b) \/ Replay(c, "cancel", k, b)
        PROVE  UNCHANGED rows
    BY <1>9 DEF tables, Cancel, Replay
  <1>10. ASSUME NEW b \in Batches, Advance(b) \/ \E c \in Callers : Retrieve(c, b)
         PROVE  UNCHANGED rows
    BY <1>10 DEF tables, Advance, Retrieve
  <1>11. CASE Tick \/ Crash BY <1>11, <1>2 DEF tables, Tick, Crash
  <1> QED BY <1>2, <1>3, <1>4, <1>5, <1>6, <1>7, <1>8, <1>9, <1>10, <1>11 DEF Next

-----------------------------------------------------------------------------
(* The records a batch has had, in their order.                             *)

\* s is a record that batch b has had.
Had(b, s) == \E i \in 1..Len(life[b]) : life[b][i] = s

\* The records of b follow one another, the last is its present one, and only the last
\* may be the end.
LifeTrue(b) ==
  /\ life[b] \in Seq(Snapshots)
  /\ remote[b] = NoSnap => Len(life[b]) = 0
  /\ remote[b] # NoSnap => Len(life[b]) > 0 /\ life[b][Len(life[b])] = remote[b]
  /\ \A i \in 1..Len(life[b]) : \A j \in i..Len(life[b]) : Follows(life[b][j], life[b][i])
  /\ \A i \in 1..Len(life[b]) : i # Len(life[b]) => life[b][i].status \notin Terminal

LivesTrue == DOMAIN life = Batches /\ \A b \in Batches : LifeTrue(b)

RowsHad    == \A b \in Batches : rows[b] # NoSnap => Had(b, rows[b])
RepliesHad == \A k \in Keys : replies[k] # NoSnap => Had(replies[k].id, replies[k])
KeysHad    ==
  \A k \in Keys : keys[k].state = "completed" => Had(keys[k].response.id, keys[k].response)
CallsHad   == \A c \in Callers : \A s \in call[c].got : Had(s.id, s)

History == LivesTrue /\ RowsHad /\ RepliesHad /\ KeysHad /\ CallsHad

\* The next record of b is s.
NextRecord(b, s) ==
  /\ remote'[b] = s /\ life'[b] = Append(life[b], s)
  /\ remote[b] # NoSnap => Follows(s, remote[b]) /\ remote[b].status \notin Terminal

\* One batch at most has a next record, and a new answer is one.
LivesGrow ==
  \/ UNCHANGED <<remote, life, replies>>
  \/ \E b \in Batches, s \in Snapshots :
       /\ s.id = b /\ NextRecord(b, s) /\ DOMAIN life' = Batches
       /\ \A x \in Batches \ {b} : remote'[x] = remote[x] /\ life'[x] = life[x]
       /\ \A k \in Keys : replies'[k] = replies[k] \/ replies'[k] = s

\* A batch's life grows at its end.
LEMMA LifeGrows ==
  ASSUME TypeOK, NEW b \in Batches, NEW s \in Snapshots, LifeTrue(b), NextRecord(b, s)
  PROVE  LifeTrue(b)' /\ Had(b, s)' /\ \A r : Had(b, r) => Had(b, r)'
  <1> DEFINE n == Len(life[b])
  <1>1. life[b] \in Seq(Snapshots) /\ n \in Nat BY DEF LifeTrue
  <1>2. /\ life'[b] \in Seq(Snapshots) /\ Len(life'[b]) = n + 1 /\ life'[b][n + 1] = s
        /\ \A i \in 1..n : life'[b][i] = life[b][i] /\ life[b][i] \in Snapshots
    BY <1>1 DEF NextRecord
  <1>3. s # NoSnap /\ remote'[b] = s BY DEF NextRecord
  <1>4. ASSUME NEW i \in 1..n PROVE Follows(s, life[b][i]) /\ life[b][i].status \notin Terminal
    <2>1. remote[b] # NoSnap /\ life[b][n] = remote[b] BY <1>1 DEF LifeTrue
    <2>2. remote[b] \in Snapshots /\ Follows(s, remote[b]) /\ remote[b].status \notin Terminal
      BY <2>1 DEF TypeOK, NextRecord
    <2>3. n \in i..n BY <1>1
    <2>4. Follows(life[b][n], life[b][i]) BY <2>3 DEF LifeTrue
    <2>5. i # n => life[b][i].status \notin Terminal BY DEF LifeTrue
    <2> QED BY <1>2, <2>1, <2>2, <2>4, <2>5, FollowsOn
  <1>5. ASSUME NEW i \in 1..(n + 1), NEW j \in i..(n + 1)
        PROVE  Follows(life'[b][j], life'[b][i])
    <2>1. CASE i = n + 1
      <3>1. j = n + 1 BY <1>1, <2>1
      <3> QED BY <1>2, <2>1, <3>1, FollowsItself
    <2>2. CASE i # n + 1 /\ j = n + 1
      <3>1. i \in 1..n BY <1>1, <2>2
      <3> QED BY <1>2, <1>4, <2>2, <3>1
    <2>3. CASE i # n + 1 /\ j # n + 1
      <3>1. i \in 1..n /\ j \in i..n /\ j \in 1..n BY <1>1, <2>3
      <3>2. Follows(life[b][j], life[b][i]) BY <3>1 DEF LifeTrue
      <3> QED BY <1>2, <3>1, <3>2
    <2> QED BY <2>1, <2>2, <2>3
  <1>6. ASSUME NEW i \in 1..(n + 1), i # n + 1 PROVE life'[b][i].status \notin Terminal
    <2>1. i \in 1..n BY <1>1, <1>6
    <2> QED BY <1>2, <1>4, <2>1
  <1>7. LifeTrue(b)'
    <2> HIDE DEF n
    <2>1. n + 1 > 0 BY <1>1
    <2> QED BY <1>2, <1>3, <1>5, <1>6, <2>1 DEF LifeTrue
  <1>8. Had(b, s)' BY <1>1, <1>2 DEF Had
  <1>9. ASSUME NEW r, Had(b, r) PROVE Had(b, r)'
    <2>1. PICK i \in 1..n : life[b][i] = r BY <1>9 DEF Had
    <2>2. i \in 1..(n + 1) /\ life'[b][i] = r BY <1>1, <1>2, <2>1
    <2> QED BY <1>2, <2>2 DEF Had
  <1> QED BY <1>7, <1>8, <1>9

\* A step that changes no life keeps it true.
LEMMA LifeStays ==
  ASSUME NEW b \in Batches, LifeTrue(b), life'[b] = life[b], remote'[b] = remote[b]
  PROVE  LifeTrue(b)' /\ \A r : Had(b, r) => Had(b, r)'
  BY DEF LifeTrue, Had

\* What a batch has had it will always have had.
LEMMA LivesKept ==
  ASSUME TypeOK, LivesTrue, LivesGrow
  PROVE  LivesTrue' /\ \A b \in Batches : \A r : Had(b, r) => Had(b, r)'
  <1>1. CASE UNCHANGED <<remote, life, replies>>
    BY <1>1, LifeStays DEF LivesTrue
  <1>2. ASSUME NEW b \in Batches, NEW s \in Snapshots, s.id = b, NextRecord(b, s), DOMAIN life' = Batches,
               \A x \in Batches \ {b} : remote'[x] = remote[x] /\ life'[x] = life[x]
        PROVE  LivesTrue' /\ \A x \in Batches : \A r : Had(x, r) => Had(x, r)'
    <2>1. ASSUME NEW x \in Batches PROVE LifeTrue(x)' /\ \A r : Had(x, r) => Had(x, r)'
      <3>1. LifeTrue(x) BY DEF LivesTrue
      <3>2. CASE x = b BY <1>2, <3>1, <3>2, LifeGrows
      <3>3. CASE x # b BY <1>2, <3>1, <3>3, LifeStays
      <3> QED BY <3>2, <3>3
    <2> QED BY <1>2, <2>1 DEF LivesTrue
  <1> QED BY <1>1, <1>2 DEF LivesGrow

\* A new answer is a record the batch has had.
LEMMA RepliesGrow ==
  ASSUME TypeOK, LivesTrue, RepliesHad, LivesGrow PROVE RepliesHad'
  <1>0. \A b \in Batches : \A r : Had(b, r) => Had(b, r)' BY LivesKept
  <1>1. ASSUME NEW k \in Keys, replies'[k] # NoSnap, replies'[k] = replies[k]
        PROVE  Had(replies[k].id, replies[k])'
    <2>1. replies[k] \in Snapshots /\ Had(replies[k].id, replies[k]) BY <1>1 DEF TypeOK, RepliesHad
    <2>2. PICK r \in Snapshots : r = replies[k] BY <2>1
    <2>3. r.id \in Batches /\ Had(r.id, r) BY <2>1, <2>2 DEF Snapshots
    <2>4. Had(r.id, r)' BY <1>0, <2>3
    <2> QED BY <1>1, <2>2, <2>4 DEF Had
  <1>2. ASSUME NEW b \in Batches, NEW s \in Snapshots, s.id = b, NextRecord(b, s) PROVE Had(b, s)'
    BY <1>2, LifeGrows DEF LivesTrue
  <1>3. ASSUME NEW k \in Keys, replies'[k] # NoSnap PROVE Had(replies[k].id, replies[k])'
    <2>1. CASE replies'[k] = replies[k] BY <1>1, <1>3, <2>1
    <2>2. CASE replies'[k] # replies[k]
      <3>1. PICK b \in Batches : \E s \in Snapshots : s.id = b /\ NextRecord(b, s) /\ replies'[k] = s
        BY <2>2 DEF LivesGrow
      <3>2. PICK s \in Snapshots : s.id = b /\ NextRecord(b, s) /\ replies'[k] = s BY <3>1
      <3>3. Had(b, s)' BY <1>2, <3>2
      <3> QED BY <3>2, <3>3 DEF Had
    <2> QED BY <2>1, <2>2
  <1> QED BY <1>3 DEF RepliesHad

\* Of two records that a batch has had one came after the other.
LEMMA OneCameAfter ==
  ASSUME LivesTrue, NEW b \in Batches, NEW r \in Snapshots, NEW s \in Snapshots, Had(b, r), Had(b, s)
  PROVE  \/ Came(b, r, s) /\ Follows(s, r)
         \/ Came(b, s, r) /\ Follows(r, s) /\ r # s /\ s.status \notin Terminal
  <1>1. LifeTrue(b) BY DEF LivesTrue
  <1>2. PICK i \in 1..Len(life[b]) : life[b][i] = r BY DEF Had
  <1>3. PICK j \in 1..Len(life[b]) : life[b][j] = s BY DEF Had
  <1>4. Len(life[b]) \in Nat /\ DOMAIN life[b] = 1..Len(life[b]) BY <1>1 DEF LifeTrue
  <1>5. CASE i <= j
    <2>1. j \in i..Len(life[b]) BY <1>4, <1>5
    <2>2. Follows(life[b][j], life[b][i]) BY <1>1, <2>1 DEF LifeTrue
    <2>3. Came(b, r, s) BY <1>2, <1>3, <1>4, <2>1 DEF Came
    <2> QED BY <1>2, <1>3, <2>2, <2>3
  <1>6. CASE j < i
    <2>1. i \in j..Len(life[b]) /\ j # Len(life[b]) BY <1>4, <1>6
    <2>2. Follows(life[b][i], life[b][j]) /\ life[b][j].status \notin Terminal
      BY <1>1, <2>1 DEF LifeTrue
    <2>3. Came(b, s, r) BY <1>2, <1>3, <1>4, <2>1 DEF Came
    <2>4. CASE r = s
      <3>1. Came(b, r, s) /\ Follows(s, r) BY <2>3, <2>4, FollowsItself
      <3> QED BY <3>1
    <2> QED BY <1>2, <1>3, <2>2, <2>3, <2>4
  <1> QED BY <1>4, <1>5, <1>6

\* Each step adds to one batch's life at most.
LEMMA StepGrows == ASSUME Inductive, LivesTrue, [Next]_vars PROVE LivesGrow
  <1>1. TypeOK /\ ProviderTrue BY DEF Inductive, BatchesTrue
  <1>2. ASSUME NEW b \in Batches, NEW s \in Snapshots, s.id = b, Becomes(s),
               remote[b] # NoSnap => Follows(s, remote[b]) /\ remote[b].status \notin Terminal,
               UNCHANGED replies \/ \E k \in Keys : replies' = [replies EXCEPT ![k] = s]
        PROVE  LivesGrow
    <2>1. /\ NextRecord(b, s) /\ DOMAIN life' = Batches
          /\ \A x \in Batches \ {b} : remote'[x] = remote[x] /\ life'[x] = life[x]
      BY <1>1, <1>2 DEF Becomes, TypeOK, LivesTrue, NextRecord
    <2>2. \A k \in Keys : replies'[k] = replies[k] \/ replies'[k] = s BY <1>1, <1>2 DEF TypeOK
    <2> QED BY <1>2, <2>1, <2>2 DEF LivesGrow
  <1>3. ASSUME NEW c \in Callers, ProviderSubmit(c) PROVE LivesGrow
    <2> DEFINE k == call[c].key
               f == call[c].on
               n == CHOOSE b \in Batches \ Created : \A x \in Batches \ Created : b <= x
               r == [id |-> n, file |-> f, status |-> "validating", done |-> 0, at |-> clock]
    <2>1. CASE UNCHANGED <<remote, life, replies>> BY <2>1 DEF LivesGrow
    <2>2. CASE ~UNCHANGED <<remote, life, replies>>
      <3>1. Created # Batches /\ Becomes(r) /\ replies' = [replies EXCEPT ![k] = r]
        BY <1>3, <2>2 DEF ProviderSubmit
      <3>2. n \in Batches \ Created BY <1>1, <3>1, NextBatch
      <3>3. call[c].op = "submit" /\ k \in Keys /\ f \in Files
        BY <1>3 DEF ProviderSubmit, At, Inductive, BatchesTrue, CallsTrue, CallTrue, Keyed, Keys
      <3>4. r \in Snapshots BY <1>1, <3>2, <3>3 DEF Snapshots, Statuses, TypeOK
      <3>5. r.id = n /\ remote[n] = NoSnap BY <3>2 DEF Created
      <3> HIDE DEF r, n, k
      <3> QED BY <1>2, <3>1, <3>2, <3>3, <3>4, <3>5
    <2> QED BY <2>1, <2>2
  <1>4. ASSUME NEW c \in Callers, ProviderCancel(c) PROVE LivesGrow
    <2> DEFINE k == call[c].key
               b == call[c].on
               r == [remote[b] EXCEPT !.status = "cancelling", !.at = clock]
    <2>1. CASE UNCHANGED <<remote, life, replies>> BY <2>1 DEF LivesGrow
    <2>2. CASE ~UNCHANGED <<remote, life, replies>>
      <3>1. Becomes(r) /\ replies' = [replies EXCEPT ![k] = r] /\ remote[b].status \notin Terminal
        BY <1>4, <2>2 DEF ProviderCancel
      <3>2. k \in Keys /\ b \in Batches /\ remote[b] # NoSnap
        BY <1>4 DEF ProviderCancel, At, Inductive, BatchesTrue, CallsTrue, CallTrue, Keyed, Keys, Created
      <3>3. remote[b] \in Snapshots /\ remote[b].id = b /\ remote[b].at <= clock
        BY <1>1, <3>2 DEF TypeOK, ProviderTrue
      <3>4. r \in Snapshots /\ r.id = b /\ r.at = clock /\ r.done = remote[b].done
        BY <1>1, <3>3 DEF Snapshots, Statuses, TypeOK
      <3>5. remote[b].at \in Int /\ remote[b].done \in Int BY <3>3 DEF Snapshots
      <3> HIDE DEF r, k, b
      <3>6. Follows(r, remote[b]) BY <1>1, <3>1, <3>3, <3>4, <3>5 DEF Follows, TypeOK
      <3> QED BY <1>2, <3>1, <3>2, <3>4, <3>6
    <2> QED BY <2>1, <2>2
  <1>5. ASSUME NEW b \in Batches, Advance(b) PROVE LivesGrow
    <2>1. /\ remote[b] # NoSnap /\ remote[b] \in Snapshots /\ remote[b].id = b /\ remote[b].at <= clock
          /\ clock \in 0..MaxClock /\ UNCHANGED replies
      BY <1>1, <1>5 DEF Advance, Created, tables, TypeOK, ProviderTrue
    <2>2. ASSUME NEW t \in After(remote[b].status),
                 Becomes([remote[b] EXCEPT !.status = t, !.at = clock])
          PROVE  LivesGrow
      <3> DEFINE s == [remote[b] EXCEPT !.status = t, !.at = clock]
      <3>1. t \in Statuses /\ remote[b].status \notin Terminal
        BY <2>1 DEF After, Statuses, Terminal, Snapshots
      <3>2. s \in Snapshots /\ s.id = b /\ s.at = clock /\ s.done = remote[b].done
        BY <2>1, <3>1 DEF Snapshots
      <3>3. Becomes(s) BY <2>2
      <3> HIDE DEF s
      <3>4. Follows(s, remote[b]) BY <2>1, <3>1, <3>2 DEF Follows, Snapshots
      <3> QED BY <1>2, <2>1, <3>1, <3>2, <3>3, <3>4
    <2>3. ASSUME remote[b].status = "in_progress", remote[b].done < MaxDone,
                 Becomes([remote[b] EXCEPT !.done = @ + 1])
          PROVE  LivesGrow
      <3> DEFINE s == [remote[b] EXCEPT !.done = remote[b].done + 1]
      <3>1. remote[b].done + 1 \in 0..MaxDone BY <2>1, <2>3 DEF Snapshots
      <3>2. /\ s \in Snapshots /\ s.id = b /\ s.at = remote[b].at /\ s.done = remote[b].done + 1
            /\ s.status = remote[b].status
        BY <2>1, <3>1 DEF Snapshots
      <3>3. Becomes(s) BY <2>3
      <3> HIDE DEF s
      <3>4. Follows(s, remote[b]) BY <2>1, <3>2 DEF Follows, Snapshots
      <3>5. remote[b].status \notin Terminal BY <2>3 DEF Terminal
      <3> QED BY <1>2, <2>1, <3>2, <3>3, <3>4, <3>5
    <2> QED BY <1>5, <2>2, <2>3 DEF Advance
  <1>6. CASE UNCHANGED vars BY <1>6 DEF vars, LivesGrow
  <1>7. ASSUME NEW c \in Callers,
               \/ Upload(c) \/ PutRecord(c) \/ ProviderDelete(c) \/ DropRecord(c) \/ Fail(c) \/ Lose(c)
               \/ ProviderGet(c) \/ Refresh(c) \/ ProviderList(c) \/ Store(c) \/ Complete(c)
        PROVE  LivesGrow
    BY <1>7 DEF remotes, Upload, PutRecord, ProviderDelete, DropRecord, Fail, Lose, ProviderGet, Refresh,
                ProviderList, Store, Complete, CompleteWith, LivesGrow
  <1>8. ASSUME NEW c \in Callers, NEW f \in Files, ProviderUpload(c, f) \/ Delete(c, f)
        PROVE  LivesGrow
    BY <1>8 DEF remotes, ProviderUpload, Delete, LivesGrow
  <1>9. ASSUME NEW c \in Callers, NEW k \in CreateKeys, NEW f \in Files,
               Submit(c, k, f) \/ Replay(c, "submit", k, f)
        PROVE  LivesGrow
    BY <1>9 DEF remotes, Submit, Replay, LivesGrow
  <1>10. ASSUME NEW c \in Callers, NEW k \in CancelKeys, NEW b \in Batches,
                Cancel(c, k, b) \/ Replay(c, "cancel", k, b)
         PROVE  LivesGrow
    BY <1>10 DEF remotes, Cancel, Replay, LivesGrow
  <1>11. ASSUME NEW b \in Batches, NEW c \in Callers, Retrieve(c, b) PROVE LivesGrow
    BY <1>11 DEF remotes, Retrieve, LivesGrow
  <1>12. CASE Tick \/ Crash BY <1>12 DEF remotes, Tick, Crash, LivesGrow
  <1> QED BY <1>3, <1>4, <1>5, <1>6, <1>7, <1>8, <1>9, <1>10, <1>11, <1>12 DEF Next

\* Where a record that call c now has comes from.
Sourced(s, c) ==
  \/ s \in call[c].got
  \/ \E b \in Batches : (s = rows[b] \/ s = remote'[b]) /\ s # NoSnap
  \/ \E k \in Keys : \/ s = replies'[k] /\ s # NoSnap
                     \/ s = keys[k].response /\ keys[k].state = "completed"

AllSourced == \A c \in Callers : \A s \in call'[c].got : Sourced(s, c)

\* A call that has nothing new.
LEMMA NothingNew ==
  ASSUME NEW c \in Callers, NEW r, Moves(c, r), r.got = {} \/ r.got = call[c].got PROVE AllSourced
  <1>1. ASSUME NEW d \in Callers PROVE call'[d].got = {} \/ call'[d].got = call[d].got
    BY DEF Moves
  <1> QED BY <1>1 DEF AllSourced, Sourced

\* A call that has one record more.
LEMMA OneNew ==
  ASSUME NEW c \in Callers, NEW r, NEW s, Moves(c, r), r.got = {s} \/ r.got = call[c].got \cup {s},
         Sourced(s, c)
  PROVE  AllSourced
  <1>1. ASSUME NEW d \in Callers, d # c PROVE call'[d].got = call[d].got BY <1>1 DEF Moves
  <1>2. \A x \in call'[c].got : x = s \/ x \in call[c].got BY DEF Moves
  <1> QED BY <1>1, <1>2 DEF AllSourced, Sourced

\* A record comes from the provider, a row or a completed key.
LEMMA StepSourced == ASSUME Inductive, [Next]_vars PROVE AllSourced
  <1>1. TypeOK /\ BatchesTrue BY DEF Inductive
  <1>2. ASSUME UNCHANGED call PROVE AllSourced BY <1>2 DEF AllSourced, Sourced
  <1>3. ASSUME NEW c \in Callers, NEW op \in {"upload", "delete", "submit", "cancel", "retrieve"},
               NEW key \in Keys \cup {NoKey}, NEW on \in Ons, Ask(c, op, key, on)
        PROVE  AllSourced
    BY <1>1, <1>3, AskMoves DEF Began, AllSourced, Sourced
  <1>4. ASSUME NEW c \in Callers, Raise(c) PROVE AllSourced
    <2>1. Moves(c, NoCall) BY <1>1, <1>4, RaiseMoves
    <2>2. NoCall.got = {} BY DEF NoCall
    <2> QED BY <2>1, <2>2, NothingNew
  <1>5. ASSUME NEW c \in Callers, NEW pc \in {"calling", "answered", "returned"},
               call' = [call EXCEPT ![c].pc = pc]
        PROVE  AllSourced
    <2>1. Moves(c, [call[c] EXCEPT !.pc = pc]) BY <1>1, <1>5, PcMoves
    <2>2. call[c] \in Calls BY <1>1 DEF TypeOK
    <2>3. [call[c] EXCEPT !.pc = pc].got = call[c].got BY <2>2 DEF Calls
    <2> QED BY <2>1, <2>3, NothingNew
  <1>6. ASSUME NEW c \in Callers, NEW s \in Snapshots, Answer(c, s), Sourced(s, c) PROVE AllSourced
    <2>1. Moves(c, [call[c] EXCEPT !.pc = "answered", !.got = {s}]) BY <1>1, <1>6, AnswerMoves
    <2>2. call[c] \in Calls BY <1>1 DEF TypeOK
    <2>3. [call[c] EXCEPT !.pc = "answered", !.got = {s}].got = {s} BY <2>2 DEF Calls
    <2> QED BY <1>6, <2>1, <2>3, OneNew
  <1>7. ASSUME NEW c \in Callers, NEW f \in Files, ProviderUpload(c, f) PROVE AllSourced
    <2>1. call' = [call EXCEPT ![c].pc = "answered", ![c].on = f] BY <1>7 DEF ProviderUpload
    <2>2. call[c] \in Calls /\ call \in [Callers -> Calls] BY <1>1 DEF TypeOK
    <2>3. \A d \in Callers : call'[d].got = call[d].got BY <2>1, <2>2 DEF Calls
    <2> QED BY <2>3 DEF AllSourced, Sourced
  <1>8. ASSUME NEW c \in Callers, ProviderSubmit(c) PROVE AllSourced
    <2> DEFINE k == call[c].key
               f == call[c].on
               n == CHOOSE b \in Batches \ Created : \A x \in Batches \ Created : b <= x
               r == [id |-> n, file |-> f, status |-> "validating", done |-> 0, at |-> clock]
    <2>1. call[c].op = "submit" /\ k \in Keys /\ f \in Files
      BY <1>8 DEF ProviderSubmit, At, Inductive, BatchesTrue, CallsTrue, CallTrue, Keyed, Keys
    <2>2. CASE UNCHANGED <<remote, life, replies>> /\ replies[k] # NoSnap /\ Answer(c, replies[k])
      <3>1. replies[k] \in Snapshots BY <1>1, <2>1, <2>2 DEF TypeOK
      <3>2. PICK s \in Snapshots : s = replies[k] BY <3>1
      <3>3. Sourced(s, c) BY <2>1, <2>2, <3>2 DEF Sourced
      <3> QED BY <1>6, <2>2, <3>2, <3>3
    <2>3. CASE Created # Batches /\ replies' = [replies EXCEPT ![k] = r] /\ Answer(c, r)
      <3>1. n \in Batches \ Created BY <1>1, <2>3, NextBatch
      <3>2. r \in Snapshots BY <1>1, <2>1, <3>1 DEF Snapshots, Statuses, TypeOK
      <3>3. PICK s \in Snapshots : s = r BY <3>2
      <3> HIDE DEF r, n, f, k
      <3>4. replies'[k] = s BY <1>1, <2>1, <2>3, <3>3 DEF TypeOK
      <3>5. Sourced(s, c) BY <2>1, <3>4 DEF Sourced
      <3> QED BY <1>6, <2>3, <3>3, <3>5
    <2> QED BY <1>8, <2>2, <2>3 DEF ProviderSubmit
  <1>9. ASSUME NEW c \in Callers, ProviderCancel(c) PROVE AllSourced
    <2> DEFINE k == call[c].key
               b == call[c].on
               r == [remote[b] EXCEPT !.status = "cancelling", !.at = clock]
    <2>1. k \in Keys /\ b \in Batches /\ remote[b] \in Snapshots
      BY <1>1, <1>9
      DEF ProviderCancel, At, BatchesTrue, CallsTrue, CallTrue, Keyed, Keys, Created, TypeOK
    <2>2. CASE UNCHANGED <<remote, life, replies>> /\ replies[k] # NoSnap /\ Answer(c, replies[k])
      <3>1. replies[k] \in Snapshots BY <1>1, <2>1, <2>2 DEF TypeOK
      <3>2. PICK s \in Snapshots : s = replies[k] BY <3>1
      <3>3. Sourced(s, c) BY <2>1, <2>2, <3>2 DEF Sourced
      <3> QED BY <1>6, <2>2, <3>2, <3>3
    <2>3. CASE replies' = [replies EXCEPT ![k] = r] /\ Answer(c, r)
      <3>1. r \in Snapshots BY <1>1, <2>1 DEF Snapshots, Statuses, TypeOK
      <3>2. PICK s \in Snapshots : s = r BY <3>1
      <3> HIDE DEF r, b, k
      <3>3. replies'[k] = s BY <1>1, <2>1, <2>3, <3>2 DEF TypeOK
      <3>4. Sourced(s, c) BY <2>1, <3>3 DEF Sourced
      <3> QED BY <1>6, <2>3, <3>2, <3>4
    <2> QED BY <1>9, <2>2, <2>3 DEF ProviderCancel
  <1>10. ASSUME NEW c \in Callers, ProviderGet(c) PROVE AllSourced
    <2>1. /\ call[c].on \in Batches /\ remote[call[c].on] \in Snapshots
          /\ Answer(c, remote[call[c].on]) /\ UNCHANGED remote
      BY <1>1, <1>10 DEF ProviderGet, At, BatchesTrue, CallsTrue, CallTrue, Created, TypeOK, remotes
    <2>2. PICK s \in Snapshots : s = remote[call[c].on] BY <2>1
    <2>3. s = remote'[call[c].on] /\ s # NoSnap BY <2>1, <2>2
    <2>4. Sourced(s, c) BY <2>1, <2>3 DEF Sourced
    <2> QED BY <1>6, <2>1, <2>2, <2>4
  <1>11. ASSUME NEW c \in Callers, NEW op, NEW k \in Keys, NEW on, Replay(c, op, k, on) PROVE AllSourced
    <2>1. keys[k].state = "completed" /\ ReturnRow(c, op, k, on, keys[k].response)
      BY <1>11 DEF Replay
    <2>2. PICK s : s = keys[k].response OBVIOUS
    <2>3. call'[c].got = {s} /\ \A d \in Callers \ {c} : call'[d] = call[d]
      BY <1>1, <2>1, <2>2 DEF ReturnRow, NoCall, TypeOK
    <2>4. Sourced(s, c) BY <2>1, <2>2 DEF Sourced
    <2> QED BY <2>3, <2>4 DEF AllSourced, Sourced
  <1>12. ASSUME NEW c \in Callers, NEW k \in CancelKeys, NEW b \in Batches, Cancel(c, k, b)
         PROVE  AllSourced
    <2>1. CASE Ask(c, "cancel", k, b)
      <3>1. k \in Keys \cup {NoKey} /\ b \in Ons BY DEF Keys, Ons
      <3> QED BY <1>3, <2>1, <3>1
    <2>2. CASE call' = [call EXCEPT ![c] = [NoCall EXCEPT !.op = "cancel", !.pc = "answered",
                                             !.key = k, !.on = b, !.got = {rows[b]}]]
      <3>1. PICK s : s = rows[b] OBVIOUS
      <3>2. s # NoSnap BY <1>12, <3>1 DEF Cancel, Listed
      <3>3. call'[c].got = {s} /\ \A d \in Callers \ {c} : call'[d] = call[d]
        BY <1>1, <2>2, <3>1 DEF NoCall, TypeOK
      <3>4. Sourced(s, c) BY <3>1, <3>2 DEF Sourced
      <3> QED BY <3>3, <3>4 DEF AllSourced, Sourced
    <2> QED BY <1>12, <2>1, <2>2 DEF Cancel
  <1>13. ASSUME NEW c \in Callers, ProviderList(c) PROVE AllSourced
    <2>1. CASE Older(call[c].cursor) = {}
      <3>1. call' = [call EXCEPT ![c].pc = "answered"] BY <1>13, <2>1 DEF ProviderList
      <3> QED BY <1>5, <3>1
    <2>2. CASE Older(call[c].cursor) # {}
      <3> DEFINE b == Newest(Older(call[c].cursor))
      <3>1. Older(call[c].cursor) \in SUBSET Batches BY DEF Older, Created
      <3>2. b \in Created /\ b \in Batches BY <2>2, <3>1, NewestOf DEF Older, Created
      <3>3. PICK s : s = remote[b] OBVIOUS
      <3>4. s # NoSnap /\ s = remote'[b] BY <1>13, <3>2, <3>3 DEF ProviderList, remotes, Created
      <3>5. Sourced(s, c) BY <3>2, <3>4 DEF Sourced
      <3>6. PICK pc, G : /\ call' = [call EXCEPT ![c].got = G, ![c].cursor = b, ![c].pc = pc]
                         /\ G = call[c].got \cup {s}
        BY <1>13, <2>2, <3>3 DEF ProviderList, Gathered
      <3> HIDE DEF b
      <3>7. call \in [Callers -> Calls] /\ call[c] \in Calls BY <1>1 DEF TypeOK
      <3>8. call'[c].got = G /\ \A d \in Callers \ {c} : call'[d] = call[d]
        BY <3>6, <3>7 DEF Calls
      <3> QED BY <3>5, <3>6, <3>8 DEF AllSourced, Sourced
    <2> QED BY <2>1, <2>2
  <1>14. ASSUME NEW c \in Callers, Refresh(c) PROVE AllSourced
    <2>1. call'[c].got = {} /\ \A d \in Callers \ {c} : call'[d] = call[d]
      BY <1>1, <1>14 DEF Refresh, NoCall, TypeOK
    <2> QED BY <2>1 DEF AllSourced, Sourced
  <1>15. ASSUME NEW c \in Callers,
                PutRecord(c) \/ ProviderDelete(c) \/ DropRecord(c) \/ Complete(c) \/ Store(c)
                  \/ Fail(c) \/ Lose(c)
         PROVE  AllSourced
    <2>1. Raise(c) \/ \E pc \in {"calling", "answered", "returned"} : call' = [call EXCEPT ![c].pc = pc]
      BY <1>15 DEF PutRecord, ProviderDelete, DropRecord, Complete, CompleteWith, Store, Fail, Lose, Return
    <2> QED BY <1>4, <1>5, <2>1
  <1>16. ASSUME NEW c \in Callers, Upload(c) \/ \E f \in Files : Delete(c, f) PROVE AllSourced
    <2>1. \E op \in {"upload", "delete"}, on \in Ons : Ask(c, op, NoKey, on)
      BY <1>16 DEF Upload, Delete, Ons
    <2> QED BY <1>3, <2>1
  <1>17. ASSUME NEW c \in Callers, NEW k \in CreateKeys, NEW f \in Files, Submit(c, k, f) PROVE AllSourced
    <2>1. k \in Keys \cup {NoKey} /\ f \in Ons /\ Ask(c, "submit", k, f) BY <1>17 DEF Submit, Keys, Ons
    <2> QED BY <1>3, <2>1
  <1>18. ASSUME NEW c \in Callers, NEW b \in Batches, Retrieve(c, b) PROVE AllSourced
    <2>1. b \in Ons /\ Ask(c, "retrieve", NoKey, b) BY <1>18 DEF Retrieve, Ons
    <2> QED BY <1>3, <2>1
  <1>19. CASE Crash
    <2>1. \A c \in Callers : call'[c].got = {} BY <1>19 DEF Crash, NoCall
    <2> QED BY <2>1 DEF AllSourced
  <1>20. CASE Tick \/ UNCHANGED vars \/ \E b \in Batches : Advance(b)
    BY <1>2, <1>20 DEF Tick, vars, Advance
  <1>21. ASSUME NEW c \in Callers,
                \/ \E k \in CreateKeys, f \in Files : Replay(c, "submit", k, f)
                \/ \E k \in CancelKeys, b \in Batches : Replay(c, "cancel", k, b)
         PROVE  AllSourced
    BY <1>11, <1>21 DEF Keys
  <1> QED
    BY <1>7, <1>8, <1>9, <1>10, <1>12, <1>13, <1>14, <1>15, <1>16, <1>17, <1>18, <1>19, <1>20, <1>21
    DEF Next

\* The response of a key that is completed now is a record its caller had got.
KeysFrom ==
  \A k \in Keys :
    keys'[k].state = "completed" =>
      \/ keys'[k] = keys[k]
      \/ \E c \in Callers : \E s \in call[c].got : keys'[k].response = s

LEMMA StepKeys == ASSUME Inductive, [Next]_vars PROVE KeysFrom
  <1>1. TypeOK /\ CallsTrue BY DEF Inductive, BatchesTrue
  <1>2. ASSUME UNCHANGED keys PROVE KeysFrom BY <1>2 DEF KeysFrom
  <1>3. ASSUME NEW k \in Keys, NEW on, Reserve(k, on) PROVE KeysFrom
    BY <1>1, <1>3 DEF Reserve, KeysFrom, TypeOK
  <1>4. ASSUME NEW c \in Callers, Complete(c) PROVE KeysFrom
    <2>1. call[c].op \in {"submit", "cancel"} /\ call[c].pc = "answered"
      BY <1>4 DEF Complete, CompleteWith
    <2>2. PICK s \in Snapshots : call[c].got = {s} BY <1>1, <2>1 DEF CallsTrue, CallTrue, Keyed
    <2>3. Got(c) = s BY <2>2 DEF Got
    <2>4. CASE UNCHANGED keys BY <1>2, <2>4
    <2>5. CASE keys' = [keys EXCEPT ![call[c].key].state = "completed", ![call[c].key].response = s]
      <3>1. keys \in [Keys -> Held] BY <1>1 DEF TypeOK
      <3>2. ASSUME NEW k \in Keys PROVE keys'[k] = keys[k] \/ keys'[k].response = s
        BY <2>5, <3>1 DEF Held
      <3> QED BY <2>2, <3>2 DEF KeysFrom
    <2> QED BY <1>4, <2>3, <2>4, <2>5 DEF Complete, CompleteWith
  <1>5. ASSUME NEW c \in Callers,
               \/ Upload(c) \/ PutRecord(c) \/ ProviderDelete(c) \/ DropRecord(c) \/ Fail(c) \/ Lose(c)
               \/ ProviderSubmit(c) \/ ProviderCancel(c) \/ ProviderGet(c) \/ Refresh(c)
               \/ ProviderList(c) \/ Store(c)
        PROVE  UNCHANGED keys
    BY <1>5 DEF tables, Upload, PutRecord, ProviderDelete, DropRecord, Fail, Lose, ProviderSubmit,
                ProviderCancel, ProviderGet, Refresh, ProviderList, Store
  <1>6. ASSUME NEW c \in Callers, NEW f \in Files, ProviderUpload(c, f) \/ Delete(c, f)
        PROVE  UNCHANGED keys
    BY <1>6 DEF tables, ProviderUpload, Delete
  <1>7. ASSUME NEW c \in Callers, NEW k \in CreateKeys, NEW f \in Files,
               Submit(c, k, f) \/ Replay(c, "submit", k, f)
        PROVE  KeysFrom
    BY <1>2, <1>3, <1>7 DEF tables, Submit, Replay, Keys
  <1>8. ASSUME NEW c \in Callers, NEW k \in CancelKeys, NEW b \in Batches,
               Cancel(c, k, b) \/ Replay(c, "cancel", k, b)
        PROVE  KeysFrom
    BY <1>2, <1>3, <1>8 DEF tables, Cancel, Replay, Keys
  <1>9. ASSUME NEW b \in Batches, Advance(b) \/ \E c \in Callers : Retrieve(c, b)
        PROVE  UNCHANGED keys
    BY <1>9 DEF tables, Advance, Retrieve
  <1>10. CASE UNCHANGED vars \/ Tick \/ Crash BY <1>2, <1>10 DEF vars, tables, Tick, Crash
  <1> QED BY <1>2, <1>4, <1>5, <1>6, <1>7, <1>8, <1>9, <1>10 DEF Next

LEMMA InitHistory == ASSUME Init PROVE History
  <1>1. LivesTrue BY DEF Init, LivesTrue, LifeTrue
  <1>2. RowsHad /\ RepliesHad /\ KeysHad /\ CallsHad
    BY DEF Init, RowsHad, RepliesHad, KeysHad, CallsHad, Free, NoCall
  <1> QED BY <1>1, <1>2 DEF History

\* Whatever rows, answers, keys and calls hold stays a record that its batch has had.
LEMMA StepHistory == ASSUME Inductive, Inductive', History, [Next]_vars PROVE History'
  <1>1. TypeOK /\ TypeOK' /\ LivesTrue /\ RowsHad /\ RepliesHad /\ KeysHad /\ CallsHad
    BY DEF Inductive, History
  <1>2. LivesGrow BY <1>1, StepGrows
  <1>3. LivesTrue' /\ \A b \in Batches : \A r : Had(b, r) => Had(b, r)' BY <1>1, <1>2, LivesKept
  <1>4. RepliesHad' BY <1>1, <1>2, RepliesGrow
  <1>5. ASSUME NEW c \in Callers, NEW s \in call[c].got PROVE s \in Snapshots /\ Had(s.id, s)'
    <2>1. s \in Snapshots /\ Had(s.id, s) BY <1>1 DEF TypeOK, Calls, CallsHad
    <2>2. s.id \in Batches BY <2>1 DEF Snapshots
    <2> QED BY <1>3, <2>1, <2>2
  <1>6. ASSUME NEW b \in Batches, NEW s, s = rows[b], s # NoSnap PROVE s.id = b /\ Had(s.id, s)'
    <2>1. s.id = b /\ Had(b, s) BY <1>1, <1>6 DEF RowsHad, Inductive, BatchesTrue, RowsKnown
    <2> QED BY <1>3, <2>1
  <1>7. ASSUME NEW k \in Keys, NEW s, s = keys[k].response, keys[k].state = "completed"
        PROVE  Had(s.id, s)'
    <2>1. s \in Snapshots BY <1>7 DEF Inductive, BatchesTrue, KeysTrue, KeyTrue
    <2>2. s.id \in Batches /\ Had(s.id, s) BY <1>1, <1>7, <2>1 DEF KeysHad, Snapshots
    <2> QED BY <1>3, <2>2
  <1>8. ASSUME NEW k \in Keys, NEW s, s = replies'[k], s # NoSnap PROVE Had(s.id, s)'
    BY <1>4, <1>8 DEF RepliesHad
  <1>9. ASSUME NEW b \in Batches, NEW s, s = remote'[b], s # NoSnap PROVE Had(s.id, s)'
    <2>1. s.id = b BY <1>9 DEF Inductive, BatchesTrue, ProviderTrue
    <2>2. LifeTrue(b)' BY <1>3 DEF LivesTrue
    <2>3. Len(life'[b]) > 0 /\ life'[b][Len(life'[b])] = s /\ Len(life'[b]) \in Nat
      BY <1>9, <2>2 DEF LifeTrue
    <2> QED BY <2>1, <2>3 DEF Had
  <1>10. RowsHad'
    <2>1. RowsFrom BY StepRows
    <2>2. ASSUME NEW b \in Batches, rows'[b] # NoSnap PROVE Had(b, rows[b])'
      <3>1. CASE rows'[b] = rows[b]
        <4>1. PICK s : s = rows[b] OBVIOUS
        <4>2. s.id = b /\ Had(s.id, s)' BY <1>6, <2>2, <3>1, <4>1
        <4> QED BY <3>1, <4>1, <4>2 DEF Had
      <3>2. CASE rows'[b] # rows[b]
        <4>1. PICK c \in Callers : \E s \in call[c].got : s.id = b /\ rows'[b] = s
          BY <2>1, <3>2 DEF RowsFrom
        <4>2. PICK s \in call[c].got : s.id = b /\ rows'[b] = s BY <4>1
        <4>3. Had(s.id, s)' BY <1>5
        <4> QED BY <4>2, <4>3 DEF Had
      <3> QED BY <3>1, <3>2
    <2> QED BY <2>2 DEF RowsHad
  <1>11. KeysHad'
    <2>1. KeysFrom BY StepKeys
    <2>2. ASSUME NEW k \in Keys, keys'[k].state = "completed"
          PROVE  Had(keys[k].response.id, keys[k].response)'
      <3>1. CASE keys'[k] = keys[k]
        <4>1. PICK s : s = keys[k].response OBVIOUS
        <4>2. Had(s.id, s)' BY <1>7, <2>2, <3>1, <4>1
        <4> QED BY <3>1, <4>1, <4>2 DEF Had
      <3>2. CASE keys'[k] # keys[k]
        <4>1. PICK c \in Callers : \E s \in call[c].got : keys'[k].response = s
          BY <2>1, <2>2, <3>2 DEF KeysFrom
        <4>2. PICK s \in call[c].got : keys'[k].response = s BY <4>1
        <4>3. Had(s.id, s)' BY <1>5
        <4> QED BY <4>2, <4>3 DEF Had
      <3> QED BY <3>1, <3>2
    <2> QED BY <2>2 DEF KeysHad
  <1>12. CallsHad'
    <2>1. AllSourced BY StepSourced
    <2>2. ASSUME NEW c \in Callers, NEW s \in call'[c].got PROVE Had(s.id, s)'
      <3>1. Sourced(s, c) BY <2>1 DEF AllSourced
      <3>2. CASE s \in call[c].got BY <1>5, <3>2
      <3>3. ASSUME NEW b \in Batches, s = rows[b] \/ s = remote'[b], s # NoSnap PROVE Had(s.id, s)'
        BY <1>6, <1>9, <3>3
      <3>4. ASSUME NEW k \in Keys, \/ s = replies'[k] /\ s # NoSnap
                                   \/ s = keys[k].response /\ keys[k].state = "completed"
            PROVE  Had(s.id, s)'
        BY <1>7, <1>8, <3>4
      <3> QED BY <3>1, <3>2, <3>3, <3>4 DEF Sourced
    <2> QED BY <2>2 DEF CallsHad
  <1> QED BY <1>3, <1>4, <1>10, <1>11, <1>12 DEF History

\* Every record in the process and its database is one that the provider has had.
THEOREM HistoryHolds == Spec => [](Inductive /\ History)
  <1>1. Init => Inductive /\ History BY InitInductive, InitHistory
  <1>2. Inductive /\ History /\ [Next]_vars => (Inductive /\ History)' BY StepInductive, StepHistory
  <1> QED BY <1>1, <1>2, PTL DEF Spec

-----------------------------------------------------------------------------
(* The catalogs.                                                            *)

\* The catalogs of BatchService and ControlFileService tell the truth: a completed key's
\* answer is in them, at its second or later, no refresh has skipped a batch, files agree
\* with the provider's, and every row is a record that the provider has had.
THEOREM CatalogIsTrue == Spec => []CatalogTrue
  <1>1. ASSUME Inductive, History PROVE CatalogTrue
    <2>1. /\ TypeOK /\ ProviderTrue /\ RowsKnown /\ KeysTrue /\ CallsTrue /\ FilesAgree
          /\ LivesTrue /\ RowsHad /\ KeysHad
      BY <1>1 DEF Inductive, BatchesTrue, History
    <2>2. ASSUME NEW k \in Keys, keys[k].state = "completed"
          PROVE  LET s == keys[k].response  r == rows[s.id] IN
                   r # NoSnap /\ (Came(s.id, s, r) \/ r.at = s.at)
      <3>1. PICK s \in Snapshots : s = keys[k].response BY <2>1, <2>2 DEF KeysTrue, KeyTrue
      <3>2. s.id \in Batches /\ rows[s.id] # NoSnap /\ Follows(rows[s.id], s) /\ Had(s.id, s)
        BY <2>1, <2>2, <3>1 DEF KeysTrue, KeyTrue, KeysHad, Snapshots
      <3>3. PICK r \in Snapshots : r = rows[s.id] BY <2>1, <3>2 DEF TypeOK
      <3>4. Had(s.id, r) BY <2>1, <3>2, <3>3 DEF RowsHad
      <3>5. CASE Came(s.id, s, r) BY <3>1, <3>2, <3>3, <3>5
      <3>6. CASE Follows(s, r)
        <4>1. r.at = s.at BY <3>2, <3>3, <3>6 DEF Follows, Snapshots
        <4> QED BY <3>1, <3>2, <3>3, <4>1
      <3> QED BY <2>1, <3>2, <3>4, <3>5, <3>6, OneCameAfter
    <2>3. RefreshSkipsNothing
      BY <2>1 DEF RefreshSkipsNothing, At, CallsTrue, CallTrue, Refreshing
    <2>4. ASSUME NEW b \in Listed
          PROVE  Came(b, rows[b], remote[b]) /\ (rows[b].status \in Terminal => rows[b] = remote[b])
      <3>1. b \in Batches /\ rows[b] # NoSnap /\ Had(b, rows[b]) /\ remote[b] # NoSnap /\ LifeTrue(b)
        BY <2>1 DEF Listed, RowsHad, RowsKnown, Known, LivesTrue
      <3>2. PICK i \in 1..Len(life[b]) : life[b][i] = rows[b] BY <3>1 DEF Had
      <3>3. /\ Len(life[b]) \in Nat /\ DOMAIN life[b] = 1..Len(life[b])
            /\ life[b][Len(life[b])] = remote[b]
        BY <3>1 DEF LifeTrue
      <3>4. Len(life[b]) \in i..Len(life[b]) BY <3>3
      <3>5. Came(b, rows[b], remote[b]) BY <3>2, <3>3, <3>4 DEF Came
      <3>6. rows[b].status \in Terminal => rows[b] = remote[b] BY <3>1, <3>2, <3>3 DEF LifeTrue
      <3> QED BY <3>5, <3>6
    <2> QED BY <2>1, <2>2, <2>3, <2>4 DEF CatalogTrue, CompletedListed, RowsTrue
  <1> QED BY <1>1, HistoryHolds, PTL

\* No step takes a row away, or back by a second or more, in its counts or from its end.
LEMMA StepRowsOnward == ASSUME Inductive, Inductive', History, [Next]_vars PROVE RowsOnward
  <1>1. TypeOK /\ TypeOK' /\ LivesTrue /\ RowsHad /\ CallsHad BY DEF Inductive, History
  <1>2. RowsFollow /\ RowsFrom BY StepRows
  <1>3. ASSUME NEW b \in Listed
        PROVE  /\ rows'[b] # NoSnap
               /\ \/ Came(b, rows[b], rows'[b])
                  \/ /\ rows'[b].at = rows[b].at /\ rows'[b].done = rows[b].done
                     /\ rows[b].status \notin Terminal
    <2>1. b \in Batches /\ rows[b] # NoSnap BY DEF Listed
    <2>2. rows'[b] # NoSnap /\ Follows(rows'[b], rows[b]) BY <1>2, <2>1 DEF RowsFollow
    <2>3. PICK r \in Snapshots : r = rows[b] BY <1>1, <2>1 DEF TypeOK
    <2>4. PICK s \in Snapshots : s = rows'[b] BY <1>1, <2>1, <2>2 DEF TypeOK
    <2>5. Had(b, r) BY <1>1, <2>1, <2>3 DEF RowsHad
    <2>6. Had(b, s)
      <3>1. CASE s = r BY <2>5, <3>1
      <3>2. CASE s # r
        <4>1. PICK c \in Callers : \E x \in call[c].got : x.id = b /\ rows'[b] = x
          BY <1>2, <2>1, <2>3, <2>4, <3>2 DEF RowsFrom
        <4> QED BY <1>1, <2>4, <4>1 DEF CallsHad
      <3> QED BY <3>1, <3>2
    <2>7. CASE Came(b, r, s) BY <2>2, <2>3, <2>4, <2>7
    <2>8. CASE Follows(r, s) /\ s.status \notin Terminal
      <3>1. Follows(s, r) BY <2>2, <2>3, <2>4
      <3>2. s.at = r.at /\ s.done = r.done /\ r.status \notin Terminal
        BY <2>8, <3>1 DEF Follows, Snapshots
      <3> QED BY <2>2, <2>3, <2>4, <3>2
    <2> QED BY <1>1, <2>1, <2>5, <2>6, <2>7, <2>8, OneCameAfter
  <1> QED BY <1>3 DEF RowsOnward

\* What is refused has been overtaken.
LEMMA StepRefusals == ASSUME Inductive, History, [Next]_vars PROVE RefusalsDue
  <1>1. TypeOK /\ CallsTrue /\ LivesTrue /\ RowsHad /\ CallsHad
    BY DEF Inductive, BatchesTrue, History
  <1>2. ASSUME NEW c \in Callers, NEW s \in call[c].got, ~Writable(s)
        PROVE  rows[s.id] \notin {s, NoSnap} /\ Came(s.id, s, rows[s.id])
    <2>1. s \in Snapshots /\ s.id \in Batches /\ Had(s.id, s)
      BY <1>1 DEF TypeOK, Calls, Snapshots, CallsHad
    <2>2. PICK r \in Snapshots : r = rows[s.id] /\ ~Follows(s, r)
      BY <1>1, <1>2, <2>1 DEF Writable, Follows, TypeOK
    <2>3. r # NoSnap /\ Had(s.id, r) BY <1>1, <2>1, <2>2 DEF RowsHad
    <2>4. Came(s.id, s, r) /\ r # s
      BY <1>1, <2>1, <2>2, <2>3, OneCameAfter, FollowsItself
    <2> QED BY <2>2, <2>3, <2>4
  <1>3. ASSUME NEW c \in Callers, Refused(c) PROVE \E s \in call[c].got : ~Writable(s)
    <2>1. /\ call[c].op \in {"submit", "cancel", "retrieve", "refresh"} /\ call[c].pc = "answered"
          /\ call'[c].pc = "idle" /\ lost' = lost
      BY <1>3 DEF Refused
    <2>2. lost \in Nat BY <1>1 DEF TypeOK
    <2>3. ASSUME call'[c] = call[c] PROVE FALSE BY <2>1, <2>3
    <2>4. CASE Complete(c)
      <3>1. PICK s \in Snapshots : call[c].got = {s}
        BY <1>1, <2>1, <2>4 DEF CallsTrue, CallTrue, Keyed, Complete, CompleteWith
      <3>2. Got(c) = s BY <3>1 DEF Got
      <3>3. ASSUME Return(c) PROVE FALSE BY <1>1, <2>1, <3>3 DEF Return, TypeOK
      <3> QED BY <2>4, <3>1, <3>2, <3>3 DEF Complete, CompleteWith
    <2>5. CASE Store(c)
      <3>1. ASSUME Return(c) PROVE FALSE BY <1>1, <2>1, <3>1 DEF Return, TypeOK
      <3> QED BY <2>5, <3>1 DEF Store
    <2>6. ASSUME Upload(c) \/ PutRecord(c) \/ ProviderDelete(c) \/ DropRecord(c) \/ Fail(c) \/ Lose(c)
                   \/ ProviderSubmit(c) \/ ProviderCancel(c) \/ ProviderGet(c) \/ Refresh(c)
                   \/ ProviderList(c)
          PROVE  FALSE
      BY <2>1, <2>2, <2>6
      DEF Upload, PutRecord, ProviderDelete, DropRecord, Fail, Lose, ProviderSubmit, ProviderCancel,
          ProviderGet, Refresh, ProviderList, Begin, Idle, At
    <2>7. ASSUME NEW d \in Callers, d # c,
                 \/ Upload(d) \/ PutRecord(d) \/ ProviderDelete(d) \/ DropRecord(d) \/ Fail(d) \/ Lose(d)
                 \/ ProviderSubmit(d) \/ ProviderCancel(d) \/ ProviderGet(d) \/ Refresh(d)
                 \/ ProviderList(d) \/ Complete(d) \/ Store(d)
          PROVE  FALSE
      <3>1. call'[c] = call[c]
        <4>1. ASSUME NEW r, call' = [call EXCEPT ![d] = r] PROVE call'[c] = call[c]
          BY <1>1, <2>7, <4>1 DEF TypeOK
        <4>2. ASSUME ProviderList(d) PROVE call'[c] = call[c]
          BY <1>1, <2>7, <4>2 DEF TypeOK, ProviderList
        <4>3. ASSUME ProviderSubmit(d) \/ ProviderCancel(d) \/ ProviderGet(d) PROVE call'[c] = call[c]
          BY <1>1, <2>7, <4>3 DEF TypeOK, ProviderSubmit, ProviderCancel, ProviderGet, Answer
        <4>4. ASSUME Complete(d) \/ Store(d) \/ PutRecord(d) \/ DropRecord(d)
              PROVE  call'[c] = call[c]
          BY <1>1, <2>7, <4>4
          DEF TypeOK, Complete, CompleteWith, Store, PutRecord, DropRecord, Return, Raise
        <4>5. ASSUME Upload(d) \/ ProviderDelete(d) \/ Fail(d) \/ Lose(d) \/ Refresh(d)
              PROVE  call'[c] = call[c]
          BY <1>1, <2>7, <4>5
          DEF TypeOK, Upload, Ask, ProviderDelete, Fail, Lose, Refresh, Raise
        <4> QED BY <2>7, <4>2, <4>3, <4>4, <4>5
      <3> QED BY <2>3, <3>1
    <2>8. ASSUME NEW d \in Callers, NEW f \in Files, ProviderUpload(d, f) \/ Delete(d, f) PROVE FALSE
      <3>1. CASE d = c BY <2>1, <2>8, <3>1 DEF ProviderUpload, Delete, Begin, Idle, At
      <3>2. CASE d # c
        <4>1. call'[c] = call[c] BY <1>1, <2>8, <3>2 DEF TypeOK, ProviderUpload, Delete, Ask
        <4> QED BY <2>3, <4>1
      <3> QED BY <3>1, <3>2
    <2>9. ASSUME NEW d \in Callers, NEW op, NEW k \in Keys, NEW on, Replay(d, op, k, on) PROVE FALSE
      <3>1. CASE d = c BY <2>1, <2>9, <3>1 DEF Replay, Begin, Idle
      <3>2. CASE d # c
        <4>1. call'[c] = call[c] BY <1>1, <2>9, <3>2 DEF TypeOK, Replay, ReturnRow
        <4> QED BY <2>3, <4>1
      <3> QED BY <3>1, <3>2
    <2>10. ASSUME NEW d \in Callers, NEW k \in Keys, NEW f, Submit(d, k, f) \/ Cancel(d, k, f)
           PROVE  FALSE
      <3>1. CASE d = c BY <2>1, <2>10, <3>1 DEF Submit, Cancel, Begin, Idle
      <3>2. CASE d # c
        <4>1. call'[c] = call[c] BY <1>1, <2>10, <3>2 DEF TypeOK, Submit, Cancel, Ask
        <4> QED BY <2>3, <4>1
      <3> QED BY <3>1, <3>2
    <2>11. ASSUME NEW d \in Callers, NEW b \in Batches, Retrieve(d, b) PROVE FALSE
      <3>1. CASE d = c BY <2>1, <2>11, <3>1 DEF Retrieve, Begin, Idle
      <3>2. CASE d # c
        <4>1. call'[c] = call[c] BY <1>1, <2>11, <3>2 DEF TypeOK, Retrieve, Ask
        <4> QED BY <2>3, <4>1
      <3> QED BY <3>1, <3>2
    <2>12. ASSUME UNCHANGED vars \/ Tick \/ Crash \/ \E b \in Batches : Advance(b) PROVE FALSE
      <3>1. ASSUME call' = call PROVE FALSE BY <2>3, <3>1
      <3>2. CASE Crash BY <2>1, <2>2, <3>2 DEF Crash
      <3>3. CASE UNCHANGED vars BY <3>1, <3>3 DEF vars
      <3>4. CASE Tick BY <3>1, <3>4 DEF Tick
      <3>5. ASSUME NEW b \in Batches, Advance(b) PROVE FALSE BY <3>1, <3>5 DEF Advance
      <3> QED BY <2>12, <3>2, <3>3, <3>4, <3>5
    <2> QED BY <2>4, <2>5, <2>6, <2>7, <2>8, <2>9, <2>10, <2>11, <2>12 DEF Next, Keys
  <1> QED BY <1>2, <1>3 DEF RefusalsDue

\* In whatever order answers are written, _upsert_batch lets no row go back by a second or
\* more, in its counts or from its end, and refuses only what has been overtaken.
THEOREM RowsGoForward == Spec => RowsForward
  <1>1. (Inductive /\ History) /\ (Inductive /\ History)' /\ [Next]_vars => RowsOnward /\ RefusalsDue
    BY StepRowsOnward, StepRefusals
  <1>2. (Inductive /\ History) /\ (Inductive /\ History)' /\ [Next]_vars => [RowsOnward /\ RefusalsDue]_vars
    BY <1>1
  <1> QED BY <1>2, HistoryHolds, PTL DEF Spec, RowsForward
=============================================================================
