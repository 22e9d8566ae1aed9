--------------------------- MODULE PluginRegistry ---------------------------
(***************************************************************************)
(* PluginRegistry of zeaz-agent for one plugin name: its two SQLite        *)
(* tables, the version directories and the .trash they describe, and the   *)
(* audit ledger that every change is reported to.  The three are changed   *)
(* one after the other under the registry lock, with an undo when a later  *)
(* change fails; a process may die between any two.                        *)
(*                                                                         *)
(* A transaction is one step, at its commit: the lock keeps other writers  *)
(* away, and a process that dies loses what it has not committed.  What    *)
(* the file system has done stays done (no loss of power).                 *)
(***************************************************************************)
EXTENDS Integers

CONSTANTS
  Versions,    \* the versions of the plugin, each with its signed archive
  Removals,    \* bound: the removal ids there are; none is used twice
  Procs,       \* processes with the registry open
  MaxFaults,   \* bound: file, database and ledger operations that fail
  MaxCrashes,  \* bound: processes that die in the middle of an operation
  NoVersion, NoProc, NoRemoval

ASSUME PluginAssumption ==
  /\ NoVersion \notin Versions /\ NoProc \notin Procs /\ NoRemoval \notin Removals
  /\ MaxFaults \in Nat /\ MaxCrashes \in Nat

VARIABLES
  rows,     \* table plugins: version -> "absent", "disabled" or "enabled"
  removed,  \* table removed_plugins: removal id -> version or NoVersion
  dirs,     \* plugins/<name>/versions: version -> "none", "whole" or "partial"
  trash,    \* .trash: removal id -> the version whose directory it holds
  used,     \* removal ids that have been drawn
  audited,  \* what the events in the audit ledger, replayed, say of rows
  torn,     \* the ledger ends with a partial record
  lock,     \* who holds registry.lock
  frame,    \* the operation of the process that holds it
  before,   \* rows, removed, dirs and trash when the lock was taken
  faults, crashes,
  harm      \* history: an operation was cut short, or its undo failed, or an
            \* event was written by an append that then failed

tables == <<rows, removed>>
files  == <<dirs, trash>>
ledger == <<audited, torn>>
vars == <<rows, removed, dirs, trash, used, audited, torn, lock, frame, before,
          faults, crashes, harm>>

States == {"absent", "disabled", "enabled"}
Ops    == {"install", "enable", "disable", "remove", "restore"}
Undoing == {"drop_row", "drop_dir", "dropping", "unmove", "move_back", "rows_back", "states_back"}
Pcs    == {"idle", "staged", "published", "moved", "audit"} \cup Undoing

Rows    == [Versions -> States]
Bin     == [Removals -> Versions \cup {NoVersion}]
Dirs    == [Versions -> {"none", "whole", "partial"}]
Frame   == [pc : Pcs, op : Ops, v : Versions \cup {NoVersion}, id : Removals \cup {NoRemoval},
            faulted : BOOLEAN]
Idle    == [pc |-> "idle", op |-> "install", v |-> NoVersion, id |-> NoRemoval, faulted |-> FALSE]

Now == [rows |-> rows, removed |-> removed, dirs |-> dirs, trash |-> trash]

TypeOK ==
  /\ rows \in Rows /\ removed \in Bin /\ dirs \in Dirs /\ trash \in Bin
  /\ used \subseteq Removals
  /\ audited \in Rows /\ torn \in BOOLEAN
  /\ lock \in Procs \cup {NoProc} /\ frame \in Frame
  /\ before \in [rows : Rows, removed : Bin, dirs : Dirs, trash : Bin]
  /\ faults \in 0..MaxFaults /\ crashes \in 0..MaxCrashes /\ harm \in BOOLEAN
  /\ lock = NoProc <=> frame.pc = "idle"

Init ==
  /\ rows = [v \in Versions |-> "absent"] /\ removed = [id \in Removals |-> NoVersion]
  /\ dirs = [v \in Versions |-> "none"] /\ trash = [id \in Removals |-> NoVersion]
  /\ used = {}
  /\ audited = [v \in Versions |-> "absent"] /\ torn = FALSE
  /\ lock = NoProc /\ frame = Idle
  /\ before = Now
  /\ faults = 0 /\ crashes = 0 /\ harm = FALSE

-----------------------------------------------------------------------------
(* Steps of the process that holds the lock.                                *)

\* The lock is free, or flock waits for it.
Unlocked == lock = NoProc

\* _locked(): the operation begins, with the pc of its next step.
Enter(p, op, v, id, pc) ==
  /\ lock' = p
  /\ frame' = [pc |-> pc, op |-> op, v |-> v, id |-> id, faulted |-> FALSE]
  /\ before' = Now
  /\ UNCHANGED <<faults, crashes, harm>>

At(pc) == lock # NoProc /\ frame.pc = pc

Go(pc) == frame' = [frame EXCEPT !.pc = pc] /\ UNCHANGED <<lock, before, faults, crashes, harm>>

\* The operation returns or raises; either way the lock file is closed.
Leave == lock' = NoProc /\ frame' = Idle /\ UNCHANGED <<before, faults, crashes, harm>>

SetDir(v, d)    == dirs' = [dirs EXCEPT ![v] = d]
SetRow(v, s)    == rows' = [rows EXCEPT ![v] = s]
SetTrash(id, v) == trash' = [trash EXCEPT ![id] = v]
Record(id, v)   == removed' = [removed EXCEPT ![id] = v]

EnableOnly(r, v) ==
  [w \in Versions |-> IF w = v THEN "enabled" ELSE IF r[w] = "enabled" THEN "disabled" ELSE r[w]]

-----------------------------------------------------------------------------
(* install.  Of a version that has a row it returns the row, or raises when *)
(* the directory is missing; neither changes anything.                      *)

Stage(p, v) ==
  /\ Unlocked /\ rows[v] = "absent" /\ dirs[v] = "none"
  /\ Enter(p, "install", v, NoRemoval, "staged")
  /\ UNCHANGED <<tables, files, used, ledger>>

Publish ==
  /\ At("staged") /\ SetDir(frame.v, "whole") /\ Go("published")
  /\ UNCHANGED <<tables, trash, used, ledger>>

InsertRow ==
  /\ At("published") /\ SetRow(frame.v, "disabled") /\ Go("audit")
  /\ UNCHANGED <<removed, files, used, ledger>>

\* The undo of an installation: the row first, then the tree, file by file.
\* (Without a row to delete when the insertion itself had failed.)
DropRow ==
  /\ At("drop_row") /\ SetRow(frame.v, "absent") /\ Go("drop_dir")
  /\ UNCHANGED <<removed, files, used, ledger>>

DropDir ==
  /\ At("drop_dir") /\ SetDir(frame.v, "partial") /\ Go("dropping")
  /\ UNCHANGED <<tables, trash, used, ledger>>

DropRest ==
  /\ At("dropping") /\ SetDir(frame.v, "none") /\ Leave
  /\ UNCHANGED <<tables, trash, used, ledger>>

-----------------------------------------------------------------------------
(* set_enabled.                                                             *)

\* Mutation: the directory is not looked at.
EnableableRow(v) == rows[v] # "absent"

\* The row names a directory that is there and has the files of its manifest.
Enableable(v) == rows[v] # "absent" /\ dirs[v] = "whole"

Enable(p, v) ==
  /\ Unlocked /\ Enableable(v)
  /\ rows' = EnableOnly(rows, v)
  /\ Enter(p, "enable", v, NoRemoval, "audit")
  /\ UNCHANGED <<removed, files, used, ledger>>

Disable(p, v) ==
  /\ Unlocked /\ rows[v] # "absent" /\ dirs[v] # "none"
  /\ SetRow(v, "disabled")
  /\ Enter(p, "disable", v, NoRemoval, "audit")
  /\ UNCHANGED <<removed, files, used, ledger>>

\* Mutation: only the version named in the call is put back.
StatesBackOne ==
  /\ At("states_back") /\ SetRow(frame.v, before.rows[frame.v]) /\ Leave
  /\ UNCHANGED <<removed, files, used, ledger>>

StatesBack ==
  /\ At("states_back") /\ rows' = before.rows /\ Leave
  /\ UNCHANGED <<removed, files, used, ledger>>

-----------------------------------------------------------------------------
(* remove and restore: a rename, a transaction, and their undo in the same  *)
(* order.                                                                   *)

\* Mutation: an enabled version may be removed.
RemovableAny(v) == rows[v] # "absent" /\ dirs[v] # "none"

Removable(v) == rows[v] = "disabled" /\ dirs[v] # "none"

\* The directory, partial or not, is moved as it is; a partial one has no row.
MoveToTrash(p, v, id) ==
  /\ Unlocked /\ id \notin used /\ Removable(v)
  /\ used' = used \cup {id}
  /\ SetDir(v, "none") /\ SetTrash(id, v)
  /\ Enter(p, "remove", v, id, "moved")
  /\ UNCHANGED <<tables, ledger>>

MoveFromTrash(p, id) ==
  LET v == removed[id] IN
    /\ Unlocked /\ v # NoVersion /\ trash[id] = v /\ dirs[v] = "none"
    /\ SetTrash(id, NoVersion) /\ SetDir(v, "whole")
    /\ Enter(p, "restore", v, id, "moved")
    /\ UNCHANGED <<tables, used, ledger>>

Removed(v, id)  == SetRow(v, "absent") /\ Record(id, v)
Restored(v, id) == SetRow(v, "disabled") /\ Record(id, NoVersion)

\* Inserting a row that exists violates the primary key; see Fault.
CommitMove ==
  /\ At("moved")
  /\ \/ frame.op = "remove" /\ Removed(frame.v, frame.id)
     \/ frame.op = "restore" /\ rows[frame.v] = "absent" /\ Restored(frame.v, frame.id)
  /\ Go("audit") /\ UNCHANGED <<files, used, ledger>>

Unmoved ==
  IF frame.op = "remove" THEN SetTrash(frame.id, NoVersion) /\ SetDir(frame.v, "whole")
                         ELSE SetTrash(frame.id, frame.v) /\ SetDir(frame.v, "none")

\* The commit failed: only the rename is undone.
Unmove == At("unmove") /\ Unmoved /\ Leave /\ UNCHANGED <<tables, used, ledger>>

\* The append failed: the rename is undone, then the rows are.
MoveBack == At("move_back") /\ Unmoved /\ Go("rows_back") /\ UNCHANGED <<tables, used, ledger>>

\* Mutation: the record of the removal survives its undo.
RowsBackKeepsRecord ==
  /\ At("rows_back")
  /\ SetRow(frame.v, IF frame.op = "remove" THEN "disabled" ELSE "absent") /\ UNCHANGED removed
  /\ Leave /\ UNCHANGED <<files, used, ledger>>

RowsBack ==
  /\ At("rows_back")
  /\ IF frame.op = "remove" THEN Restored(frame.v, frame.id) ELSE Removed(frame.v, frame.id)
  /\ Leave /\ UNCHANGED <<files, used, ledger>>

-----------------------------------------------------------------------------
(* The audit ledger, and what goes wrong.                                   *)

\* What the ledger says of rows once the event of the operation is in it.
Replayed ==
  CASE frame.op = "enable" -> EnableOnly(audited, frame.v)
    [] frame.op = "remove" -> [audited EXCEPT ![frame.v] = "absent"]
    [] OTHER               -> [audited EXCEPT ![frame.v] = "disabled"]

Report ==
  /\ At("audit") /\ ~torn
  /\ audited' = Replayed /\ UNCHANGED torn
  /\ Leave /\ UNCHANGED <<tables, files, used>>

Undo ==
  CASE frame.op = "install"               -> "drop_row"
    [] frame.op \in {"remove", "restore"} -> "move_back"
    [] OTHER                              -> "states_back"

\* After a partial record every append is refused.  An append may also fail
\* before it writes, in the middle, or after, when the record cannot be synced.
ReportFails ==
  /\ At("audit")
  /\ \/ torn /\ UNCHANGED <<ledger, faults, harm>>
     \/ /\ ~torn /\ faults < MaxFaults /\ faults' = faults + 1
        /\ \/ UNCHANGED <<ledger, harm>>
           \/ torn' = TRUE /\ UNCHANGED <<audited, harm>>
           \/ audited' = Replayed /\ harm' = TRUE /\ UNCHANGED torn
  /\ frame' = [frame EXCEPT !.pc = Undo, !.faulted = TRUE]
  /\ UNCHANGED <<tables, files, used, lock, before, crashes>>

\* A row that is there already: the primary key of plugins.
Duplicate ==
  /\ At("moved") /\ frame.op = "restore" /\ rows[frame.v] # "absent"
  /\ frame' = [frame EXCEPT !.pc = "unmove", !.faulted = TRUE]
  /\ UNCHANGED <<tables, files, used, ledger, lock, before, faults, crashes, harm>>

\* A file or database operation fails: before anything is published the operation
\* just raises, afterwards it undoes what it did.
Fault ==
  /\ lock # NoProc /\ frame.pc # "audit"
  /\ faults < MaxFaults /\ faults' = faults + 1
  /\ \/ frame.pc = "staged" /\ lock' = NoProc /\ frame' = Idle /\ UNCHANGED harm
     \/ /\ frame.pc \in {"published", "moved"}
        /\ frame' = [frame EXCEPT !.pc = IF @ = "moved" THEN "unmove" ELSE "drop_dir",
                                  !.faulted = TRUE]
        /\ UNCHANGED <<lock, harm>>
     \/ frame.pc \in Undoing /\ lock' = NoProc /\ frame' = Idle /\ harm' = TRUE
  /\ UNCHANGED <<tables, files, used, ledger, before, crashes>>

\* The process dies, and its lock with it; perhaps in the middle of an append.
\* Opening the registry again repairs nothing.
Crash ==
  /\ lock # NoProc /\ crashes < MaxCrashes /\ crashes' = crashes + 1
  /\ torn' \in {torn, torn \/ frame.pc = "audit"}
  /\ lock' = NoProc /\ frame' = Idle /\ harm' = TRUE
  /\ UNCHANGED <<tables, files, used, audited, before, faults>>

Next ==
  \/ \E p \in Procs, v \in Versions :
       \/ Stage(p, v) \/ Enable(p, v) \/ Disable(p, v)
       \/ \E id \in Removals : MoveToTrash(p, v, id)
  \/ \E p \in Procs, id \in Removals : MoveFromTrash(p, id)
  \/ Publish \/ InsertRow \/ CommitMove \/ Report
  \/ DropRow \/ DropDir \/ DropRest \/ StatesBack \/ Unmove \/ MoveBack \/ RowsBack
  \/ ReportFails \/ Duplicate \/ Fault \/ Crash

Spec == Init /\ [][Next]_vars

-----------------------------------------------------------------------------
(* Properties.                                                              *)

\* Whoever lists the plugins, at any time, finds the files of an enabled version in
\* place: removal never takes them, and after a crash only what is there is enabled.
EnabledInstalled == \A v \in Versions : rows[v] = "enabled" => dirs[v] = "whole"

\* No row ever names a directory that is being deleted: not during an undo, and
\* not when the process dies in it.
NoPartialInstalled == \A v \in Versions : rows[v] # "absent" => dirs[v] # "partial"

\* Of two versions at most one is enabled.
OneEnabled(r) == \A v, w \in Versions : r[v] = "enabled" /\ r[w] = "enabled" => v = w

\* What an operation has done by each of its steps.
Row    == rows[frame.v]
Dir    == dirs[frame.v]
Binned == removed[frame.id]

Installing ==
  /\ frame.pc = "staged" => Row = "absent" /\ Dir = "none"
  /\ frame.pc = "published" => Row = "absent" /\ Dir = "whole"
  /\ frame.pc \in {"audit", "drop_row"} => Row = "disabled" /\ Dir = "whole"
  /\ frame.pc \in {"drop_dir", "dropping"} => Row = "absent"
  /\ frame.pc \in {"staged", "published", "audit", "drop_row", "drop_dir", "dropping"}

Removing ==
  /\ frame.pc \in {"moved", "unmove"} => Row = "disabled" /\ Dir = "none" /\ Binned = NoVersion
  /\ frame.pc \in {"audit", "move_back"} => Row = "absent" /\ Dir = "none" /\ Binned = frame.v
  /\ frame.pc = "rows_back" => Row = "absent" /\ Dir = "whole" /\ Binned = frame.v
  /\ frame.pc \in {"moved", "unmove", "audit", "move_back", "rows_back"}
  /\ frame.id \in used

Restoring ==
  /\ frame.pc \in {"moved", "unmove"} => Row # "enabled" /\ Dir = "whole" /\ Binned = frame.v
  /\ frame.pc \in {"audit", "move_back"} => Row = "disabled" /\ Dir = "whole" /\ Binned = NoVersion
  /\ frame.pc = "rows_back" => Row = "disabled" /\ Dir = "none" /\ Binned = NoVersion
  /\ frame.pc \in {"moved", "unmove", "audit", "move_back", "rows_back"}
  /\ frame.id \in used

Switching ==
  /\ frame.pc \in {"audit", "states_back"}
  /\ before.rows[frame.v] # "absent" /\ OneEnabled(before.rows)
  /\ rows = IF frame.op = "enable" THEN EnableOnly(before.rows, frame.v)
                                   ELSE [before.rows EXCEPT ![frame.v] = "disabled"]
  /\ \A v \in Versions : before.rows[v] = "enabled" => dirs[v] = "whole"

InProgress ==
  lock # NoProc =>
    /\ frame.v \in Versions
    /\ frame.op = "install" => Installing
    /\ frame.op = "remove" => frame.id \in Removals /\ Removing
    /\ frame.op = "restore" => frame.id \in Removals /\ Restoring
    /\ frame.op \in {"enable", "disable"} => Switching

DrawnOnce == \A id \in Removals : id \notin used => removed[id] = NoVersion

\* The inductive invariant.
Inductive ==
  /\ TypeOK /\ EnabledInstalled /\ NoPartialInstalled /\ OneEnabled(rows)
  /\ InProgress /\ DrawnOnce

\* Unless an operation was cut short, the two tables, the directories, the trash and
\* the ledger agree whenever the lock is free, also after failures of any single
\* step: each version is where its row says, and the events tell its state.
RestIsConsistent ==
  Unlocked /\ ~harm =>
    /\ \A v \in Versions : dirs[v] = IF rows[v] = "absent" THEN "none" ELSE "whole"
    /\ trash = removed
    /\ audited = rows

\* An operation that raises, and whose undo went through, has changed nothing.
FailedChangesNothing ==
  [][lock # NoProc /\ lock' = NoProc /\ frame.faulted /\ UNCHANGED <<faults, crashes>>
       => Now' = before]_vars

\* The tables are a catalog, whatever fails and whoever dies.
Catalog == INSTANCE PluginCatalog WITH installed <- rows, bin <- removed
CatalogSpec == Catalog!Spec

-----------------------------------------------------------------------------
(* A claim of the documentation that the code does not meet.                *)

\* docs/design/agent-plugins.md: removal moves a version into .trash, records a
\* recovery identifier, and can be reversed.  Between the two it cannot.
RemovalRecoverable ==
  Unlocked => \A id \in Removals : trash[id] # NoVersion => removed[id] = trash[id]
=============================================================================
