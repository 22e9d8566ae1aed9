---------------------------- MODULE PluginProofs ----------------------------
(***************************************************************************)
(* What the plugin registry keeps, for any number of versions, removals,   *)
(* processes, failures and crashes.                                        *)
(***************************************************************************)
EXTENDS PluginRegistry, TLAPS

USE PluginAssumption

-----------------------------------------------------------------------------
(* Types.                                                                   *)

\* The frame of an operation under way is well typed when its parts are.
LEMMA FrameTypes ==
  ASSUME TypeOK
  PROVE  /\ frame.pc \in Pcs /\ frame.op \in Ops
         /\ frame.v \in Versions \cup {NoVersion} /\ frame.id \in Removals \cup {NoRemoval}
         /\ frame.faulted \in BOOLEAN
  BY DEF TypeOK, Frame

\* Taking the registry lock for an operation keeps the types.
LEMMA EnterTypes ==
  ASSUME TypeOK, NEW p \in Procs, NEW op \in Ops, NEW v \in Versions,
         NEW id \in Removals \cup {NoRemoval}, NEW pc \in Pcs \ {"idle"}, Enter(p, op, v, id, pc)
  PROVE  /\ lock' \in Procs \cup {NoProc} /\ frame' \in Frame
         /\ before' \in [rows : Rows, removed : Bin, dirs : Dirs, trash : Bin]
         /\ faults' \in 0..MaxFaults /\ crashes' \in 0..MaxCrashes /\ harm' \in BOOLEAN
         /\ (lock = NoProc <=> frame.pc = "idle")'
  <1>1. before' = Now BY DEF Enter
  <1>2. Now \in [rows : Rows, removed : Bin, dirs : Dirs, trash : Bin] BY DEF TypeOK, Now
  <1>3. FALSE \in BOOLEAN OBVIOUS
  <1>4. frame' \in Frame BY <1>3 DEF Enter, Frame
  <1>5. lock' = p /\ frame'.pc = pc BY DEF Enter
  <1>6. UNCHANGED <<faults, crashes, harm>> BY DEF Enter
  <1> QED BY <1>1, <1>2, <1>4, <1>5, <1>6 DEF TypeOK

\* Going from one step of an operation to the next keeps the types.
LEMMA GoTypes ==
  ASSUME TypeOK, NEW pc \in Pcs \ {"idle"}, lock # NoProc, Go(pc)
  PROVE  /\ lock' \in Procs \cup {NoProc} /\ frame' \in Frame
         /\ before' \in [rows : Rows, removed : Bin, dirs : Dirs, trash : Bin]
         /\ faults' \in 0..MaxFaults /\ crashes' \in 0..MaxCrashes /\ harm' \in BOOLEAN
         /\ (lock = NoProc <=> frame.pc = "idle")'
         /\ frame'.pc = pc /\ frame'.op = frame.op /\ frame'.v = frame.v /\ frame'.id = frame.id
  <1>1. frame \in Frame BY DEF TypeOK
  <1>2. frame' = [frame EXCEPT !.pc = pc] BY DEF Go
  <1>3. frame' \in Frame BY <1>1, <1>2 DEF Frame
  <1>4. frame'.pc = pc /\ frame'.op = frame.op /\ frame'.v = frame.v /\ frame'.id = frame.id
    BY <1>1, <1>2 DEF Frame
  <1>5. UNCHANGED <<lock, before, faults, crashes, harm>> BY DEF Go
  <1> QED BY <1>3, <1>4, <1>5 DEF TypeOK

\* Giving the registry lock back keeps the types.
LEMMA LeaveTypes ==
  ASSUME TypeOK, lock' = NoProc, frame' = Idle
  PROVE  lock' \in Procs \cup {NoProc} /\ frame' \in Frame /\ (lock = NoProc <=> frame.pc = "idle")'
  <1>1. FALSE \in BOOLEAN OBVIOUS
  <1>2. Idle \in Frame BY <1>1 DEF Idle, Frame, Pcs, Ops
  <1> QED BY <1>2 DEF Idle

\* Entering an undo, when a later change fails, keeps the types.
LEMMA UndoTypes ==
  ASSUME TypeOK, NEW pc \in Pcs \ {"idle"}, lock # NoProc, lock' = lock,
         frame' = [frame EXCEPT !.pc = pc, !.faulted = TRUE]
  PROVE  /\ frame' \in Frame /\ (lock = NoProc <=> frame.pc = "idle")'
         /\ frame'.pc = pc /\ frame'.op = frame.op /\ frame'.v = frame.v /\ frame'.id = frame.id
  <1>1. frame \in Frame BY DEF TypeOK
  <1>2. TRUE \in BOOLEAN OBVIOUS
  <1>3. frame' \in Frame BY <1>1, <1>2 DEF Frame
  <1> QED BY <1>1, <1>3 DEF Frame, TypeOK

\* Enabling one version and disabling the others gives well-typed rows, with at most one enabled.
LEMMA EnableOnlyTypes ==
  ASSUME NEW r \in Rows, NEW v \in Versions
  PROVE  /\ EnableOnly(r, v) \in Rows /\ OneEnabled(EnableOnly(r, v))
         /\ \A w \in Versions : EnableOnly(r, v)[w] = "enabled" <=> w = v
         /\ \A w \in Versions : EnableOnly(r, v)[w] = "absent" <=> r[w] = "absent" /\ w # v
  BY DEF EnableOnly, Rows, States, OneEnabled

-----------------------------------------------------------------------------
(* The initial states.                                                      *)

\* An empty registry satisfies the invariant.
LEMMA InitInductive == Init => Inductive
  <1> SUFFICES ASSUME Init PROVE Inductive OBVIOUS
  <1>1. 0 \in 0..MaxFaults /\ 0 \in 0..MaxCrashes OBVIOUS
  <1>2. FALSE \in BOOLEAN OBVIOUS
  <1>3. Idle \in Frame BY <1>2 DEF Idle, Frame, Pcs, Ops
  <1>4. rows \in Rows /\ removed \in Bin /\ dirs \in Dirs /\ trash \in Bin /\ audited \in Rows
    BY DEF Init, Rows, States, Bin, Dirs
  <1>5. before \in [rows : Rows, removed : Bin, dirs : Dirs, trash : Bin]
    BY <1>4 DEF Init, Now
  <1>6. TypeOK BY <1>1, <1>2, <1>3, <1>4, <1>5 DEF Init, TypeOK, Idle
  <1>7. EnabledInstalled /\ NoPartialInstalled /\ OneEnabled(rows) /\ DrawnOnce
    BY DEF Init, EnabledInstalled, NoPartialInstalled, OneEnabled, DrawnOnce
  <1>8. InProgress BY DEF Init, InProgress
  <1> QED BY <1>6, <1>7, <1>8 DEF Inductive

-----------------------------------------------------------------------------
(* Operations begin.                                                        *)

\* install() up to the staged directory keeps the invariant.
LEMMA StageInductive ==
  ASSUME Inductive, NEW p \in Procs, NEW v \in Versions, Stage(p, v) PROVE Inductive'
  <1>1. TypeOK BY DEF Inductive
  <1>2. Enter(p, "install", v, NoRemoval, "staged") BY DEF Stage
  <1>3. "install" \in Ops /\ "staged" \in Pcs \ {"idle"} /\ NoRemoval \in Removals \cup {NoRemoval}
    BY DEF Ops, Pcs
  <1>4. TypeOK' BY <1>1, <1>2, <1>3, EnterTypes DEF TypeOK, Stage, tables, files, ledger
  <1>5. EnabledInstalled' /\ NoPartialInstalled' /\ OneEnabled(rows)' /\ DrawnOnce'
    BY DEF Stage, tables, files, Inductive, EnabledInstalled, NoPartialInstalled, OneEnabled, DrawnOnce
  <1>6. frame' = [pc |-> "staged", op |-> "install", v |-> v, id |-> NoRemoval, faulted |-> FALSE]
    BY <1>2 DEF Enter
  <1>7. Installing' BY <1>6 DEF Stage, Installing, Row, Dir, tables, files
  <1>8. InProgress' BY <1>6, <1>7 DEF InProgress
  <1> QED BY <1>4, <1>5, <1>8 DEF Inductive

\* set_enabled(True), with its transaction, keeps the invariant.
LEMMA EnableInductive ==
  ASSUME Inductive, NEW p \in Procs, NEW v \in Versions, Enable(p, v) PROVE Inductive'
  <1>1. TypeOK /\ rows \in Rows BY DEF Inductive, TypeOK
  <1>2. Enter(p, "enable", v, NoRemoval, "audit") BY DEF Enable
  <1>3. "enable" \in Ops /\ "audit" \in Pcs \ {"idle"} /\ NoRemoval \in Removals \cup {NoRemoval}
    BY DEF Ops, Pcs
  <1>4. rows' = EnableOnly(rows, v) BY DEF Enable
  <1>5. TypeOK' BY <1>1, <1>2, <1>3, <1>4, EnterTypes, EnableOnlyTypes DEF TypeOK, Enable, files, ledger
  <1>6. EnabledInstalled' BY <1>1, <1>4, EnableOnlyTypes DEF Enable, Enableable, files, EnabledInstalled
  <1>7. NoPartialInstalled'
    BY <1>1, <1>4, EnableOnlyTypes DEF Enable, Enableable, files, Inductive, NoPartialInstalled
  <1>8. OneEnabled(rows)' BY <1>1, <1>4, EnableOnlyTypes
  <1>9. DrawnOnce' BY DEF Enable, Inductive, DrawnOnce
  <1>10. frame' = [pc |-> "audit", op |-> "enable", v |-> v, id |-> NoRemoval, faulted |-> FALSE]
    BY <1>2 DEF Enter
  <1>11. before'.rows = rows BY <1>2 DEF Enter, Now
  <1>12. Switching'
    BY <1>4, <1>10, <1>11
    DEF Inductive, Enable, Enableable, Switching, EnabledInstalled, OneEnabled, files
  <1>13. InProgress' BY <1>10, <1>12 DEF InProgress
  <1> QED BY <1>5, <1>6, <1>7, <1>8, <1>9, <1>13 DEF Inductive

\* set_enabled(False), with its transaction, keeps the invariant.
LEMMA DisableInductive ==
  ASSUME Inductive, NEW p \in Procs, NEW v \in Versions, Disable(p, v) PROVE Inductive'
  <1>1. TypeOK /\ rows \in Rows BY DEF Inductive, TypeOK
  <1>2. Enter(p, "disable", v, NoRemoval, "audit") BY DEF Disable
  <1>3. "disable" \in Ops /\ "audit" \in Pcs \ {"idle"} /\ NoRemoval \in Removals \cup {NoRemoval}
    BY DEF Ops, Pcs
  <1>4. rows' = [rows EXCEPT ![v] = "disabled"] /\ rows[v] # "absent" BY DEF Disable, SetRow
  <1>5. rows' \in Rows BY <1>1, <1>4 DEF Rows, States
  <1>6. TypeOK' BY <1>1, <1>2, <1>3, <1>5, EnterTypes DEF TypeOK, Disable, files, ledger
  <1>7. EnabledInstalled' /\ NoPartialInstalled' /\ OneEnabled(rows)' /\ DrawnOnce'
    BY <1>1, <1>4 DEF Disable, files, Inductive, EnabledInstalled, NoPartialInstalled, OneEnabled,
                      DrawnOnce, Rows
  <1>8. frame' = [pc |-> "audit", op |-> "disable", v |-> v, id |-> NoRemoval, faulted |-> FALSE]
    BY <1>2 DEF Enter
  <1>9. before'.rows = rows BY <1>2 DEF Enter, Now
  <1>10. Switching'
    BY <1>4, <1>8, <1>9 DEF Inductive, Disable, Switching, EnabledInstalled, OneEnabled, files
  <1>11. InProgress' BY <1>8, <1>10 DEF InProgress
  <1> QED BY <1>6, <1>7, <1>11 DEF Inductive

\* The rename with which remove() begins keeps the invariant.
LEMMA MoveToTrashInductive ==
  ASSUME Inductive, NEW p \in Procs, NEW v \in Versions, NEW id \in Removals, MoveToTrash(p, v, id)
  PROVE  Inductive'
  <1>1. TypeOK /\ dirs \in Dirs /\ trash \in Bin BY DEF Inductive, TypeOK
  <1>2. Enter(p, "remove", v, id, "moved") BY DEF MoveToTrash
  <1>3. "remove" \in Ops /\ "moved" \in Pcs \ {"idle"} BY DEF Ops, Pcs
  <1>4. dirs' = [dirs EXCEPT ![v] = "none"] /\ trash' = [trash EXCEPT ![id] = v]
    BY DEF MoveToTrash, SetDir, SetTrash
  <1>5. dirs' \in Dirs /\ trash' \in Bin BY <1>1, <1>4 DEF Dirs, Bin
  <1>6. used' = used \cup {id} /\ id \notin used /\ UNCHANGED <<rows, removed>>
    BY DEF MoveToTrash, tables
  <1>7. TypeOK' BY <1>1, <1>2, <1>3, <1>5, <1>6, EnterTypes DEF TypeOK, MoveToTrash, ledger
  <1>8. rows[v] = "disabled" BY DEF MoveToTrash, Removable
  <1>9. EnabledInstalled' /\ NoPartialInstalled' /\ OneEnabled(rows)'
    BY <1>1, <1>4, <1>6, <1>8 DEF Inductive, EnabledInstalled, NoPartialInstalled, OneEnabled, Dirs
  <1>10. DrawnOnce' BY <1>6 DEF Inductive, DrawnOnce
  <1>11. frame' = [pc |-> "moved", op |-> "remove", v |-> v, id |-> id, faulted |-> FALSE]
    BY <1>2 DEF Enter
  <1>12. Removing'
    BY <1>1, <1>4, <1>6, <1>8, <1>11 DEF Inductive, DrawnOnce, Removing, Row, Dir, Binned, Dirs
  <1>13. InProgress' BY <1>11, <1>12 DEF InProgress
  <1> QED BY <1>7, <1>9, <1>10, <1>13 DEF Inductive

\* The rename with which restore() begins keeps the invariant.
LEMMA MoveFromTrashInductive ==
  ASSUME Inductive, NEW p \in Procs, NEW id \in Removals, MoveFromTrash(p, id)
  PROVE  Inductive'
  <1> DEFINE v == removed[id]
  <1>1. TypeOK /\ dirs \in Dirs /\ trash \in Bin /\ removed \in Bin BY DEF Inductive, TypeOK
  <1>2. v \in Versions BY <1>1 DEF MoveFromTrash, Bin
  <1>3. Enter(p, "restore", v, id, "moved") BY DEF MoveFromTrash
  <1>4. "restore" \in Ops /\ "moved" \in Pcs \ {"idle"} BY DEF Ops, Pcs
  <1>5. dirs' = [dirs EXCEPT ![v] = "whole"] /\ trash' = [trash EXCEPT ![id] = NoVersion]
    BY DEF MoveFromTrash, SetDir, SetTrash
  <1>6. dirs' \in Dirs /\ trash' \in Bin BY <1>1, <1>5 DEF Dirs, Bin
  <1>7. UNCHANGED <<rows, removed, used>> /\ dirs[v] = "none" BY DEF MoveFromTrash, tables
  <1>8. TypeOK'
    <2> HIDE DEF v
    <2> QED BY <1>1, <1>2, <1>3, <1>4, <1>6, <1>7, EnterTypes DEF TypeOK, MoveFromTrash, ledger
  <1>9. rows[v] # "enabled" BY <1>2, <1>7 DEF Inductive, EnabledInstalled
  <1>10. EnabledInstalled' /\ NoPartialInstalled' /\ OneEnabled(rows)' /\ DrawnOnce'
    BY <1>1, <1>2, <1>5, <1>7
    DEF Inductive, EnabledInstalled, NoPartialInstalled, OneEnabled, DrawnOnce, Dirs
  <1>11. frame' = [pc |-> "moved", op |-> "restore", v |-> v, id |-> id, faulted |-> FALSE]
    BY <1>3 DEF Enter
  <1>12. id \in used BY <1>2 DEF Inductive, DrawnOnce
  <1>13. Restoring'
    BY <1>1, <1>2, <1>5, <1>7, <1>9, <1>11, <1>12 DEF Restoring, Row, Dir, Binned, Dirs
  <1>14. InProgress' BY <1>2, <1>11, <1>13 DEF InProgress
  <1> QED BY <1>8, <1>10, <1>14 DEF Inductive

-----------------------------------------------------------------------------
(* Operations go on.                                                        *)

\* What the invariant says of the process that holds the lock.
LEMMA Holding ==
  ASSUME Inductive, lock # NoProc
  PROVE  /\ TypeOK /\ frame.v \in Versions /\ frame.op \in Ops
         /\ frame.op = "install" => Installing
         /\ frame.op = "remove" => frame.id \in Removals /\ Removing
         /\ frame.op = "restore" => frame.id \in Removals /\ Restoring
         /\ frame.op \in {"enable", "disable"} => Switching
         /\ rows \in Rows /\ removed \in Bin /\ dirs \in Dirs /\ trash \in Bin
  BY FrameTypes DEF Inductive, InProgress, TypeOK

\* Once the lock is free there is no operation to speak of.
LEMMA Free == ASSUME lock' = NoProc PROVE InProgress'
  BY DEF InProgress

\* The rename that publishes a staged version keeps the invariant.
LEMMA PublishInductive == ASSUME Inductive, Publish PROVE Inductive'
  <1>1. lock # NoProc /\ frame.pc = "staged" BY DEF Publish, At
  <1>2. TypeOK /\ dirs \in Dirs /\ frame.v \in Versions BY <1>1, Holding
  <1>3. frame.op = "install" /\ Installing
    BY <1>1, Holding DEF Removing, Restoring, Switching, Ops
  <1>4. dirs' = [dirs EXCEPT ![frame.v] = "whole"] BY DEF Publish, SetDir
  <1>5. dirs' \in Dirs BY <1>2, <1>4 DEF Dirs
  <1>6. Go("published") /\ "published" \in Pcs \ {"idle"} BY DEF Publish, Pcs
  <1>7. TypeOK' BY <1>1, <1>2, <1>5, <1>6, GoTypes DEF TypeOK, Publish, tables, ledger
  <1>8. EnabledInstalled' /\ NoPartialInstalled' /\ OneEnabled(rows)' /\ DrawnOnce'
    BY <1>2, <1>4
    DEF Publish, tables, Inductive, EnabledInstalled, NoPartialInstalled, OneEnabled, DrawnOnce, Dirs
  <1>9. frame'.pc = "published" /\ frame'.op = frame.op /\ frame'.v = frame.v
    BY <1>1, <1>2, <1>6, GoTypes
  <1>10. Installing'
    BY <1>1, <1>2, <1>3, <1>4, <1>9 DEF Publish, tables, Installing, Row, Dir, Dirs
  <1>11. InProgress' BY <1>2, <1>3, <1>9, <1>10 DEF InProgress
  <1> QED BY <1>7, <1>8, <1>11 DEF Inductive

\* The row of a new version, disabled and with its directory in place, keeps the invariant.
LEMMA InsertRowInductive == ASSUME Inductive, InsertRow PROVE Inductive'
  <1>1. lock # NoProc /\ frame.pc = "published" BY DEF InsertRow, At
  <1>2. TypeOK /\ rows \in Rows /\ frame.v \in Versions BY <1>1, Holding
  <1>3. frame.op = "install" /\ Installing
    BY <1>1, Holding DEF Removing, Restoring, Switching, Ops
  <1>4. rows' = [rows EXCEPT ![frame.v] = "disabled"] BY DEF InsertRow, SetRow
  <1>5. rows' \in Rows BY <1>2, <1>4 DEF Rows, States
  <1>6. Go("audit") /\ "audit" \in Pcs \ {"idle"} BY DEF InsertRow, Pcs
  <1>7. TypeOK' BY <1>1, <1>2, <1>5, <1>6, GoTypes DEF TypeOK, InsertRow, files, ledger
  <1>8. dirs[frame.v] = "whole" BY <1>1, <1>3 DEF Installing, Dir
  <1>9. EnabledInstalled' /\ NoPartialInstalled' /\ OneEnabled(rows)' /\ DrawnOnce'
    BY <1>2, <1>4, <1>8
    DEF InsertRow, files, Inductive, EnabledInstalled, NoPartialInstalled, OneEnabled, DrawnOnce, Rows
  <1>10. frame'.pc = "audit" /\ frame'.op = frame.op /\ frame'.v = frame.v
    BY <1>1, <1>2, <1>6, GoTypes
  <1>11. Installing' BY <1>2, <1>4, <1>8, <1>10 DEF InsertRow, files, Installing, Row, Dir, Rows
  <1>12. InProgress' BY <1>2, <1>3, <1>10, <1>11 DEF InProgress
  <1> QED BY <1>7, <1>9, <1>12 DEF Inductive

\* The transaction of remove() or restore(), after its rename, keeps the invariant.
LEMMA CommitMoveInductive == ASSUME Inductive, CommitMove PROVE Inductive'
  <1>1. lock # NoProc /\ frame.pc = "moved" BY DEF CommitMove, At
  <1>2. TypeOK /\ rows \in Rows /\ removed \in Bin /\ frame.v \in Versions BY <1>1, Holding
  <1>3. Go("audit") /\ "audit" \in Pcs \ {"idle"} BY DEF CommitMove, Pcs
  <1>4. frame'.pc = "audit" /\ frame'.op = frame.op /\ frame'.v = frame.v /\ frame'.id = frame.id
    BY <1>1, <1>2, <1>3, GoTypes
  <1>5. UNCHANGED <<dirs, trash, used, audited, torn>> BY DEF CommitMove, files, ledger
  <1>6. CASE frame.op = "remove"
    <2>1. frame.id \in Removals /\ Removing BY <1>1, <1>6, Holding
    <2>2. rows' = [rows EXCEPT ![frame.v] = "absent"] /\ removed' = [removed EXCEPT ![frame.id] = frame.v]
      BY <1>6 DEF CommitMove, Removed, SetRow, Record
    <2>3. rows' \in Rows /\ removed' \in Bin BY <1>2, <2>1, <2>2 DEF Rows, States, Bin
    <2>4. TypeOK' BY <1>1, <1>2, <1>3, <1>5, <2>3, GoTypes DEF TypeOK
    <2>5. EnabledInstalled' /\ NoPartialInstalled' /\ OneEnabled(rows)'
      BY <1>2, <1>5, <2>2 DEF Inductive, EnabledInstalled, NoPartialInstalled, OneEnabled, Rows
    <2>6. DrawnOnce' BY <1>2, <1>5, <2>1, <2>2 DEF Inductive, DrawnOnce, Removing, Bin
    <2>7. Removing'
      BY <1>1, <1>2, <1>4, <1>5, <2>1, <2>2 DEF Removing, Row, Dir, Binned, Rows, Bin
    <2>8. InProgress' BY <1>2, <1>4, <1>6, <2>1, <2>7 DEF InProgress
    <2> QED BY <2>4, <2>5, <2>6, <2>8 DEF Inductive
  <1>7. CASE frame.op = "restore"
    <2>1. frame.id \in Removals /\ Restoring BY <1>1, <1>7, Holding
    <2>2. rows' = [rows EXCEPT ![frame.v] = "disabled"]
          /\ removed' = [removed EXCEPT ![frame.id] = NoVersion]
      BY <1>7 DEF CommitMove, Restored, SetRow, Record
    <2>3. rows' \in Rows /\ removed' \in Bin BY <1>2, <2>1, <2>2 DEF Rows, States, Bin
    <2>4. TypeOK' BY <1>1, <1>2, <1>3, <1>5, <2>3, GoTypes DEF TypeOK
    <2>5. dirs[frame.v] = "whole" BY <1>1, <2>1 DEF Restoring, Dir
    <2>6. EnabledInstalled' /\ NoPartialInstalled' /\ OneEnabled(rows)'
      BY <1>2, <1>5, <2>2, <2>5 DEF Inductive, EnabledInstalled, NoPartialInstalled, OneEnabled, Rows
    <2>7. DrawnOnce' BY <1>2, <1>5, <2>1, <2>2 DEF Inductive, DrawnOnce, Restoring, Bin
    <2>8. Restoring'
      BY <1>1, <1>2, <1>4, <1>5, <2>1, <2>2, <2>5 DEF Restoring, Row, Dir, Binned, Rows, Bin
    <2>9. InProgress' BY <1>2, <1>4, <1>7, <2>1, <2>8 DEF InProgress
    <2> QED BY <2>4, <2>6, <2>7, <2>9 DEF Inductive
  <1> QED BY <1>6, <1>7 DEF CommitMove

\* An operation that ends with its audit event keeps the invariant.
LEMMA ReportInductive == ASSUME Inductive, Report PROVE Inductive'
  <1>1. lock # NoProc /\ frame.pc = "audit" BY DEF Report, At
  <1>2. TypeOK /\ audited \in Rows /\ frame.v \in Versions BY <1>1, Holding DEF TypeOK
  <1>3. Replayed \in Rows BY <1>2, EnableOnlyTypes DEF Replayed, Rows, States
  <1>4. lock' = NoProc /\ frame' = Idle /\ UNCHANGED <<before, faults, crashes, harm>>
    BY DEF Report, Leave
  <1>5. UNCHANGED <<rows, removed, dirs, trash, used, torn>> BY DEF Report, tables, files
  <1>6. TypeOK' BY <1>2, <1>3, <1>4, <1>5, LeaveTypes DEF Report, TypeOK
  <1>7. EnabledInstalled' /\ NoPartialInstalled' /\ OneEnabled(rows)' /\ DrawnOnce'
    BY <1>5 DEF Inductive, EnabledInstalled, NoPartialInstalled, OneEnabled, DrawnOnce
  <1> QED BY <1>4, <1>6, <1>7, Free DEF Inductive

-----------------------------------------------------------------------------
(* Operations are undone, fail or die.                                      *)

\* Undoing an installation: the row goes first, which keeps the invariant.
LEMMA DropRowInductive == ASSUME Inductive, DropRow PROVE Inductive'
  <1>1. lock # NoProc /\ frame.pc = "drop_row" BY DEF DropRow, At
  <1>2. TypeOK /\ rows \in Rows /\ frame.v \in Versions BY <1>1, Holding
  <1>3. frame.op = "install" /\ Installing
    BY <1>1, Holding DEF Removing, Restoring, Switching, Ops
  <1>4. rows' = [rows EXCEPT ![frame.v] = "absent"] BY DEF DropRow, SetRow
  <1>5. rows' \in Rows BY <1>2, <1>4 DEF Rows, States
  <1>6. Go("drop_dir") /\ "drop_dir" \in Pcs \ {"idle"} BY DEF DropRow, Pcs, Undoing
  <1>7. TypeOK' BY <1>1, <1>2, <1>5, <1>6, GoTypes DEF TypeOK, DropRow, files, ledger
  <1>8. EnabledInstalled' /\ NoPartialInstalled' /\ OneEnabled(rows)' /\ DrawnOnce'
    BY <1>2, <1>4
    DEF DropRow, files, Inductive, EnabledInstalled, NoPartialInstalled, OneEnabled, DrawnOnce, Rows
  <1>9. frame'.pc = "drop_dir" /\ frame'.op = frame.op /\ frame'.v = frame.v
    BY <1>1, <1>2, <1>6, GoTypes
  <1>10. Installing' BY <1>2, <1>4, <1>9 DEF Installing, Row, Dir, Rows
  <1>11. InProgress' BY <1>2, <1>3, <1>9, <1>10 DEF InProgress
  <1> QED BY <1>7, <1>8, <1>11 DEF Inductive

\* Undoing an installation: deleting the tree, which no row names by now, keeps the invariant.
LEMMA DropDirInductive == ASSUME Inductive, DropDir PROVE Inductive'
  <1>1. lock # NoProc /\ frame.pc = "drop_dir" BY DEF DropDir, At
  <1>2. TypeOK /\ dirs \in Dirs /\ frame.v \in Versions BY <1>1, Holding
  <1>3. frame.op = "install" /\ Installing
    BY <1>1, Holding DEF Removing, Restoring, Switching, Ops
  <1>4. dirs' = [dirs EXCEPT ![frame.v] = "partial"] BY DEF DropDir, SetDir
  <1>5. dirs' \in Dirs BY <1>2, <1>4 DEF Dirs
  <1>6. Go("dropping") /\ "dropping" \in Pcs \ {"idle"} BY DEF DropDir, Pcs, Undoing
  <1>7. TypeOK' BY <1>1, <1>2, <1>5, <1>6, GoTypes DEF TypeOK, DropDir, tables, ledger
  <1>8. rows[frame.v] = "absent" BY <1>1, <1>3 DEF Installing, Row
  <1>9. EnabledInstalled' /\ NoPartialInstalled' /\ OneEnabled(rows)' /\ DrawnOnce'
    BY <1>2, <1>4, <1>8
    DEF DropDir, tables, Inductive, EnabledInstalled, NoPartialInstalled, OneEnabled, DrawnOnce, Dirs
  <1>10. frame'.pc = "dropping" /\ frame'.op = frame.op /\ frame'.v = frame.v
    BY <1>1, <1>2, <1>6, GoTypes
  <1>11. Installing' BY <1>2, <1>8, <1>10 DEF DropDir, tables, Installing, Row, Dir
  <1>12. InProgress' BY <1>2, <1>3, <1>10, <1>11 DEF InProgress
  <1> QED BY <1>7, <1>9, <1>12 DEF Inductive

\* Undoing an installation: deleting what is left of the tree keeps the invariant.
LEMMA DropRestInductive == ASSUME Inductive, DropRest PROVE Inductive'
  <1>1. lock # NoProc /\ frame.pc = "dropping" BY DEF DropRest, At
  <1>2. TypeOK /\ dirs \in Dirs /\ frame.v \in Versions BY <1>1, Holding
  <1>3. frame.op = "install" /\ Installing
    BY <1>1, Holding DEF Removing, Restoring, Switching, Ops
  <1>4. dirs' = [dirs EXCEPT ![frame.v] = "none"] BY DEF DropRest, SetDir
  <1>5. dirs' \in Dirs BY <1>2, <1>4 DEF Dirs
  <1>6. lock' = NoProc /\ frame' = Idle /\ UNCHANGED <<before, faults, crashes, harm>>
    BY DEF DropRest, Leave
  <1>7. TypeOK' BY <1>2, <1>5, <1>6, LeaveTypes DEF TypeOK, DropRest, tables, ledger
  <1>8. rows[frame.v] = "absent" BY <1>1, <1>3 DEF Installing, Row
  <1>9. EnabledInstalled' /\ NoPartialInstalled' /\ OneEnabled(rows)' /\ DrawnOnce'
    BY <1>2, <1>4, <1>8
    DEF DropRest, tables, Inductive, EnabledInstalled, NoPartialInstalled, OneEnabled, DrawnOnce, Dirs
  <1> QED BY <1>6, <1>7, <1>9, Free DEF Inductive

\* Undoing set_enabled(): the states as they were keep the invariant, since no directory has gone.
LEMMA StatesBackInductive == ASSUME Inductive, StatesBack PROVE Inductive'
  <1>1. lock # NoProc /\ frame.pc = "states_back" BY DEF StatesBack, At
  <1>2. TypeOK /\ rows \in Rows /\ frame.v \in Versions BY <1>1, Holding
  <1>3. frame.op \in {"enable", "disable"} /\ Switching
    BY <1>1, Holding DEF Installing, Removing, Restoring, Ops
  <1>4. rows' = before.rows BY DEF StatesBack
  <1>5. before.rows \in Rows BY <1>2 DEF TypeOK
  <1>6. lock' = NoProc /\ frame' = Idle /\ UNCHANGED <<before, faults, crashes, harm>>
    BY DEF StatesBack, Leave
  <1>7. TypeOK' BY <1>2, <1>4, <1>5, <1>6, LeaveTypes DEF TypeOK, StatesBack, files, ledger
  <1>8. EnabledInstalled' /\ OneEnabled(rows)'
    BY <1>3, <1>4 DEF Switching, StatesBack, files, EnabledInstalled, OneEnabled
  <1>9. \A w \in Versions : rows[w] = "absent" <=> before.rows[w] = "absent"
    BY <1>2, <1>3, <1>5, EnableOnlyTypes DEF Switching, Rows
  <1>10. NoPartialInstalled' /\ DrawnOnce'
    BY <1>4, <1>9 DEF Inductive, StatesBack, files, NoPartialInstalled, DrawnOnce
  <1> QED BY <1>6, <1>7, <1>8, <1>10, Free DEF Inductive

\* The rename undone: the version is back where it was, and what the tables say of
\* it is not at odds with that.
LEMMA UnmovedFiles ==
  ASSUME Inductive, lock # NoProc, frame.pc \in {"unmove", "move_back"}, Unmoved,
         UNCHANGED <<rows, removed, used>>
  PROVE  /\ dirs' \in Dirs /\ trash' \in Bin
         /\ EnabledInstalled' /\ NoPartialInstalled' /\ OneEnabled(rows)' /\ DrawnOnce'
         /\ frame.op \in {"remove", "restore"}
         /\ frame.op = "remove" => dirs'[frame.v] = "whole"
         /\ frame.op = "restore" => dirs'[frame.v] = "none"
  <1>1. /\ dirs \in Dirs /\ trash \in Bin /\ frame.v \in Versions
    BY Holding
  <1>2. (frame.op = "remove" /\ Removing) \/ (frame.op = "restore" /\ Restoring)
    BY Holding DEF Installing, Switching, Ops
  <1>3. frame.id \in Removals BY <1>2, Holding
  <1>4. CASE frame.op = "remove"
    <2>1. dirs' = [dirs EXCEPT ![frame.v] = "whole"] /\ trash' = [trash EXCEPT ![frame.id] = NoVersion]
      BY <1>4 DEF Unmoved, SetDir, SetTrash
    <2>2. dirs' \in Dirs /\ trash' \in Bin BY <1>1, <2>1 DEF Dirs, Bin
    <2>3. EnabledInstalled' /\ NoPartialInstalled' /\ OneEnabled(rows)' /\ DrawnOnce'
      BY <1>1, <2>1 DEF Inductive, EnabledInstalled, NoPartialInstalled, OneEnabled, DrawnOnce, Dirs
    <2> QED BY <1>1, <1>4, <2>1, <2>2, <2>3 DEF Dirs
  <1>5. CASE frame.op = "restore"
    <2>1. dirs' = [dirs EXCEPT ![frame.v] = "none"] /\ trash' = [trash EXCEPT ![frame.id] = frame.v]
      BY <1>5 DEF Unmoved, SetDir, SetTrash
    <2>2. dirs' \in Dirs /\ trash' \in Bin BY <1>1, <2>1 DEF Dirs, Bin
    <2>3. rows[frame.v] # "enabled" BY <1>2, <1>5 DEF Restoring, Row
    <2>4. EnabledInstalled' /\ NoPartialInstalled' /\ OneEnabled(rows)' /\ DrawnOnce'
      BY <1>1, <2>1, <2>3
      DEF Inductive, EnabledInstalled, NoPartialInstalled, OneEnabled, DrawnOnce, Dirs
    <2> QED BY <1>1, <1>5, <2>1, <2>2, <2>4 DEF Dirs
  <1> QED BY <1>2, <1>4, <1>5

\* Undoing a rename whose transaction failed keeps the invariant.
LEMMA UnmoveInductive == ASSUME Inductive, Unmove PROVE Inductive'
  <1>1. lock # NoProc /\ frame.pc = "unmove" /\ Unmoved /\ UNCHANGED <<rows, removed, used, audited, torn>>
    BY DEF Unmove, At, tables, ledger
  <1>2. TypeOK BY <1>1, Holding
  <1>3. lock' = NoProc /\ frame' = Idle /\ UNCHANGED <<before, faults, crashes, harm>>
    BY DEF Unmove, Leave
  <1>4. TypeOK' BY <1>1, <1>2, <1>3, LeaveTypes, UnmovedFiles DEF TypeOK
  <1>5. EnabledInstalled' /\ NoPartialInstalled' /\ OneEnabled(rows)' /\ DrawnOnce'
    BY <1>1, UnmovedFiles
  <1> QED BY <1>3, <1>4, <1>5, Free DEF Inductive

\* Undoing a rename whose transaction was committed and not audited keeps the invariant.
LEMMA MoveBackInductive == ASSUME Inductive, MoveBack PROVE Inductive'
  <1>1. lock # NoProc /\ frame.pc = "move_back" /\ Unmoved
        /\ UNCHANGED <<rows, removed, used, audited, torn>>
    BY DEF MoveBack, At, tables, ledger
  <1>2. TypeOK /\ frame.v \in Versions BY <1>1, Holding
  <1>3. Go("rows_back") /\ "rows_back" \in Pcs \ {"idle"} BY DEF MoveBack, Pcs, Undoing
  <1>4. TypeOK' BY <1>1, <1>2, <1>3, GoTypes, UnmovedFiles DEF TypeOK
  <1>5. EnabledInstalled' /\ NoPartialInstalled' /\ OneEnabled(rows)' /\ DrawnOnce'
    BY <1>1, UnmovedFiles
  <1>6. /\ frame'.pc = "rows_back" /\ frame'.op = frame.op /\ frame'.v = frame.v
        /\ frame'.id = frame.id
    BY <1>1, <1>2, <1>3, GoTypes
  <1>7. /\ frame.op \in {"remove", "restore"}
        /\ frame.op = "remove" => dirs'[frame.v] = "whole"
        /\ frame.op = "restore" => dirs'[frame.v] = "none"
    BY <1>1, UnmovedFiles
  <1>8. /\ frame.op = "remove" => frame.id \in Removals /\ Removing
        /\ frame.op = "restore" => frame.id \in Removals /\ Restoring
    BY <1>1, Holding
  <1>9. CASE frame.op = "remove"
    <2>1. Removing' BY <1>1, <1>6, <1>7, <1>8, <1>9 DEF Removing, Row, Dir, Binned
    <2> QED BY <1>2, <1>4, <1>5, <1>6, <1>8, <1>9, <2>1 DEF InProgress, Inductive
  <1>10. CASE frame.op = "restore"
    <2>1. Restoring' BY <1>1, <1>6, <1>7, <1>8, <1>10 DEF Restoring, Row, Dir, Binned
    <2> QED BY <1>2, <1>4, <1>5, <1>6, <1>8, <1>10, <2>1 DEF InProgress, Inductive
  <1> QED BY <1>7, <1>9, <1>10

\* Undoing the transaction of remove() or restore(), after the directory, keeps the invariant.
LEMMA RowsBackInductive == ASSUME Inductive, RowsBack PROVE Inductive'
  <1>1. lock # NoProc /\ frame.pc = "rows_back" /\ UNCHANGED <<dirs, trash, used, audited, torn>>
    BY DEF RowsBack, At, files, ledger
  <1>2. TypeOK /\ rows \in Rows /\ removed \in Bin /\ frame.v \in Versions BY <1>1, Holding
  <1>3. lock' = NoProc /\ frame' = Idle /\ UNCHANGED <<before, faults, crashes, harm>>
    BY DEF RowsBack, Leave
  <1>4. (frame.op = "remove" /\ Removing) \/ (frame.op = "restore" /\ Restoring)
    BY <1>1, Holding DEF Installing, Switching, Ops
  <1>5. frame.id \in Removals BY <1>1, <1>4, Holding
  <1>6. CASE frame.op = "remove"
    <2>1. rows' = [rows EXCEPT ![frame.v] = "disabled"]
          /\ removed' = [removed EXCEPT ![frame.id] = NoVersion]
      BY <1>6 DEF RowsBack, Restored, SetRow, Record
    <2>2. rows' \in Rows /\ removed' \in Bin BY <1>2, <2>1 DEF Rows, States, Bin
    <2>3. dirs[frame.v] = "whole" BY <1>1, <1>4, <1>6 DEF Removing, Dir
    <2>4. EnabledInstalled' /\ NoPartialInstalled' /\ OneEnabled(rows)' /\ DrawnOnce'
      BY <1>1, <1>2, <2>1, <2>3
      DEF Inductive, EnabledInstalled, NoPartialInstalled, OneEnabled, DrawnOnce, Rows, Bin
    <2>5. TypeOK' BY <1>1, <1>2, <1>3, <2>2, LeaveTypes DEF TypeOK
    <2> QED BY <1>3, <2>4, <2>5, Free DEF Inductive
  <1>7. CASE frame.op = "restore"
    <2>1. rows' = [rows EXCEPT ![frame.v] = "absent"] /\ removed' = [removed EXCEPT ![frame.id] = frame.v]
      BY <1>7 DEF RowsBack, Removed, SetRow, Record
    <2>2. rows' \in Rows /\ removed' \in Bin BY <1>2, <2>1 DEF Rows, States, Bin
    <2>3. frame.id \in used BY <1>4, <1>7 DEF Restoring
    <2>4. EnabledInstalled' /\ NoPartialInstalled' /\ OneEnabled(rows)' /\ DrawnOnce'
      BY <1>1, <1>2, <2>1, <2>3
      DEF Inductive, EnabledInstalled, NoPartialInstalled, OneEnabled, DrawnOnce, Rows, Bin
    <2>5. TypeOK' BY <1>1, <1>2, <1>3, <2>2, LeaveTypes DEF TypeOK
    <2> QED BY <1>3, <2>4, <2>5, Free DEF Inductive
  <1> QED BY <1>4, <1>6, <1>7

\* An audit append that fails, and the undo it begins, keep the invariant.
LEMMA ReportFailsInductive == ASSUME Inductive, ReportFails PROVE Inductive'
  <1>1. lock # NoProc /\ frame.pc = "audit" BY DEF ReportFails, At
  <1>2. TypeOK /\ audited \in Rows /\ frame.v \in Versions /\ frame.op \in Ops
    BY <1>1, Holding DEF TypeOK
  <1>3. Replayed \in Rows BY <1>2, EnableOnlyTypes DEF Replayed, Rows, States
  <1>4. audited' \in Rows /\ torn' \in BOOLEAN
    BY <1>2, <1>3 DEF ReportFails, ledger, TypeOK
  <1>5. harm' \in BOOLEAN BY <1>2 DEF ReportFails, TypeOK
  <1>6. faults' \in 0..MaxFaults BY <1>2 DEF ReportFails, TypeOK
  <1>7. Undo \in Pcs \ {"idle"} BY DEF Undo, Pcs, Undoing
  <1>8. UNCHANGED <<rows, removed, dirs, trash, used, lock, before, crashes>>
    BY DEF ReportFails, tables, files
  <1>9. frame' = [frame EXCEPT !.pc = Undo, !.faulted = TRUE] BY DEF ReportFails
  <1> DEFINE u == Undo
  <1> HIDE DEF u
  <1>10. u \in Pcs \ {"idle"} /\ frame' = [frame EXCEPT !.pc = u, !.faulted = TRUE]
    BY <1>7, <1>9 DEF u
  <1>11. /\ frame' \in Frame /\ (lock = NoProc <=> frame.pc = "idle")'
         /\ frame'.pc = u /\ frame'.op = frame.op /\ frame'.v = frame.v /\ frame'.id = frame.id
    BY <1>1, <1>2, <1>8, <1>10, UndoTypes
  <1>12. TypeOK' BY <1>2, <1>4, <1>5, <1>6, <1>8, <1>11 DEF TypeOK
  <1>13. EnabledInstalled' /\ NoPartialInstalled' /\ OneEnabled(rows)' /\ DrawnOnce'
    BY <1>8 DEF Inductive, EnabledInstalled, NoPartialInstalled, OneEnabled, DrawnOnce
  <1>14. CASE frame.op = "install"
    <2>1. u = "drop_row" BY <1>14 DEF u, Undo
    <2>2. Installing BY <1>1, <1>14, Holding
    <2>3. Installing' BY <1>1, <1>8, <1>11, <2>1, <2>2 DEF Installing, Row, Dir
    <2> QED BY <1>2, <1>11, <1>12, <1>13, <1>14, <2>3 DEF InProgress, Inductive
  <1>15. CASE frame.op = "remove"
    <2>1. u = "move_back" BY <1>15 DEF u, Undo
    <2>2. frame.id \in Removals /\ Removing BY <1>1, <1>15, Holding
    <2>3. Removing' BY <1>1, <1>8, <1>11, <2>1, <2>2 DEF Removing, Row, Dir, Binned
    <2> QED BY <1>2, <1>11, <1>12, <1>13, <1>15, <2>2, <2>3 DEF InProgress, Inductive
  <1>16. CASE frame.op = "restore"
    <2>1. u = "move_back" BY <1>16 DEF u, Undo
    <2>2. frame.id \in Removals /\ Restoring BY <1>1, <1>16, Holding
    <2>3. Restoring' BY <1>1, <1>8, <1>11, <2>1, <2>2 DEF Restoring, Row, Dir, Binned
    <2> QED BY <1>2, <1>11, <1>12, <1>13, <1>16, <2>2, <2>3 DEF InProgress, Inductive
  <1>17. CASE frame.op \in {"enable", "disable"}
    <2>1. u = "states_back" BY <1>17 DEF u, Undo
    <2>2. Switching BY <1>1, <1>17, Holding
    <2>3. Switching' BY <1>8, <1>11, <2>1, <2>2 DEF Switching, EnableOnly
    <2> QED BY <1>2, <1>11, <1>12, <1>13, <1>17, <2>3 DEF InProgress, Inductive
  <1> QED BY <1>2, <1>14, <1>15, <1>16, <1>17 DEF Ops

\* A restoration that meets a row of its version, and turns to its undo, keeps the invariant.
LEMMA DuplicateInductive == ASSUME Inductive, Duplicate PROVE Inductive'
  <1>1. lock # NoProc /\ frame.pc = "moved" /\ frame.op = "restore" BY DEF Duplicate, At
  <1>2. TypeOK /\ frame.v \in Versions /\ frame.id \in Removals /\ Restoring BY <1>1, Holding
  <1>3. frame' = [frame EXCEPT !.pc = "unmove", !.faulted = TRUE] BY DEF Duplicate
  <1>4. UNCHANGED <<rows, removed, dirs, trash, used, audited, torn, lock, before, faults, crashes, harm>>
    BY DEF Duplicate, tables, files, ledger
  <1>5. "unmove" \in Pcs \ {"idle"} BY DEF Pcs, Undoing
  <1>6. /\ frame' \in Frame /\ (lock = NoProc <=> frame.pc = "idle")' /\ frame'.pc = "unmove"
        /\ frame'.op = frame.op /\ frame'.v = frame.v /\ frame'.id = frame.id
    BY <1>1, <1>2, <1>3, <1>4, <1>5, UndoTypes
  <1>7. TypeOK' BY <1>2, <1>4, <1>6 DEF TypeOK
  <1>8. EnabledInstalled' /\ NoPartialInstalled' /\ OneEnabled(rows)' /\ DrawnOnce'
    BY <1>4 DEF Inductive, EnabledInstalled, NoPartialInstalled, OneEnabled, DrawnOnce
  <1>9. Restoring' BY <1>1, <1>2, <1>4, <1>6 DEF Restoring, Row, Dir, Binned
  <1>10. InProgress' BY <1>1, <1>2, <1>6, <1>9 DEF InProgress
  <1> QED BY <1>7, <1>8, <1>10 DEF Inductive

\* A fault is an exit, or the beginning of an undo.
LEMMA FaultInductive == ASSUME Inductive, Fault PROVE Inductive'
  <1>1. lock # NoProc BY DEF Fault
  <1>2. TypeOK /\ frame.v \in Versions /\ frame.op \in Ops BY <1>1, Holding
  <1>3. UNCHANGED <<rows, removed, dirs, trash, used, audited, torn, before, crashes>>
    BY DEF Fault, tables, files, ledger
  <1>4. EnabledInstalled' /\ NoPartialInstalled' /\ OneEnabled(rows)' /\ DrawnOnce'
    BY <1>3 DEF Inductive, EnabledInstalled, NoPartialInstalled, OneEnabled, DrawnOnce
  <1>5. faults' \in 0..MaxFaults BY <1>2 DEF Fault, TypeOK
  <1>6. harm' \in BOOLEAN BY <1>2 DEF Fault, TypeOK
  <1>7. CASE lock' = NoProc /\ frame' = Idle
    <2>1. TypeOK' BY <1>2, <1>3, <1>5, <1>6, <1>7, LeaveTypes DEF TypeOK
    <2> QED BY <1>4, <1>7, <2>1, Free DEF Inductive
  <1>8. CASE frame.pc = "published" /\ lock' = lock
             /\ frame' = [frame EXCEPT !.pc = "drop_dir", !.faulted = TRUE]
    <2>1. "drop_dir" \in Pcs \ {"idle"} BY DEF Pcs, Undoing
    <2>2. /\ frame' \in Frame /\ (lock = NoProc <=> frame.pc = "idle")' /\ frame'.pc = "drop_dir"
          /\ frame'.op = frame.op /\ frame'.v = frame.v /\ frame'.id = frame.id
      BY <1>1, <1>2, <1>8, <2>1, UndoTypes
    <2>3. TypeOK' BY <1>2, <1>3, <1>5, <1>6, <1>8, <2>2 DEF TypeOK
    <2>4. frame.op = "install" /\ Installing
      BY <1>1, <1>8, Holding DEF Removing, Restoring, Switching, Ops
    <2>5. Installing' BY <1>3, <1>8, <2>2, <2>4 DEF Installing, Row, Dir
    <2>6. InProgress' BY <1>2, <2>2, <2>4, <2>5 DEF InProgress
    <2> QED BY <1>4, <2>3, <2>6 DEF Inductive
  <1>9. CASE frame.pc = "moved" /\ lock' = lock
             /\ frame' = [frame EXCEPT !.pc = "unmove", !.faulted = TRUE]
    <2>1. "unmove" \in Pcs \ {"idle"} BY DEF Pcs, Undoing
    <2>2. /\ frame' \in Frame /\ (lock = NoProc <=> frame.pc = "idle")' /\ frame'.pc = "unmove"
          /\ frame'.op = frame.op /\ frame'.v = frame.v /\ frame'.id = frame.id
      BY <1>1, <1>2, <1>9, <2>1, UndoTypes
    <2>3. TypeOK' BY <1>2, <1>3, <1>5, <1>6, <1>9, <2>2 DEF TypeOK
    <2>4. (frame.op = "remove" /\ Removing) \/ (frame.op = "restore" /\ Restoring)
      BY <1>1, <1>9, Holding DEF Installing, Switching, Ops
    <2>5. frame.id \in Removals BY <1>1, <2>4, Holding
    <2>6. CASE frame.op = "remove"
      <3>1. Removing' BY <1>3, <1>9, <2>2, <2>4, <2>6 DEF Removing, Row, Dir, Binned
      <3>2. InProgress' BY <1>2, <2>2, <2>5, <2>6, <3>1 DEF InProgress
      <3> QED BY <1>4, <2>3, <3>2 DEF Inductive
    <2>7. CASE frame.op = "restore"
      <3>1. Restoring' BY <1>3, <1>9, <2>2, <2>4, <2>7 DEF Restoring, Row, Dir, Binned
      <3>2. InProgress' BY <1>2, <2>2, <2>5, <2>7, <3>1 DEF InProgress
      <3> QED BY <1>4, <2>3, <3>2 DEF Inductive
    <2> QED BY <2>4, <2>6, <2>7
  <1>10. \/ lock' = NoProc /\ frame' = Idle
         \/ /\ frame.pc = "published" /\ lock' = lock
            /\ frame' = [frame EXCEPT !.pc = "drop_dir", !.faulted = TRUE]
         \/ /\ frame.pc = "moved" /\ lock' = lock
            /\ frame' = [frame EXCEPT !.pc = "unmove", !.faulted = TRUE]
    <2>1. frame \in Frame BY <1>2 DEF TypeOK
    <2>2. CASE frame.pc = "published"
      <3>1. lock' = lock /\ frame' = [frame EXCEPT !.pc = IF @ = "moved" THEN "unmove" ELSE "drop_dir",
                                                   !.faulted = TRUE]
        BY <2>2 DEF Fault, Undoing
      <3> QED BY <2>2, <3>1
    <2>3. CASE frame.pc = "moved"
      <3>1. lock' = lock /\ frame' = [frame EXCEPT !.pc = IF @ = "moved" THEN "unmove" ELSE "drop_dir",
                                                   !.faulted = TRUE]
        BY <2>3 DEF Fault, Undoing
      <3> QED BY <2>3, <3>1
    <2>4. CASE frame.pc \notin {"published", "moved"} BY <2>4 DEF Fault
    <2> QED BY <2>2, <2>3, <2>4
  <1> QED BY <1>7, <1>8, <1>9, <1>10

\* A process that dies at any step keeps the invariant.
LEMMA CrashInductive == ASSUME Inductive, Crash PROVE Inductive'
  <1>1. TypeOK BY DEF Inductive
  <1>2. lock' = NoProc /\ frame' = Idle /\ harm' = TRUE BY DEF Crash
  <1>3. UNCHANGED <<rows, removed, dirs, trash, used, audited, before, faults>>
    BY DEF Crash, tables, files
  <1>4. torn' \in BOOLEAN BY <1>1 DEF Crash, TypeOK
  <1>5. crashes' \in 0..MaxCrashes BY <1>1 DEF Crash, TypeOK
  <1>6. TypeOK' BY <1>1, <1>2, <1>3, <1>4, <1>5, LeaveTypes DEF TypeOK
  <1>7. EnabledInstalled' /\ NoPartialInstalled' /\ OneEnabled(rows)' /\ DrawnOnce'
    BY <1>3 DEF Inductive, EnabledInstalled, NoPartialInstalled, OneEnabled, DrawnOnce
  <1> QED BY <1>2, <1>6, <1>7, Free DEF Inductive

-----------------------------------------------------------------------------
(* The invariant and what follows from it.                                  *)

\* Every step of the registry keeps the invariant.
LEMMA StepInductive == ASSUME Inductive, [Next]_vars PROVE Inductive'
  <1>1. CASE UNCHANGED vars
    BY <1>1
    DEF vars, Inductive, TypeOK, EnabledInstalled, NoPartialInstalled, OneEnabled, DrawnOnce,
        InProgress, Installing, Removing, Restoring, Switching, Row, Dir, Binned
  <1>2. ASSUME NEW p \in Procs, NEW v \in Versions,
               \/ Stage(p, v) \/ Enable(p, v) \/ Disable(p, v)
               \/ \E id \in Removals : MoveToTrash(p, v, id)
        PROVE  Inductive'
    BY <1>2, StageInductive, EnableInductive, DisableInductive, MoveToTrashInductive
  <1>3. ASSUME NEW p \in Procs, NEW id \in Removals, MoveFromTrash(p, id) PROVE Inductive'
    BY <1>3, MoveFromTrashInductive
  <1>4. CASE Publish \/ InsertRow \/ CommitMove \/ Report
    BY <1>4, PublishInductive, InsertRowInductive, CommitMoveInductive, ReportInductive
  <1>5. CASE DropRow \/ DropDir \/ DropRest \/ StatesBack \/ Unmove \/ MoveBack \/ RowsBack
    BY <1>5, DropRowInductive, DropDirInductive, DropRestInductive, StatesBackInductive,
       UnmoveInductive, MoveBackInductive, RowsBackInductive
  <1>6. CASE ReportFails \/ Duplicate \/ Fault \/ Crash
    BY <1>6, ReportFailsInductive, DuplicateInductive, FaultInductive, CrashInductive
  <1> QED BY <1>1, <1>2, <1>3, <1>4, <1>5, <1>6 DEF Next

\* The tables, the directories and the operation in progress agree at every step of
\* install, set_enabled, remove and restore, of their undo, and after any crash.
THEOREM RegistryInvariant == Spec => []Inductive
  <1> QED BY InitInductive, StepInductive, PTL DEF Spec

\* Every variable keeps its type, and the lock is held just while an operation is
\* in progress (PluginRegistry._locked).
THEOREM RegistryTypes == Spec => []TypeOK
  <1>1. Inductive => TypeOK BY DEF Inductive
  <1> QED BY <1>1, RegistryInvariant, PTL

\* An enabled version has all its files, for a reader that holds no lock
\* (PluginRegistry.list), whatever fails and whoever dies.
THEOREM EnabledIsInstalled == Spec => []EnabledInstalled
  <1>1. Inductive => EnabledInstalled BY DEF Inductive
  <1> QED BY <1>1, RegistryInvariant, PTL

\* No row names a directory that _remove_tree has begun to delete.
THEOREM NoRowIsPartial == Spec => []NoPartialInstalled
  <1>1. Inductive => NoPartialInstalled BY DEF Inductive
  <1> QED BY <1>1, RegistryInvariant, PTL

-----------------------------------------------------------------------------
(* The tables implement the abstract catalog.                               *)

\* An empty registry is an empty catalog.
LEMMA InitCatalog == Init => Catalog!Init
  BY DEF Init, Catalog!Init

\* Putting the previous states back enables the version that was enabled, or else
\* disables the one that the failed operation had enabled.
LEMMA StatesBackCatalog == ASSUME Inductive, StatesBack PROVE Catalog!Next
  <1>1. lock # NoProc /\ frame.pc = "states_back" /\ rows' = before.rows /\ removed' = removed
    BY DEF StatesBack, At
  <1>2. TypeOK /\ rows \in Rows /\ frame.v \in Versions BY <1>1, Holding
  <1>3. frame.op \in {"enable", "disable"} /\ Switching
    BY <1>1, Holding DEF Installing, Removing, Restoring, Ops
  <1> DEFINE old == before.rows
  <1>4. old \in Rows BY <1>2 DEF TypeOK
  <1>5. /\ old[frame.v] # "absent" /\ OneEnabled(old)
        /\ rows = IF frame.op = "enable" THEN EnableOnly(old, frame.v)
                                         ELSE [old EXCEPT ![frame.v] = "disabled"]
    BY <1>3 DEF Switching
  <1>6. rows' = old BY <1>1
  <1> HIDE DEF old
  <1>7. CASE \E w \in Versions : old[w] = "enabled"
    <2>1. PICK w \in Versions : old[w] = "enabled" BY <1>7
    <2>2. \A x \in Versions : x # w => old[x] # "enabled" BY <1>5, <2>1 DEF OneEnabled
    <2>3. rows[w] # "absent" BY <1>2, <1>4, <1>5, <2>1 DEF EnableOnly, Rows
    <2>4. \A x \in Versions :
            old[x] = IF x = w THEN "enabled" ELSE IF rows[x] = "enabled" THEN "disabled" ELSE rows[x]
      BY <1>2, <1>4, <1>5, <2>1, <2>2 DEF EnableOnly, Rows, States
    <2>5. old = [x \in Versions |-> IF x = w THEN "enabled"
                   ELSE IF rows[x] = "enabled" THEN "disabled" ELSE rows[x]]
      BY <1>4, <2>4 DEF Rows
    <2>6. Catalog!Enable(w) BY <1>1, <1>6, <2>3, <2>5 DEF Catalog!Enable
    <2> QED BY <2>6 DEF Catalog!Next
  <1>8. CASE ~ \E w \in Versions : old[w] = "enabled"
    <2>1. old[frame.v] = "disabled" BY <1>2, <1>4, <1>5, <1>8 DEF Rows, States
    <2>2. rows[frame.v] # "absent" BY <1>2, <1>4, <1>5 DEF EnableOnly, Rows
    <2>3. \A x \in Versions : x # frame.v => rows[x] = old[x]
      BY <1>2, <1>4, <1>5, <1>8 DEF EnableOnly, Rows
    <2>4. old = [rows EXCEPT ![frame.v] = "disabled"]
      BY <1>2, <1>4, <2>1, <2>3 DEF Rows
    <2>5. Catalog!Disable(frame.v) BY <1>1, <1>6, <2>2, <2>4 DEF Catalog!Disable
    <2> QED BY <1>2, <2>5 DEF Catalog!Next
  <1> QED BY <1>7, <1>8

\* The transactions of remove() and restore(), and their undo, are removals and restorations of the catalog.
LEMMA MovesCatalog == ASSUME Inductive, CommitMove \/ RowsBack PROVE Catalog!Next
  <1>1. lock # NoProc /\ frame.pc \in {"moved", "rows_back"} BY DEF CommitMove, RowsBack, At
  <1>2. (frame.op = "remove" /\ Removing) \/ (frame.op = "restore" /\ Restoring)
    BY <1>1, Holding DEF Installing, Switching, Ops
  <1>3. frame.v \in Versions /\ frame.id \in Removals BY <1>1, <1>2, Holding
  <1>4. CASE frame.op = "remove" /\ CommitMove
    <2>1. Removed(frame.v, frame.id) /\ rows[frame.v] = "disabled" /\ removed[frame.id] = NoVersion
      BY <1>2, <1>4 DEF CommitMove, At, Removing, Row, Binned
    <2>2. Catalog!Remove(frame.v, frame.id)
      BY <2>1 DEF Removed, SetRow, Record, Catalog!Remove
    <2> QED BY <1>3, <2>2 DEF Catalog!Next
  <1>5. CASE frame.op = "restore" /\ CommitMove
    <2>1. Restored(frame.v, frame.id) /\ rows[frame.v] = "absent" /\ removed[frame.id] = frame.v
      BY <1>2, <1>5 DEF CommitMove, At, Restoring, Binned
    <2>2. Catalog!Restore(frame.v, frame.id)
      BY <2>1 DEF Restored, SetRow, Record, Catalog!Restore
    <2> QED BY <1>3, <2>2 DEF Catalog!Next
  <1>6. CASE frame.op = "remove" /\ RowsBack
    <2>1. Restored(frame.v, frame.id) /\ rows[frame.v] = "absent" /\ removed[frame.id] = frame.v
      BY <1>2, <1>6 DEF RowsBack, At, Removing, Row, Binned
    <2>2. Catalog!Restore(frame.v, frame.id)
      BY <2>1 DEF Restored, SetRow, Record, Catalog!Restore
    <2> QED BY <1>3, <2>2 DEF Catalog!Next
  <1>7. CASE frame.op = "restore" /\ RowsBack
    <2>1. Removed(frame.v, frame.id) /\ rows[frame.v] = "disabled" /\ removed[frame.id] = NoVersion
      BY <1>2, <1>7 DEF RowsBack, At, Restoring, Row, Binned
    <2>2. Catalog!Remove(frame.v, frame.id)
      BY <2>1 DEF Removed, SetRow, Record, Catalog!Remove
    <2> QED BY <1>3, <2>2 DEF Catalog!Next
  <1> QED BY <1>2, <1>4, <1>5, <1>6, <1>7

\* Every step of the registry is a step of the catalog, or none: tables change only in transactions.
LEMMA StepCatalog == ASSUME Inductive, [Next]_vars PROVE [Catalog!Next]_<<rows, removed>>
  <1>1. CASE UNCHANGED vars BY <1>1 DEF vars
  <1>2. ASSUME NEW p \in Procs, NEW v \in Versions,
               \/ Stage(p, v) \/ Enable(p, v) \/ Disable(p, v)
               \/ \E id \in Removals : MoveToTrash(p, v, id)
        PROVE  [Catalog!Next]_<<rows, removed>>
    <2>1. CASE Stage(p, v) BY <2>1 DEF Stage, tables
    <2>2. CASE Enable(p, v)
      <3>1. Catalog!Enable(v) BY <2>2 DEF Enable, Enableable, EnableOnly, Catalog!Enable
      <3> QED BY <3>1 DEF Catalog!Next
    <2>3. CASE Disable(p, v)
      <3>1. Catalog!Disable(v) BY <2>3 DEF Disable, SetRow, Catalog!Disable
      <3> QED BY <3>1 DEF Catalog!Next
    <2>4. CASE \E id \in Removals : MoveToTrash(p, v, id) BY <2>4 DEF MoveToTrash, tables
    <2> QED BY <1>2, <2>1, <2>2, <2>3, <2>4
  <1>3. ASSUME NEW p \in Procs, NEW id \in Removals, MoveFromTrash(p, id)
        PROVE  [Catalog!Next]_<<rows, removed>>
    BY <1>3 DEF MoveFromTrash, tables
  <1>4. CASE InsertRow
    <2>1. lock # NoProc /\ frame.pc = "published" BY <1>4 DEF InsertRow, At
    <2>2. frame.op = "install" /\ Installing /\ frame.v \in Versions
      BY <2>1, Holding DEF Removing, Restoring, Switching, Ops
    <2>3. Catalog!Install(frame.v)
      BY <1>4, <2>1, <2>2 DEF InsertRow, SetRow, Installing, Row, Catalog!Install
    <2> QED BY <2>2, <2>3 DEF Catalog!Next
  <1>5. CASE DropRow
    <2>1. lock # NoProc /\ frame.pc = "drop_row" BY <1>5 DEF DropRow, At
    <2>2. frame.op = "install" /\ Installing /\ frame.v \in Versions
      BY <2>1, Holding DEF Removing, Restoring, Switching, Ops
    <2>3. Catalog!Withdraw(frame.v)
      BY <1>5, <2>1, <2>2 DEF DropRow, SetRow, Installing, Row, Catalog!Withdraw
    <2> QED BY <2>2, <2>3 DEF Catalog!Next
  <1>6. CASE Publish \/ Report \/ DropDir \/ DropRest \/ Unmove \/ MoveBack
    BY <1>6 DEF Publish, Report, DropDir, DropRest, Unmove, MoveBack, tables
  <1>7. CASE ReportFails \/ Duplicate \/ Fault \/ Crash
    BY <1>7 DEF ReportFails, Duplicate, Fault, Crash, tables
  <1> QED BY <1>1, <1>2, <1>3, <1>4, <1>5, <1>6, <1>7, StatesBackCatalog, MovesCatalog DEF Next

\* Whatever fails and whoever dies, what the two tables say changes only as the
\* catalog allows: install, enable, disable, remove and restore are each one
\* commit, and an undo is one as well.
THEOREM ImplementsCatalog == Spec => CatalogSpec
  <1>1. Inductive /\ [Next]_vars => [Catalog!Next]_<<rows, removed>> BY StepCatalog
  <1> QED BY <1>1, InitCatalog, RegistryInvariant, PTL DEF Spec, CatalogSpec, Catalog!Spec

-----------------------------------------------------------------------------
(* What an operation has changed since it took the lock, and that its undo  *)
(* puts it back.                                                            *)

\* What an installation has done since it took the lock, by each of its steps.
InstallSince ==
  /\ before.rows[frame.v] = "absent" /\ before.dirs[frame.v] = "none"
  /\ removed = before.removed /\ trash = before.trash
  /\ rows = IF frame.pc \in {"audit", "drop_row"} THEN [before.rows EXCEPT ![frame.v] = "disabled"]
                                                  ELSE before.rows
  /\ dirs = [before.dirs EXCEPT ![frame.v] = CASE frame.pc = "staged"   -> "none"
                                               [] frame.pc = "dropping" -> "partial"
                                               [] OTHER                 -> "whole"]
\* The same for a removal, and its undo.
RemoveSince ==
  /\ before.rows[frame.v] = "disabled" /\ before.dirs[frame.v] = "whole"
  /\ before.removed[frame.id] = NoVersion /\ before.trash[frame.id] = NoVersion
  /\ IF frame.pc \in {"moved", "unmove"}
       THEN rows = before.rows /\ removed = before.removed
       ELSE /\ rows = [before.rows EXCEPT ![frame.v] = "absent"]
            /\ removed = [before.removed EXCEPT ![frame.id] = frame.v]
  /\ IF frame.pc = "rows_back"
       THEN dirs = before.dirs /\ trash = before.trash
       ELSE /\ dirs = [before.dirs EXCEPT ![frame.v] = "none"]
            /\ trash = [before.trash EXCEPT ![frame.id] = frame.v]

\* The same for a restoration, and its undo.
RestoreSince ==
  /\ before.dirs[frame.v] = "none"
  /\ before.removed[frame.id] = frame.v /\ before.trash[frame.id] = frame.v
  /\ IF frame.pc \in {"moved", "unmove"}
       THEN rows = before.rows /\ removed = before.removed
       ELSE /\ before.rows[frame.v] = "absent"
            /\ rows = [before.rows EXCEPT ![frame.v] = "disabled"]
            /\ removed = [before.removed EXCEPT ![frame.id] = NoVersion]
  /\ IF frame.pc = "rows_back"
       THEN dirs = before.dirs /\ trash = before.trash
       ELSE /\ dirs = [before.dirs EXCEPT ![frame.v] = "whole"]
            /\ trash = [before.trash EXCEPT ![frame.id] = NoVersion]

\* set_enabled touches the rows only; Switching says how.
SwitchSince == removed = before.removed /\ dirs = before.dirs /\ trash = before.trash

Since ==
  lock # NoProc =>
    /\ frame.op = "install" => InstallSince
    /\ frame.op = "remove" => RemoveSince
    /\ frame.op = "restore" => RestoreSince
    /\ frame.op \in {"enable", "disable"} => SwitchSince
    /\ frame.faulted => frame.pc \in Undoing

\* Nothing is in the trash under an id that has not been drawn.
DrawnTrash == \A id \in Removals : id \notin used => trash[id] = NoVersion

\* Each version is where its row says, and the trash holds what was removed.
Sound(s) ==
  /\ \A v \in Versions : s.dirs[v] = IF s.rows[v] = "absent" THEN "none" ELSE "whole"
  /\ s.trash = s.removed

\* Unless something was cut short, the registry is sound when the lock is free, and
\* was when it was taken; so is what the events say.
Agreed ==
  ~harm => IF lock = NoProc THEN Sound(Now) /\ audited = rows
                            ELSE Sound(before) /\ audited = before.rows

Account == Since /\ DrawnTrash /\ Agreed

\* Changing one entry and changing it back changes nothing.
LEMMA PutBack ==
  ASSUME NEW S, NEW T, NEW f \in [S -> T], NEW a \in S, NEW x
  PROVE  /\ [[f EXCEPT ![a] = x] EXCEPT ![a] = f[a]] = f
         /\ [f EXCEPT ![a] = f[a]] = f
  OBVIOUS

\* What was there when the lock was taken is well typed.
LEMMA BeforeTypes ==
  ASSUME Inductive
  PROVE  before.rows \in Rows /\ before.removed \in Bin /\ before.dirs \in Dirs /\ before.trash \in Bin
  BY DEF Inductive, TypeOK

\* What the account says while an operation is in progress.
LEMMA HoldingAccount ==
  ASSUME Account, lock # NoProc
  PROVE  /\ frame.op = "install" => InstallSince
         /\ frame.op = "remove" => RemoveSince
         /\ frame.op = "restore" => RestoreSince
         /\ frame.op \in {"enable", "disable"} => SwitchSince
         /\ frame.faulted => frame.pc \in Undoing
         /\ ~harm => Sound(before) /\ audited = before.rows
  BY DEF Account, Since, Agreed

\* Which operation is at a step that only one of them has.
LEMMA WhichOperation ==
  ASSUME Inductive, lock # NoProc
  PROVE  /\ frame.pc \in {"staged", "published", "drop_row", "drop_dir", "dropping"}
              => frame.op = "install" /\ Installing
         /\ frame.pc \in {"moved", "unmove", "move_back", "rows_back"}
              => /\ frame.id \in Removals
                 /\ (frame.op = "remove" /\ Removing) \/ (frame.op = "restore" /\ Restoring)
         /\ frame.pc = "states_back" => frame.op \in {"enable", "disable"} /\ Switching
  BY Holding DEF Installing, Removing, Restoring, Switching, Ops

\* A step within an operation, or one that breaks off with harm, keeps the agreement.
LEMMA WithinAgrees ==
  ASSUME Agreed, lock # NoProc, lock' = lock, before' = before,
         ~harm' => ~harm /\ audited' = audited
  PROVE  Agreed'
  BY DEF Agreed

\* An operation that ends with everything as it was keeps the account.
LEMMA UndoneAgrees ==
  ASSUME Account, lock # NoProc, lock' = NoProc, Now' = before, DrawnTrash',
         ~harm' => ~harm /\ audited' = audited
  PROVE  Account'
  <1>1. Since' BY DEF Since
  <1>2. ~harm' => Sound(before) /\ audited' = before.rows BY HoldingAccount
  <1>3. rows' = before.rows BY DEF Now
  <1>4. Agreed' BY <1>2, <1>3 DEF Agreed
  <1> QED BY <1>1, <1>4 DEF Account

\* An operation that begins remembers what it found.
LEMMA BeginAgrees ==
  ASSUME Agreed, NEW p \in Procs, NEW op, NEW v, NEW id, NEW pc, lock = NoProc, Enter(p, op, v, id, pc),
         audited' = audited
  PROVE  Agreed'
  <1>1. lock' # NoProc /\ before' = Now /\ harm' = harm BY DEF Enter
  <1>2. Now.rows = rows BY DEF Now
  <1> QED BY <1>1, <1>2 DEF Agreed

\* The frame of an operation that has just begun.
Begun(p, op, v, id, pc) ==
  /\ lock' = p /\ frame'.pc = pc /\ frame'.op = op /\ frame'.v = v /\ frame'.id = id
  /\ frame'.faulted = FALSE
  /\ before'.rows = rows /\ before'.removed = removed /\ before'.dirs = dirs /\ before'.trash = trash

\* install() begins.
LEMMA StageAccount ==
  ASSUME Inductive, Account, NEW p \in Procs, NEW v \in Versions, Stage(p, v) PROVE Account'
  <1>1. Enter(p, "install", v, NoRemoval, "staged") BY DEF Stage
  <1>0. Begun(p, "install", v, NoRemoval, "staged") BY <1>1 DEF Enter, Now, Begun
  <1>2. UNCHANGED <<rows, removed, dirs, trash, used, audited>> BY DEF Stage, tables, files, ledger
  <1>3. dirs \in Dirs /\ rows[v] = "absent" /\ dirs[v] = "none" BY DEF Inductive, TypeOK, Stage
  <1>4. InstallSince' BY <1>0, <1>2, <1>3, PutBack DEF Begun, InstallSince, Dirs
  <1>5. Since' BY <1>0, <1>4 DEF Begun, Since
  <1>6. Agreed' BY <1>1, <1>2, BeginAgrees DEF Account, Stage, Unlocked
  <1>7. DrawnTrash' BY <1>2 DEF Account, DrawnTrash
  <1> QED BY <1>5, <1>6, <1>7 DEF Account

\* set_enabled() begins, with its transaction.
LEMMA SwitchAccount ==
  ASSUME Inductive, Account, NEW p \in Procs, NEW v \in Versions, Enable(p, v) \/ Disable(p, v)
  PROVE  Account'
  <1>1. PICK op \in {"enable", "disable"} : Enter(p, op, v, NoRemoval, "audit") BY DEF Enable, Disable
  <1>0. Begun(p, op, v, NoRemoval, "audit") BY <1>1 DEF Enter, Now, Begun
  <1>2. UNCHANGED <<removed, dirs, trash, used, audited>> BY DEF Enable, Disable, files, ledger
  <1>3. SwitchSince' BY <1>0, <1>2 DEF Begun, SwitchSince
  <1>4. Since' BY <1>0, <1>3 DEF Begun, Since
  <1>5. Agreed' BY <1>1, <1>2, BeginAgrees DEF Account, Enable, Disable, Unlocked
  <1>6. DrawnTrash' BY <1>2 DEF Account, DrawnTrash
  <1> QED BY <1>4, <1>5, <1>6 DEF Account

\* remove() begins, with its rename.
LEMMA MoveToTrashAccount ==
  ASSUME Inductive, Account, NEW p \in Procs, NEW v \in Versions, NEW id \in Removals,
         MoveToTrash(p, v, id)
  PROVE  Account'
  <1>1. Enter(p, "remove", v, id, "moved") BY DEF MoveToTrash
  <1>0. Begun(p, "remove", v, id, "moved") BY <1>1 DEF Enter, Now, Begun
  <1>2. /\ UNCHANGED <<rows, removed, audited>> /\ used' = used \cup {id}
        /\ dirs' = [dirs EXCEPT ![v] = "none"] /\ trash' = [trash EXCEPT ![id] = v]
        /\ id \notin used /\ rows[v] = "disabled" /\ dirs[v] # "none"
    BY DEF MoveToTrash, tables, ledger, SetDir, SetTrash, Removable
  <1>3. dirs \in Dirs /\ trash \in Bin BY DEF Inductive, TypeOK
  <1>4. dirs[v] = "whole" BY <1>2, <1>3 DEF Inductive, NoPartialInstalled, Dirs
  <1>5. removed[id] = NoVersion /\ trash[id] = NoVersion
    BY <1>2 DEF Inductive, DrawnOnce, Account, DrawnTrash
  <1>6. RemoveSince' BY <1>0, <1>2, <1>4, <1>5 DEF Begun, RemoveSince
  <1>7. Since' BY <1>0, <1>6 DEF Begun, Since
  <1>8. Agreed' BY <1>1, <1>2, BeginAgrees DEF Account, MoveToTrash, Unlocked
  <1>9. DrawnTrash' BY <1>2, <1>3 DEF Account, DrawnTrash, Bin
  <1> QED BY <1>7, <1>8, <1>9 DEF Account

\* restore() begins, with its rename.
LEMMA MoveFromTrashAccount ==
  ASSUME Inductive, Account, NEW p \in Procs, NEW id \in Removals, MoveFromTrash(p, id)
  PROVE  Account'
  <1> DEFINE v == removed[id]
  <1>1. Enter(p, "restore", v, id, "moved") BY DEF MoveFromTrash
  <1>0. Begun(p, "restore", v, id, "moved") BY <1>1 DEF Enter, Now, Begun
  <1>2. /\ UNCHANGED <<rows, removed, audited, used>>
        /\ dirs' = [dirs EXCEPT ![v] = "whole"] /\ trash' = [trash EXCEPT ![id] = NoVersion]
        /\ trash[id] = v /\ dirs[v] = "none"
    BY DEF MoveFromTrash, tables, ledger, SetDir, SetTrash
  <1>3. trash \in Bin BY DEF Inductive, TypeOK
  <1>4. RestoreSince'
    <2>1. removed[id] = v OBVIOUS
    <2> HIDE DEF v
    <2> QED BY <1>0, <1>2, <2>1 DEF Begun, RestoreSince
  <1>5. Since'
    <2> HIDE DEF v
    <2> QED BY <1>0, <1>4 DEF Begun, Since
  <1>6. Agreed'
    <2> HIDE DEF v
    <2> QED BY <1>1, <1>2, BeginAgrees DEF Account, MoveFromTrash, Unlocked
  <1>7. DrawnTrash' BY <1>2, <1>3 DEF Account, DrawnTrash, Bin
  <1> QED BY <1>5, <1>6, <1>7 DEF Account

\* install() goes on, or begins to undo itself.
LEMMA InstallAccount ==
  ASSUME Inductive, Account, Publish \/ InsertRow \/ DropRow \/ DropDir PROVE Account'
  <1>1. /\ lock # NoProc /\ frame.pc \in {"staged", "published", "drop_row", "drop_dir"}
        /\ UNCHANGED <<removed, trash, used, audited, lock, before, harm>>
    BY DEF Publish, InsertRow, DropRow, DropDir, At, Go, tables, files, ledger
  <1>2. frame.op = "install" /\ Installing BY <1>1, WhichOperation
  <1>3. TypeOK /\ frame.v \in Versions BY <1>1, Holding
  <1>4. InstallSince /\ (frame.faulted => frame.pc \in Undoing) BY <1>1, <1>2, HoldingAccount
  <1>5. before.rows \in Rows /\ before.dirs \in Dirs BY BeforeTypes
  <1>6. PICK pc \in Pcs \ {"idle"} :
          /\ Go(pc) /\ (frame.pc \in Undoing => pc \in Undoing)
          /\ \/ frame.pc = "staged" /\ pc = "published"
                /\ rows' = rows /\ dirs' = [dirs EXCEPT ![frame.v] = "whole"]
             \/ frame.pc = "published" /\ pc = "audit"
                /\ dirs' = dirs /\ rows' = [rows EXCEPT ![frame.v] = "disabled"]
             \/ frame.pc = "drop_row" /\ pc = "drop_dir"
                /\ dirs' = dirs /\ rows' = [rows EXCEPT ![frame.v] = "absent"]
             \/ frame.pc = "drop_dir" /\ pc = "dropping"
                /\ rows' = rows /\ dirs' = [dirs EXCEPT ![frame.v] = "partial"]
    BY DEF Publish, InsertRow, DropRow, DropDir, At, SetDir, SetRow, tables, files, Pcs, Undoing
  <1>7. /\ frame'.pc = pc /\ frame'.op = frame.op /\ frame'.v = frame.v
        /\ frame'.faulted = frame.faulted
    BY <1>1, <1>3, <1>6, GoTypes DEF TypeOK, Frame, Go
  <1>8. InstallSince' BY <1>1, <1>3, <1>4, <1>5, <1>6, <1>7 DEF InstallSince, Rows, Dirs
  <1>9. "published" \notin Undoing /\ "staged" \notin Undoing BY DEF Undoing
  <1>10. Since' BY <1>1, <1>2, <1>4, <1>6, <1>7, <1>8, <1>9 DEF Since
  <1>11. Agreed' BY <1>1, WithinAgrees DEF Account
  <1>12. DrawnTrash' BY <1>1 DEF Account, DrawnTrash
  <1> QED BY <1>10, <1>11, <1>12 DEF Account

\* remove() and restore() commit, or undo their rename after the append failed.
LEMMA MoveAccount == ASSUME Inductive, Account, CommitMove \/ MoveBack PROVE Account'
  <1>1. /\ lock # NoProc /\ frame.pc \in {"moved", "move_back"}
        /\ UNCHANGED <<used, audited, lock, before, harm>>
    BY DEF CommitMove, MoveBack, At, Go, ledger
  <1>2. /\ frame.id \in Removals /\ frame.v \in Versions
        /\ (frame.op = "remove" /\ Removing) \/ (frame.op = "restore" /\ Restoring)
    BY <1>1, WhichOperation, Holding
  <1>3. TypeOK /\ frame \in Frame /\ rows \in Rows /\ removed \in Bin /\ dirs \in Dirs /\ trash \in Bin
    BY <1>1, Holding DEF TypeOK
  <1>4. /\ frame.op = "remove" => RemoveSince
        /\ frame.op = "restore" => RestoreSince
        /\ frame.faulted => frame.pc \in Undoing
    BY <1>1, HoldingAccount
  <1>5. before.rows \in Rows /\ before.removed \in Bin /\ before.dirs \in Dirs /\ before.trash \in Bin
    BY BeforeTypes
  <1>6. Agreed' BY <1>1, WithinAgrees DEF Account
  <1>7. CASE CommitMove
    <2>1. frame.pc = "moved" /\ UNCHANGED <<dirs, trash>> BY <1>7 DEF CommitMove, At, files
    <2>2. frame' = [frame EXCEPT !.pc = "audit"] BY <1>7 DEF CommitMove, Go
    <2>3. /\ frame'.pc = "audit" /\ frame'.op = frame.op /\ frame'.v = frame.v
          /\ frame'.id = frame.id /\ frame'.faulted = frame.faulted
      BY <1>3, <2>2 DEF Frame
    <2>4. ~frame.faulted BY <1>4, <2>1 DEF Undoing
    <2>5. CASE frame.op = "remove"
      <3>1. RemoveSince BY <1>4, <2>5
      <3>2. Removed(frame.v, frame.id) BY <1>7, <2>5 DEF CommitMove
      <3>3. RemoveSince' BY <1>1, <2>1, <2>3, <3>1, <3>2 DEF RemoveSince, Removed, SetRow, Record
      <3>4. Since' BY <1>1, <2>3, <2>4, <2>5, <3>3 DEF Since
      <3> QED BY <1>1, <1>6, <2>1, <3>4 DEF Account, DrawnTrash
    <2>6. CASE frame.op = "restore"
      <3>1. RestoreSince BY <1>4, <2>6
      <3>2. Restored(frame.v, frame.id) /\ rows[frame.v] = "absent" BY <1>7, <2>6 DEF CommitMove
      <3>3. RestoreSince' BY <1>1, <2>1, <2>3, <3>1, <3>2 DEF RestoreSince, Restored, SetRow, Record
      <3>4. Since' BY <1>1, <2>3, <2>4, <2>6, <3>3 DEF Since
      <3> QED BY <1>1, <1>6, <2>1, <3>4 DEF Account, DrawnTrash
    <2> QED BY <1>2, <2>5, <2>6
  <1>8. CASE MoveBack
    <2>1. frame.pc = "move_back" /\ Unmoved /\ UNCHANGED <<rows, removed>>
      BY <1>8 DEF MoveBack, At, tables
    <2>2. frame' = [frame EXCEPT !.pc = "rows_back"] BY <1>8 DEF MoveBack, Go
    <2>3. /\ frame'.pc = "rows_back" /\ frame'.op = frame.op /\ frame'.v = frame.v
          /\ frame'.id = frame.id
      BY <1>3, <2>2 DEF Frame
    <2>4. "rows_back" \in Undoing BY DEF Undoing
    <2>5. CASE frame.op = "remove"
      <3>1. RemoveSince /\ Removing BY <1>2, <1>4, <2>5
      <3>2. dirs' = [dirs EXCEPT ![frame.v] = "whole"] /\ trash' = [trash EXCEPT ![frame.id] = NoVersion]
        BY <2>1, <2>5 DEF Unmoved, SetTrash, SetDir
      <3>3. dirs' = before.dirs /\ trash' = before.trash
        BY <1>2, <1>5, <2>1, <3>1, <3>2 DEF RemoveSince, Dirs, Bin
      <3>4. RemoveSince' BY <1>1, <2>1, <2>3, <3>1, <3>3 DEF RemoveSince
      <3>5. Since' BY <1>1, <2>3, <2>4, <2>5, <3>4 DEF Since
      <3>6. DrawnTrash' BY <1>1, <1>2, <1>3, <3>2 DEF Account, DrawnTrash, Bin
      <3> QED BY <1>6, <3>5, <3>6 DEF Account
    <2>6. CASE frame.op = "restore"
      <3>1. RestoreSince /\ Restoring BY <1>2, <1>4, <2>6
      <3>2. dirs' = [dirs EXCEPT ![frame.v] = "none"] /\ trash' = [trash EXCEPT ![frame.id] = frame.v]
        BY <2>1, <2>6 DEF Unmoved, SetTrash, SetDir
      <3>3. dirs' = before.dirs /\ trash' = before.trash
        BY <1>2, <1>5, <2>1, <3>1, <3>2 DEF RestoreSince, Dirs, Bin
      <3>4. RestoreSince' BY <1>1, <2>1, <2>3, <3>1, <3>3 DEF RestoreSince
      <3>5. Since' BY <1>1, <2>3, <2>4, <2>6, <3>4 DEF Since
      <3>6. DrawnTrash' BY <1>1, <1>2, <1>3, <3>1, <3>2 DEF Account, DrawnTrash, Bin, Restoring
      <3> QED BY <1>6, <3>5, <3>6 DEF Account
    <2> QED BY <1>2, <2>5, <2>6
  <1> QED BY <1>7, <1>8

\* An undo that goes through leaves everything as the operation found it.
LEMMA UndoneIsBefore ==
  ASSUME Inductive, Account, DropRest \/ StatesBack \/ Unmove \/ RowsBack
  PROVE  /\ Now' = before /\ DrawnTrash'
         /\ lock # NoProc /\ lock' = NoProc /\ UNCHANGED <<audited, harm>>
  <1>1. /\ lock # NoProc /\ frame.pc \in {"dropping", "states_back", "unmove", "rows_back"}
        /\ lock' = NoProc /\ UNCHANGED <<used, audited, harm, before>>
    BY DEF DropRest, StatesBack, Unmove, RowsBack, At, Leave, ledger
  <1>2. TypeOK /\ frame.v \in Versions /\ rows \in Rows /\ removed \in Bin /\ dirs \in Dirs /\ trash \in Bin
    BY <1>1, Holding
  <1>3. before \in [rows : Rows, removed : Bin, dirs : Dirs, trash : Bin] BY <1>2 DEF TypeOK
  <1>4. before.rows \in Rows /\ before.removed \in Bin /\ before.dirs \in Dirs /\ before.trash \in Bin
    BY BeforeTypes
  <1>5. SUFFICES /\ rows' = before.rows /\ removed' = before.removed
                 /\ dirs' = before.dirs /\ trash' = before.trash /\ DrawnTrash'
    BY <1>1, <1>3 DEF Now
  <1>6. CASE DropRest
    <2>1. frame.pc = "dropping" /\ UNCHANGED <<rows, removed, trash>>
          /\ dirs' = [dirs EXCEPT ![frame.v] = "none"]
      BY <1>6 DEF DropRest, At, SetDir, tables
    <2>2. InstallSince BY <1>1, <2>1, WhichOperation, HoldingAccount
    <2>3. rows = before.rows /\ removed = before.removed /\ trash = before.trash
      BY <2>1, <2>2 DEF InstallSince
    <2>4. dirs = [before.dirs EXCEPT ![frame.v] = "partial"] /\ before.dirs[frame.v] = "none"
      BY <2>1, <2>2 DEF InstallSince
    <2>5. dirs' = before.dirs BY <1>2, <1>4, <2>1, <2>4 DEF Dirs
    <2>6. DrawnTrash' BY <1>1, <2>1 DEF Account, DrawnTrash
    <2> QED BY <2>1, <2>3, <2>5, <2>6
  <1>7. CASE StatesBack
    <2>1. frame.pc = "states_back" /\ UNCHANGED <<removed, dirs, trash>> /\ rows' = before.rows
      BY <1>7 DEF StatesBack, At, files
    <2>2. SwitchSince BY <1>1, <2>1, WhichOperation, HoldingAccount
    <2>3. DrawnTrash' BY <1>1, <2>1 DEF Account, DrawnTrash
    <2> QED BY <2>1, <2>2, <2>3 DEF SwitchSince
  <1>8. /\ frame.pc \in {"unmove", "rows_back"} => frame.id \in Removals
        /\ frame.pc \in {"unmove", "rows_back"}
             => (frame.op = "remove" /\ Removing /\ RemoveSince)
                \/ (frame.op = "restore" /\ Restoring /\ RestoreSince)
    BY <1>1, WhichOperation, HoldingAccount
  <1>9. CASE Unmove
    <2>1. frame.pc = "unmove" /\ Unmoved /\ UNCHANGED <<rows, removed>> BY <1>9 DEF Unmove, At, tables
    <2>2. rows = before.rows /\ removed = before.removed
      BY <1>8, <2>1 DEF RemoveSince, RestoreSince
    <2>3. CASE frame.op = "remove"
      <3>1. dirs' = [dirs EXCEPT ![frame.v] = "whole"] /\ trash' = [trash EXCEPT ![frame.id] = NoVersion]
        BY <2>1, <2>3 DEF Unmoved, SetTrash, SetDir
      <3>2. dirs' = before.dirs /\ trash' = before.trash
        <4>1. RemoveSince BY <1>8, <2>1, <2>3
        <4>2. dirs' = before.dirs BY <1>2, <1>4, <2>1, <3>1, <4>1 DEF RemoveSince, Dirs
        <4>3. trash' = before.trash BY <1>4, <1>8, <2>1, <3>1, <4>1 DEF RemoveSince, Bin
        <4> QED BY <4>2, <4>3
      <3>3. DrawnTrash' BY <1>1, <1>2, <1>8, <2>1, <3>1 DEF Account, DrawnTrash, Bin
      <3> QED BY <2>1, <2>2, <3>2, <3>3
    <2>4. CASE frame.op = "restore"
      <3>1. dirs' = [dirs EXCEPT ![frame.v] = "none"] /\ trash' = [trash EXCEPT ![frame.id] = frame.v]
        BY <2>1, <2>4 DEF Unmoved, SetTrash, SetDir
      <3>2. dirs' = before.dirs /\ trash' = before.trash
        <4>1. RestoreSince BY <1>8, <2>1, <2>4
        <4>2. dirs' = before.dirs BY <1>2, <1>4, <2>1, <3>1, <4>1 DEF RestoreSince, Dirs
        <4>3. trash' = before.trash BY <1>4, <1>8, <2>1, <3>1, <4>1 DEF RestoreSince, Bin
        <4> QED BY <4>2, <4>3
      <3>3. DrawnTrash' BY <1>1, <1>2, <1>8, <2>1, <2>4, <3>1 DEF Account, DrawnTrash, Bin, Restoring
      <3> QED BY <2>1, <2>2, <3>2, <3>3
    <2> QED BY <1>8, <2>1, <2>3, <2>4
  <1>10. CASE RowsBack
    <2>1. frame.pc = "rows_back" /\ UNCHANGED <<dirs, trash>> BY <1>10 DEF RowsBack, At, files
    <2>2. dirs = before.dirs /\ trash = before.trash BY <1>8, <2>1 DEF RemoveSince, RestoreSince
    <2>3. DrawnTrash' BY <1>1, <2>1 DEF Account, DrawnTrash
    <2>4. CASE frame.op = "remove"
      <3>1. /\ rows' = [rows EXCEPT ![frame.v] = "disabled"]
            /\ removed' = [removed EXCEPT ![frame.id] = NoVersion]
        BY <1>10, <2>4 DEF RowsBack, Restored, SetRow, Record
      <3>2. rows' = before.rows /\ removed' = before.removed
        BY <1>2, <1>4, <1>8, <2>1, <2>4, <3>1 DEF RemoveSince, Rows, Bin
      <3> QED BY <2>1, <2>2, <2>3, <3>2
    <2>5. CASE frame.op = "restore"
      <3>1. /\ rows' = [rows EXCEPT ![frame.v] = "absent"]
            /\ removed' = [removed EXCEPT ![frame.id] = frame.v]
        BY <1>8, <1>10, <2>5 DEF RowsBack, Removed, SetRow, Record
      <3>2. rows' = before.rows /\ removed' = before.removed
        BY <1>2, <1>4, <1>8, <2>1, <2>5, <3>1 DEF RestoreSince, Rows, Bin
      <3> QED BY <2>1, <2>2, <2>3, <3>2
    <2> QED BY <1>8, <2>1, <2>4, <2>5
  <1> QED BY <1>6, <1>7, <1>9, <1>10

\* An undo that goes through keeps the account.
LEMMA UndoneAccount ==
  ASSUME Inductive, Account, DropRest \/ StatesBack \/ Unmove \/ RowsBack PROVE Account'
  BY UndoneIsBefore, UndoneAgrees

\* The event of an operation says just what the operation did.
LEMMA ReportAccount == ASSUME Inductive, Account, Report PROVE Account'
  <1>1. /\ lock # NoProc /\ frame.pc = "audit" /\ lock' = NoProc
        /\ UNCHANGED <<rows, removed, dirs, trash, used, harm>> /\ audited' = Replayed
    BY DEF Report, At, Leave, tables, files
  <1>2. DrawnTrash' BY <1>1 DEF Account, DrawnTrash
  <1>3. Since' BY <1>1 DEF Since
  <1>4. frame.v \in Versions /\ frame.op \in Ops BY <1>1, Holding
  <1>5. before.rows \in Rows /\ before.removed \in Bin /\ before.dirs \in Dirs /\ before.trash \in Bin
    BY BeforeTypes
  <1>6. ASSUME ~harm PROVE Sound(Now)' /\ audited' = rows'
    <2>1. Sound(before) /\ audited = before.rows BY <1>1, <1>6, HoldingAccount
    <2>2. before.trash = before.removed
          /\ \A v \in Versions : before.dirs[v] = IF before.rows[v] = "absent" THEN "none" ELSE "whole"
      BY <2>1 DEF Sound
    <2>3. SUFFICES /\ \A v \in Versions : dirs[v] = IF rows[v] = "absent" THEN "none" ELSE "whole"
                   /\ trash = removed /\ Replayed = rows
      BY <1>1 DEF Sound, Now
    <2>4. CASE frame.op = "install"
      <3>1. InstallSince BY <1>1, <2>4, HoldingAccount
      <3>2. /\ rows = [before.rows EXCEPT ![frame.v] = "disabled"]
            /\ dirs = [before.dirs EXCEPT ![frame.v] = "whole"]
            /\ removed = before.removed /\ trash = before.trash
        BY <1>1, <3>1 DEF InstallSince
      <3>3. Replayed = [audited EXCEPT ![frame.v] = "disabled"] BY <2>4 DEF Replayed
      <3> QED BY <1>4, <1>5, <2>1, <2>2, <3>2, <3>3 DEF Rows, Dirs
    <2>5. CASE frame.op = "remove"
      <3>1. RemoveSince BY <1>1, <2>5, HoldingAccount
      <3>2. /\ rows = [before.rows EXCEPT ![frame.v] = "absent"]
            /\ dirs = [before.dirs EXCEPT ![frame.v] = "none"]
            /\ removed = [before.removed EXCEPT ![frame.id] = frame.v]
            /\ trash = [before.trash EXCEPT ![frame.id] = frame.v]
        BY <1>1, <3>1 DEF RemoveSince
      <3>3. Replayed = [audited EXCEPT ![frame.v] = "absent"] BY <2>5 DEF Replayed
      <3> QED BY <1>4, <1>5, <2>1, <2>2, <3>2, <3>3 DEF Rows, Dirs
    <2>6. CASE frame.op = "restore"
      <3>1. RestoreSince BY <1>1, <2>6, HoldingAccount
      <3>2. /\ rows = [before.rows EXCEPT ![frame.v] = "disabled"]
            /\ dirs = [before.dirs EXCEPT ![frame.v] = "whole"]
            /\ removed = [before.removed EXCEPT ![frame.id] = NoVersion]
            /\ trash = [before.trash EXCEPT ![frame.id] = NoVersion]
        BY <1>1, <3>1 DEF RestoreSince
      <3>3. Replayed = [audited EXCEPT ![frame.v] = "disabled"] BY <2>6 DEF Replayed
      <3> QED BY <1>4, <1>5, <2>1, <2>2, <3>2, <3>3 DEF Rows, Dirs
    <2>7. CASE frame.op \in {"enable", "disable"}
      <3>1. SwitchSince /\ Switching BY <1>1, <2>7, HoldingAccount, Holding
      <3>2. removed = before.removed /\ dirs = before.dirs /\ trash = before.trash
        BY <3>1 DEF SwitchSince
      <3>3. /\ rows = IF frame.op = "enable" THEN EnableOnly(before.rows, frame.v)
                                             ELSE [before.rows EXCEPT ![frame.v] = "disabled"]
            /\ before.rows[frame.v] # "absent"
        BY <3>1 DEF Switching
      <3>4. Replayed = rows BY <2>1, <2>7, <3>3 DEF Replayed
      <3>5. \A v \in Versions : rows[v] = "absent" <=> before.rows[v] = "absent"
        <4>1. CASE frame.op = "enable" BY <1>4, <1>5, <3>3, <4>1, EnableOnlyTypes
        <4>2. CASE frame.op = "disable" BY <1>4, <1>5, <3>3, <4>2 DEF Rows
        <4> QED BY <2>7, <4>1, <4>2
      <3> QED BY <2>2, <3>2, <3>4, <3>5
    <2> QED BY <1>4, <2>4, <2>5, <2>6, <2>7 DEF Ops
  <1>7. Agreed' BY <1>1, <1>6 DEF Agreed
  <1> QED BY <1>2, <1>3, <1>7 DEF Account

\* Turning to the undo, when the append, the commit or the insertion fails.
LEMMA TurnAccount ==
  ASSUME Inductive, Account, NEW pc \in Undoing, lock # NoProc, lock' = lock,
         frame' = [frame EXCEPT !.pc = pc, !.faulted = TRUE],
         UNCHANGED <<rows, removed, dirs, trash, used, before>>,
         ~harm' => ~harm /\ audited' = audited,
         \/ frame.op = "install" /\ frame.pc = "audit" /\ pc = "drop_row"
         \/ frame.op = "install" /\ frame.pc = "published" /\ pc = "drop_dir"
         \/ frame.op \in {"remove", "restore"} /\ frame.pc = "audit" /\ pc = "move_back"
         \/ frame.op \in {"remove", "restore"} /\ frame.pc = "moved" /\ pc = "unmove"
         \/ frame.op \in {"enable", "disable"} /\ frame.pc = "audit" /\ pc = "states_back"
  PROVE  Account'
  <1>1. frame \in Frame BY Holding DEF TypeOK
  <1>2. /\ frame'.pc = pc /\ frame'.op = frame.op /\ frame'.v = frame.v
        /\ frame'.id = frame.id /\ frame'.faulted = TRUE
    BY <1>1 DEF Frame
  <1>3. frame.op = "install" => InstallSince' BY <1>2, HoldingAccount DEF InstallSince
  <1>4. frame.op = "remove" => RemoveSince' BY <1>2, HoldingAccount DEF RemoveSince
  <1>5. frame.op = "restore" => RestoreSince' BY <1>2, HoldingAccount DEF RestoreSince
  <1>6. frame.op \in {"enable", "disable"} => SwitchSince' BY <1>2, HoldingAccount DEF SwitchSince
  <1>7. Since' BY <1>2, <1>3, <1>4, <1>5, <1>6 DEF Since
  <1>8. Agreed' BY WithinAgrees DEF Account
  <1>9. DrawnTrash' BY DEF Account, DrawnTrash
  <1> QED BY <1>7, <1>8, <1>9 DEF Account

\* A failed append, and a restoration of a version that was installed again.
LEMMA RefusedAccount == ASSUME Inductive, Account, ReportFails \/ Duplicate PROVE Account'
  <1>1. CASE ReportFails
    <2>1. /\ lock # NoProc /\ frame.pc = "audit" /\ lock' = lock
          /\ frame' = [frame EXCEPT !.pc = Undo, !.faulted = TRUE]
          /\ UNCHANGED <<rows, removed, dirs, trash, used, before>>
      BY <1>1 DEF ReportFails, At, tables, files
    <2>2. ~harm' => ~harm /\ audited' = audited BY <1>1 DEF ReportFails, ledger
    <2>3. frame.op \in Ops BY <2>1, Holding
    <2>4. Undo \in Undoing
          /\ \/ frame.op = "install" /\ Undo = "drop_row"
             \/ frame.op \in {"remove", "restore"} /\ Undo = "move_back"
             \/ frame.op \in {"enable", "disable"} /\ Undo = "states_back"
      BY <2>3 DEF Undo, Undoing, Ops
    <2> QED BY <2>1, <2>2, <2>4, TurnAccount
  <1>2. CASE Duplicate
    <2>1. /\ lock # NoProc /\ frame.pc = "moved" /\ frame.op = "restore" /\ lock' = lock
          /\ frame' = [frame EXCEPT !.pc = "unmove", !.faulted = TRUE]
          /\ UNCHANGED <<rows, removed, dirs, trash, used, before, audited, harm>>
      BY <1>2 DEF Duplicate, At, tables, files, ledger
    <2>2. "unmove" \in Undoing BY DEF Undoing
    <2> QED BY <2>1, <2>2, TurnAccount
  <1> QED BY <1>1, <1>2

\* A failure before anything is published, of a later step, or of the undo itself.
LEMMA FaultAccount == ASSUME Inductive, Account, Fault PROVE Account'
  <1>1. lock # NoProc /\ UNCHANGED <<rows, removed, dirs, trash, used, audited, before>>
    BY DEF Fault, tables, files, ledger
  <1>2. DrawnTrash' BY <1>1 DEF Account, DrawnTrash
  <1>3. CASE frame.pc = "staged"
    <2>1. lock' = NoProc /\ harm' = harm BY <1>3 DEF Fault, Undoing
    <2>2. InstallSince /\ before \in [rows : Rows, removed : Bin, dirs : Dirs, trash : Bin]
      BY <1>1, <1>3, WhichOperation, HoldingAccount DEF Inductive, TypeOK
    <2>3. rows = before.rows /\ removed = before.removed /\ trash = before.trash
      BY <1>3, <2>2 DEF InstallSince
    <2>4. dirs = before.dirs BY <1>3, <2>2 DEF InstallSince, Dirs
    <2>5. Now' = before BY <1>1, <2>2, <2>3, <2>4 DEF Now
    <2> QED BY <1>1, <1>2, <2>1, <2>5, UndoneAgrees
  <1>4. CASE frame.pc \in {"published", "moved"}
    <2> DEFINE pc == IF frame.pc = "moved" THEN "unmove" ELSE "drop_dir"
    <2>1. frame \in Frame BY <1>1, Holding DEF TypeOK
    <2>2. lock' = lock /\ harm' = harm
          /\ frame' = [frame EXCEPT !.pc = IF @ = "moved" THEN "unmove" ELSE "drop_dir", !.faulted = TRUE]
      BY <1>4 DEF Fault, Undoing
    <2>3. frame' = [frame EXCEPT !.pc = pc, !.faulted = TRUE] BY <2>2
    <2>4. pc \in Undoing BY <1>4 DEF Undoing
    <2>5. \/ frame.op = "install" /\ frame.pc = "published" /\ pc = "drop_dir"
          \/ frame.op \in {"remove", "restore"} /\ frame.pc = "moved" /\ pc = "unmove"
      BY <1>1, <1>4, WhichOperation
    <2> HIDE DEF pc
    <2> QED BY <1>1, <2>2, <2>3, <2>4, <2>5, TurnAccount
  <1>5. CASE frame.pc \notin {"staged", "published", "moved"}
    <2>1. lock' = NoProc /\ harm' = TRUE BY <1>5 DEF Fault
    <2> QED BY <1>2, <2>1 DEF Account, Since, Agreed
  <1> QED BY <1>3, <1>4, <1>5

\* Every step of the registry keeps the account.
LEMMA StepAccount == ASSUME Inductive, Account, [Next]_vars PROVE Account'
  <1>1. CASE UNCHANGED vars
    <2>1. Since' BY <1>1 DEF Account, vars, Since, InstallSince, RemoveSince, RestoreSince, SwitchSince
    <2>2. DrawnTrash' /\ Agreed' BY <1>1 DEF Account, vars, DrawnTrash, Agreed, Sound, Now
    <2> QED BY <2>1, <2>2 DEF Account
  <1>2. ASSUME NEW p \in Procs, NEW v \in Versions,
               \/ Stage(p, v) \/ Enable(p, v) \/ Disable(p, v)
               \/ \E id \in Removals : MoveToTrash(p, v, id)
        PROVE  Account'
    BY <1>2, StageAccount, SwitchAccount, MoveToTrashAccount
  <1>3. ASSUME NEW p \in Procs, NEW id \in Removals, MoveFromTrash(p, id) PROVE Account'
    BY <1>3, MoveFromTrashAccount
  <1>4. CASE Crash
    <2>1. lock' = NoProc /\ harm' = TRUE /\ UNCHANGED <<trash, used>> BY <1>4 DEF Crash, files
    <2> QED BY <2>1 DEF Account, Since, DrawnTrash, Agreed
  <1> QED BY <1>1, <1>2, <1>3, <1>4, InstallAccount, MoveAccount, UndoneAccount, ReportAccount,
             RefusedAccount, FaultAccount DEF Next

\* An empty registry keeps its account.
LEMMA InitAccount == Init => Account
  BY DEF Init, Account, Since, DrawnTrash, Agreed, Sound, Now

\* At every step of every operation, what has changed since the lock was taken is
\* known, which is what its undo puts back.
THEOREM RegistryAccount == Spec => []Account
  <1>1. Inductive /\ Account /\ [Next]_vars => Account' BY StepAccount
  <1> QED BY <1>1, InitAccount, RegistryInvariant, PTL DEF Spec

\* Unless an operation was cut short or its undo failed, rows, directories, trash and
\* audit ledger agree whenever the lock of the registry is free (install, set_enabled,
\* remove and restore, with their except clauses).
THEOREM RestConsistent == Spec => []RestIsConsistent
  <1>1. Account => RestIsConsistent
    BY DEF Account, Agreed, RestIsConsistent, Unlocked, Sound, Now
  <1> QED BY <1>1, RegistryAccount, PTL

\* A step that ends a failed operation, without failing itself, is the end of its undo.
LEMMA FailedStep ==
  ASSUME Inductive, Account, [Next]_vars, lock # NoProc, lock' = NoProc, frame.faulted,
         UNCHANGED <<faults, crashes>>
  PROVE  Now' = before
  <1>1. ~UNCHANGED vars BY DEF vars
  <1>2. frame.pc \in Undoing BY HoldingAccount
  <1>3. faults \in Nat /\ crashes \in Nat BY DEF Inductive, TypeOK
  <1>4. ~Fault /\ ~Crash BY <1>3 DEF Fault, Crash
  <1>5. ~Report /\ ~ReportFails /\ ~Duplicate
    BY <1>2 DEF Report, ReportFails, Duplicate, At, Undoing
  <1>6. ~Publish /\ ~InsertRow /\ ~CommitMove /\ ~DropRow /\ ~DropDir /\ ~MoveBack
    BY DEF Publish, InsertRow, CommitMove, DropRow, DropDir, MoveBack, Go
  <1>7. ~ \E p \in Procs, v \in Versions :
            \/ Stage(p, v) \/ Enable(p, v) \/ Disable(p, v)
            \/ \E id \in Removals : MoveToTrash(p, v, id)
    BY DEF Stage, Enable, Disable, MoveToTrash, Unlocked
  <1>8. ~ \E p \in Procs, id \in Removals : MoveFromTrash(p, id) BY DEF MoveFromTrash, Unlocked
  <1>9. DropRest \/ StatesBack \/ Unmove \/ RowsBack
    BY <1>1, <1>4, <1>5, <1>6, <1>7, <1>8 DEF Next
  <1> QED BY <1>9, UndoneIsBefore

\* install, set_enabled, remove and restore: when one raises and its except clause
\* went through, rows, removal records, directories and trash are what they were
\* when it took the lock, whatever had failed or crashed before.
THEOREM FailureChangesNothing == Spec => FailedChangesNothing
  <1>1. Inductive /\ Account /\ [Next]_vars
          => [lock # NoProc /\ lock' = NoProc /\ frame.faulted /\ UNCHANGED <<faults, crashes>>
                => Now' = before]_vars
    BY FailedStep
  <1> QED BY <1>1, RegistryInvariant, RegistryAccount, PTL DEF Spec, FailedChangesNothing
=============================================================================
