--------------------------- MODULE PluginCatalog ---------------------------
(***************************************************************************)
(* What the plugin registry promises of one plugin: a catalog whose        *)
(* versions are installed disabled, of which at most one is enabled, and   *)
(* where a disabled version can be removed to a bin and taken out again.   *)
(* Every operation is one step.                                            *)
(***************************************************************************)
CONSTANTS Versions, Removals, NoVersion

VARIABLES
  installed,  \* version -> "absent", "disabled" or "enabled"
  bin         \* removal id -> the version removed under it, or NoVersion

Init == installed = [v \in Versions |-> "absent"] /\ bin = [id \in Removals |-> NoVersion]

Install(v) ==
  /\ installed[v] = "absent"
  /\ installed' = [installed EXCEPT ![v] = "disabled"] /\ UNCHANGED bin

\* An installation that could not be audited is withdrawn.
Withdraw(v) ==
  /\ installed[v] = "disabled"
  /\ installed' = [installed EXCEPT ![v] = "absent"] /\ UNCHANGED bin

Enable(v) ==
  /\ installed[v] # "absent"
  /\ installed' = [w \in Versions |-> IF w = v THEN "enabled"
                     ELSE IF installed[w] = "enabled" THEN "disabled" ELSE installed[w]]
  /\ UNCHANGED bin

Disable(v) ==
  /\ installed[v] # "absent"
  /\ installed' = [installed EXCEPT ![v] = "disabled"] /\ UNCHANGED bin

Remove(v, id) ==
  /\ installed[v] = "disabled" /\ bin[id] = NoVersion
  /\ installed' = [installed EXCEPT ![v] = "absent"]
  /\ bin' = [bin EXCEPT ![id] = v]

Restore(v, id) ==
  /\ bin[id] = v /\ installed[v] = "absent"
  /\ installed' = [installed EXCEPT ![v] = "disabled"]
  /\ bin' = [bin EXCEPT ![id] = NoVersion]

Next ==
  \E v \in Versions :
    \/ Install(v) \/ Withdraw(v) \/ Enable(v) \/ Disable(v)
    \/ \E id \in Removals : Remove(v, id) \/ Restore(v, id)

Spec == Init /\ [][Next]_<<installed, bin>>
=============================================================================
