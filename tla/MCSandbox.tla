------------------------------ MODULE MCSandbox ------------------------------
(***************************************************************************)
(* Instances of Sandbox for TLC.  Calls are interchangeable: no definition *)
(* of Sandbox tells one from another, so safety runs may use CallSymmetry. *)
(***************************************************************************)
EXTENDS Sandbox, TLC

CallSymmetry == Permutations(Calls)
=============================================================================
