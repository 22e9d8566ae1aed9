----------------------------- MODULE JobLedger -----------------------------
(***************************************************************************)
(* What the receipts of zeaz-sandbox promise about a job, however many     *)
(* calls are made for it and however often the service crashes: a job is   *)
(* begun only while it is neither running nor decided, and is decided at   *)
(* most once.  Sandbox implements this specification.                      *)
(***************************************************************************)
CONSTANTS Jobs, Receipt, NoReceipt

VARIABLES
  running,   \* the jobs some call is working on
  receipt    \* job -> its receipt, or NoReceipt

Init == running = {} /\ receipt = [j \in Jobs |-> NoReceipt]

Begin(j) ==
  /\ j \notin running /\ receipt[j] = NoReceipt
  /\ running' = running \cup {j}
  /\ UNCHANGED receipt

\* Decided at the end of a run, or by a rejection before or during one.
Decide(j) ==
  /\ receipt[j] = NoReceipt
  /\ \E r \in Receipt : receipt' = [receipt EXCEPT ![j] = r]
  /\ running' = running \/ (j \in running /\ running' = running \ {j})

\* A run that ends after its job was decided leaves no trace.
Abandon(j) ==
  /\ j \in running /\ receipt[j] # NoReceipt
  /\ running' = running \ {j}
  /\ UNCHANGED receipt

LoseAll == running' = {} /\ UNCHANGED receipt

Next == (\E j \in Jobs : Begin(j) \/ Decide(j) \/ Abandon(j)) \/ LoseAll

Spec == Init /\ [][Next]_<<running, receipt>>
=============================================================================
