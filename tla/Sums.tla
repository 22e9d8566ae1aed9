--------------------------------- MODULE Sums ---------------------------------
(***************************************************************************)
(* Sums of the first values of a function, for the properties that say     *)
(* that what was counted step by step is the sum of its parts, and the     *)
(* numbers of a set in their order.                                        *)
(***************************************************************************)
EXTENDS Integers, FiniteSets

\* g[1] + ... + g[n].
SumTo(g, n) ==
  LET sums[k \in 0..n] == IF k = 0 THEN 0 ELSE sums[k - 1] + g[k]
  IN  sums[n]

\* How many numbers of S come before x.
Below(S, x) == Cardinality({y \in S : y < x})

\* The numbers of S, the lesser ones first.
Ascending(S) == [i \in 1..Cardinality(S) |-> CHOOSE x \in S : Below(S, x) = i - 1]

=============================================================================
