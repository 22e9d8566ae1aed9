------------------------------ MODULE SumProofs ------------------------------
(***************************************************************************)
(* What the proofs about several modules need of numbers: that of some     *)
(* natural numbers one is the least, that the sums of a function exist and *)
(* what the sum becomes when one value is added or changes.  Induction     *)
(* over the natural numbers is an argument about the least exception.      *)
(***************************************************************************)
EXTENDS Sums, Sequences, FiniteSets, FiniteSetTheorems, WellFoundedInduction, TLAPS

\* Of some natural numbers one is the least.
LEMMA Least ==
  ASSUME NEW T \in SUBSET Nat, T # {}
  PROVE  \E x \in T : \A y \in T : x <= y
  <1> DEFINE R == {ss \in Nat \X Nat : ss[1] < ss[2]}
  <1>1. IsWellFoundedOn(R, Nat) BY NatLessThanWellFounded DEF OpToRel
  <1>2. \E x \in T : \A y \in T : ~ (<<y, x>> \in R)
    <2> HIDE DEF R
    <2> QED BY <1>1, WFMin
  <1>3. \A x, y \in T : ~ (<<y, x>> \in R) => x <= y OBVIOUS
  <1> QED BY <1>2, <1>3

\* Of some natural numbers that have a bound one is the greatest.
LEMMA Greatest ==
  ASSUME NEW n \in Nat, NEW T \in SUBSET (0..n), T # {}
  PROVE  \E x \in T : \A y \in T : x >= y
  <1> DEFINE D == {m \in 0..n : n - m \in T}
  <1>1. D \in SUBSET Nat OBVIOUS
  <1>2. D # {}
    <2>1. PICK x \in T : TRUE OBVIOUS
    <2>2. n - x \in 0..n /\ n - (n - x) = x BY <2>1
    <2> QED BY <2>1, <2>2
  <1>3. PICK m \in D : \A l \in D : m <= l
    <2> HIDE DEF D
    <2> QED BY <1>1, <1>2, Least
  <1>4. n - m \in T BY <1>3
  <1>5. ASSUME NEW y \in T PROVE n - m >= y
    <2>1. y \in 0..n /\ n - y \in 0..n /\ n - (n - y) = y OBVIOUS
    <2>2. m <= n - y BY <1>3, <2>1
    <2> QED BY <1>3, <2>1, <2>2
  <1> QED BY <1>4, <1>5

\* A sequence with one more item.
LEMMA Appended ==
  ASSUME NEW S, NEW s \in Seq(S), NEW x \in S
  PROVE  /\ Append(s, x) \in Seq(S) /\ Len(Append(s, x)) = Len(s) + 1 /\ Len(s) \in Nat
         /\ Append(s, x)[Len(s) + 1] = x
         /\ \A i \in 1..Len(s) : Append(s, x)[i] = s[i]
  OBVIOUS

\* h has the sums of g up to n.
IsSums(h, g, n) ==
  /\ h \in [0..n -> Int]
  /\ h[0] = 0
  /\ \A k \in 1..n : h[k] = h[k - 1] + g[k]

\* There are such sums.
LEMMA SumsExist ==
  ASSUME NEW n \in Nat, NEW g, \A k \in 1..n : g[k] \in Int
  PROVE  \E h : IsSums(h, g, n)
  <1> DEFINE T == {m \in 0..n : ~\E h : IsSums(h, g, m)}
  <1>1. SUFFICES ASSUME T # {} PROVE FALSE OBVIOUS
  <1>2. T \in SUBSET Nat OBVIOUS
  <1>3. PICK m \in T : \A l \in T : m <= l
    <2> HIDE DEF T
    <2> QED BY <1>1, <1>2, Least
  <1>4. CASE m = 0
    <2>1. IsSums([k \in 0..0 |-> 0], g, 0) BY DEF IsSums
    <2> QED BY <1>4, <2>1
  <1>5. CASE m # 0
    <2>1. m - 1 \in 0..n /\ m \in 1..n BY <1>5
    <2>2. m - 1 \notin T BY <1>3, <2>1
    <2>3. PICK h : IsSums(h, g, m - 1) BY <2>1, <2>2
    <2>4. PICK j : j = [k \in 0..m |-> IF k = m THEN h[m - 1] + g[m] ELSE h[k]] OBVIOUS
    <2>5. h \in [0..(m - 1) -> Int] /\ g[m] \in Int BY <2>1, <2>3 DEF IsSums
    <2>6. j \in [0..m -> Int] BY <2>1, <2>4, <2>5
    <2>7. j[0] = 0 BY <1>5, <2>1, <2>3, <2>4 DEF IsSums
    <2>8. ASSUME NEW k \in 1..m PROVE j[k] = j[k - 1] + g[k]
      <3>1. k - 1 \in 0..(m - 1) BY <2>1
      <3>2. j[k - 1] = h[k - 1] BY <2>1, <2>4, <3>1
      <3>3. CASE k = m BY <2>1, <2>4, <3>2, <3>3
      <3>4. CASE k # m
        <4>1. k \in 1..(m - 1) BY <2>1, <3>4
        <4> QED BY <2>1, <2>3, <2>4, <3>2, <3>4, <4>1 DEF IsSums
      <3> QED BY <3>3, <3>4
    <2>9. IsSums(j, g, m) BY <2>6, <2>7, <2>8 DEF IsSums
    <2> QED BY <2>9
  <1> QED BY <1>4, <1>5

\* They are the only ones.
LEMMA SumsUnique ==
  ASSUME NEW n \in Nat, NEW g, NEW h, NEW j, IsSums(h, g, n),
         DOMAIN j = 0..n, \A k \in 0..n : j[k] = IF k = 0 THEN 0 ELSE j[k - 1] + g[k]
  PROVE  j[n] = h[n]
  <1> DEFINE T == {m \in 0..n : j[m] # h[m]}
  <1>1. SUFFICES ASSUME T # {} PROVE FALSE OBVIOUS
  <1>2. T \in SUBSET Nat OBVIOUS
  <1>3. PICK m \in T : \A l \in T : m <= l
    <2> HIDE DEF T
    <2> QED BY <1>1, <1>2, Least
  <1>4. m # 0 BY DEF IsSums
  <1>5. m - 1 \in 0..n /\ m \in 1..n /\ ~(m <= m - 1) BY <1>4
  <1>6. j[m - 1] = h[m - 1] BY <1>3, <1>5
  <1>7. j[m] = j[m - 1] + g[m] BY <1>4
  <1>8. h[m] = h[m - 1] + g[m] BY <1>5 DEF IsSums
  <1> QED BY <1>6, <1>7, <1>8

\* The sum is the last of the sums, whatever way they were found.
LEMMA SumIs ==
  ASSUME NEW n \in Nat, NEW g, NEW h, IsSums(h, g, n)
  PROVE  SumTo(g, n) = h[n]
  <1> DEFINE Turn(j) == [k \in 0..n |-> IF k = 0 THEN 0 ELSE j[k - 1] + g[k]]
  <1>1. h = Turn(h)
    <2>1. h \in [0..n -> Int] BY DEF IsSums
    <2>2. \A k \in 0..n : h[k] = IF k = 0 THEN 0 ELSE h[k - 1] + g[k]
      <3> SUFFICES ASSUME NEW k \in 0..n PROVE h[k] = IF k = 0 THEN 0 ELSE h[k - 1] + g[k]
        OBVIOUS
      <3>1. k = 0 \/ k \in 1..n OBVIOUS
      <3> QED BY <3>1 DEF IsSums
    <2> QED BY <2>1, <2>2
  <1>2. PICK j : j = CHOOSE f : f = Turn(f) OBVIOUS
  <1>3. j = Turn(j)
    <2> HIDE DEF Turn
    <2> QED BY <1>1, <1>2
  <1>4. DOMAIN j = 0..n /\ \A k \in 0..n : j[k] = IF k = 0 THEN 0 ELSE j[k - 1] + g[k]
    BY <1>3
  <1>5. j[n] = h[n] BY <1>4, SumsUnique
  <1>6. SumTo(g, n) = j[n] BY <1>2 DEF SumTo
  <1> QED BY <1>5, <1>6

\* The sum of integers is one.
LEMMA SumType ==
  ASSUME NEW n \in Nat, NEW g, \A k \in 1..n : g[k] \in Int
  PROVE  SumTo(g, n) \in Int
  <1>1. PICK h : IsSums(h, g, n) BY SumsExist
  <1>2. SumTo(g, n) = h[n] BY <1>1, SumIs
  <1> QED BY <1>1, <1>2 DEF IsSums

\* Nothing sums up to nothing.
LEMMA SumOfNone ==
  ASSUME NEW n \in Nat, NEW g, \A k \in 1..n : g[k] = 0
  PROVE  SumTo(g, n) = 0
  <1>1. IsSums([k \in 0..n |-> 0], g, n) BY DEF IsSums
  <1> QED BY <1>1, SumIs

\* One more value.
LEMMA SumNext ==
  ASSUME NEW n \in Nat, NEW g, NEW f, \A k \in 1..n : g[k] \in Int /\ f[k] = g[k], f[n + 1] \in Int
  PROVE  SumTo(f, n + 1) = SumTo(g, n) + f[n + 1]
  <1>1. PICK h : IsSums(h, g, n) BY SumsExist
  <1>2. h \in [0..n -> Int] BY <1>1 DEF IsSums
  <1>3. PICK j : j = [k \in 0..(n + 1) |-> IF k = n + 1 THEN h[n] + f[n + 1] ELSE h[k]] OBVIOUS
  <1>4. j \in [0..(n + 1) -> Int] BY <1>2, <1>3
  <1>5. j[0] = 0 BY <1>1, <1>3 DEF IsSums
  <1>6. ASSUME NEW k \in 1..(n + 1) PROVE j[k] = j[k - 1] + f[k]
    <2>1. j[k - 1] = h[k - 1] BY <1>3
    <2>2. CASE k = n + 1 BY <1>3, <2>1, <2>2
    <2>3. CASE k # n + 1
      <3>1. k \in 1..n BY <2>3
      <3> QED BY <1>1, <1>3, <2>1, <2>3, <3>1 DEF IsSums
    <2> QED BY <2>2, <2>3
  <1>7. IsSums(j, f, n + 1) BY <1>4, <1>5, <1>6 DEF IsSums
  <1>8. SumTo(f, n + 1) = j[n + 1] BY <1>7, SumIs
  <1>9. SumTo(g, n) = h[n] BY <1>1, SumIs
  <1> QED BY <1>3, <1>8, <1>9

\* One value is another.
LEMMA SumChanges ==
  ASSUME NEW n \in Nat, NEW g, NEW f, NEW i \in 1..n,
         \A k \in 1..n : g[k] \in Int /\ f[k] \in Int /\ (k # i => f[k] = g[k])
  PROVE  SumTo(f, n) = SumTo(g, n) + f[i] - g[i]
  <1>1. PICK h : IsSums(h, g, n) BY SumsExist
  <1>2. h \in [0..n -> Int] /\ g[i] \in Int /\ f[i] \in Int BY <1>1 DEF IsSums
  <1>3. PICK j : j = [k \in 0..n |-> IF k >= i THEN h[k] + f[i] - g[i] ELSE h[k]] OBVIOUS
  <1>4. j \in [0..n -> Int] BY <1>2, <1>3
  <1>5. j[0] = 0 BY <1>1, <1>3 DEF IsSums
  <1>6. ASSUME NEW k \in 1..n PROVE j[k] = j[k - 1] + f[k]
    <2>1. /\ h[k] = h[k - 1] + g[k] /\ h[k] \in Int /\ h[k - 1] \in Int
          /\ g[k] \in Int /\ f[k] \in Int /\ (k # i => f[k] = g[k])
      BY <1>1, <1>2 DEF IsSums
    <2>2. k \in 0..n /\ k - 1 \in 0..n OBVIOUS
    <2>3. CASE k = i BY <1>2, <1>3, <2>1, <2>2, <2>3
    <2>4. CASE k < i BY <1>2, <1>3, <2>1, <2>2, <2>4
    <2>5. CASE k > i BY <1>2, <1>3, <2>1, <2>2, <2>5
    <2> QED BY <2>3, <2>4, <2>5
  <1>7. IsSums(j, f, n) BY <1>4, <1>5, <1>6 DEF IsSums
  <1>8. SumTo(f, n) = j[n] BY <1>7, SumIs
  <1>9. SumTo(g, n) = h[n] BY <1>1, SumIs
  <1> QED BY <1>2, <1>3, <1>8, <1>9

\* The same values have the same sum.
LEMMA SumSame ==
  ASSUME NEW n \in Nat, NEW g, NEW f, \A k \in 1..n : g[k] \in Int /\ f[k] = g[k]
  PROVE  SumTo(f, n) = SumTo(g, n)
  <1>1. PICK h : IsSums(h, g, n) BY SumsExist
  <1>2. IsSums(h, f, n) BY <1>1 DEF IsSums
  <1> QED BY <1>1, <1>2, SumIs

\* More values that are natural numbers do not lessen the sum.
LEMMA SumGrows ==
  ASSUME NEW n \in Nat, NEW m \in Nat, n <= m, NEW g, \A k \in 1..m : g[k] \in Nat
  PROVE  SumTo(g, n) \in Int /\ SumTo(g, m) \in Int /\ SumTo(g, n) <= SumTo(g, m)
  <1>1. \A l \in n..m : SumTo(g, l) \in Int
    <2> TAKE l \in n..m
    <2>1. l \in Nat /\ \A k \in 1..l : g[k] \in Int OBVIOUS
    <2> QED BY <2>1, SumType
  <1> DEFINE T == {l \in n..m : ~(SumTo(g, n) <= SumTo(g, l))}
  <1>2. SUFFICES ASSUME T # {} PROVE FALSE
    <2>1. n \in n..m /\ m \in n..m OBVIOUS
    <2> QED BY <1>1, <2>1
  <1>3. T \in SUBSET Nat OBVIOUS
  <1>4. PICK l \in T : \A x \in T : l <= x
    <2> HIDE DEF T
    <2> QED BY <1>2, <1>3, Least
  <1>5. l \in n..m /\ ~(SumTo(g, n) <= SumTo(g, l)) OBVIOUS
  <1>6. l # n
    <2>1. n \in n..m OBVIOUS
    <2> QED BY <1>1, <1>5, <2>1
  <1>7. PICK p \in Nat : l = p + 1 /\ p \in n..m
    <2>1. l - 1 \in Nat /\ l = (l - 1) + 1 /\ l - 1 \in n..m BY <1>5, <1>6
    <2> QED BY <2>1
  <1>8. p \notin T
    <2>1. ~(l <= p) BY <1>7
    <2> QED BY <1>4, <2>1
  <1>9. SumTo(g, n) <= SumTo(g, p) BY <1>7, <1>8
  <1>10. SumTo(g, p + 1) = SumTo(g, p) + g[p + 1]
    <2>1. (\A k \in 1..p : g[k] \in Int /\ g[k] = g[k]) /\ g[p + 1] \in Int BY <1>5, <1>7
    <2> QED BY <2>1, SumNext
  <1>11. g[p + 1] \in Nat BY <1>5, <1>7
  <1>12. PICK x \in Int, y \in Int, z \in Int :
           x = SumTo(g, n) /\ y = SumTo(g, p) /\ z = SumTo(g, l)
    <2>1. n \in n..m OBVIOUS
    <2> QED BY <1>1, <1>5, <1>7, <2>1
  <1>13. z = y + g[p + 1] BY <1>7, <1>10, <1>12
  <1> QED BY <1>5, <1>9, <1>11, <1>12, <1>13

\* One more for each of some values: as many more as they are.
LEMMA SumAdds ==
  ASSUME NEW n \in Nat, NEW g, NEW f, NEW D \in SUBSET (1..n),
         \A k \in 1..n : g[k] \in Int /\ f[k] = g[k] + (IF k \in D THEN 1 ELSE 0)
  PROVE  /\ IsFiniteSet(D) /\ Cardinality(D) \in Nat
         /\ SumTo(f, n) = SumTo(g, n) + Cardinality(D)
  <1>1. PICK h : IsSums(h, g, n) BY SumsExist
  <1>2. h \in [0..n -> Int] /\ h[0] = 0 /\ \A k \in 1..n : h[k] = h[k - 1] + g[k]
    BY <1>1 DEF IsSums
  <1>3. ASSUME NEW k \in 0..n
        PROVE  IsFiniteSet(D \intersect (1..k)) /\ Cardinality(D \intersect (1..k)) \in Nat
    <2>1. IsFiniteSet(1..k) BY FS_Interval
    <2>2. D \intersect (1..k) \in SUBSET (1..k) OBVIOUS
    <2>3. IsFiniteSet(D \intersect (1..k)) BY <2>1, <2>2, FS_Subset
    <2> QED BY <2>3, FS_CardinalityType
  <1>4. PICK c : c = [k \in 0..n |-> Cardinality(D \intersect (1..k))] OBVIOUS
  <1>5. c \in [0..n -> Nat] BY <1>3, <1>4
  <1>6. PICK j : j = [k \in 0..n |-> h[k] + c[k]] OBVIOUS
  <1>7. j \in [0..n -> Int] BY <1>2, <1>5, <1>6
  <1>8. j[0] = 0
    <2>1. D \intersect (1..0) = {} OBVIOUS
    <2>2. c[0] = 0 BY <1>4, <2>1, FS_EmptySet
    <2> QED BY <1>2, <1>6, <2>2
  <1>9. ASSUME NEW k \in 1..n PROVE j[k] = j[k - 1] + f[k]
    <2>1. k - 1 \in 0..n /\ k \in 0..n /\ k \notin D \intersect (1..(k - 1)) OBVIOUS
    <2>2. D \intersect (1..k) = IF k \in D THEN (D \intersect (1..(k - 1))) \union {k}
                               ELSE D \intersect (1..(k - 1))
      OBVIOUS
    <2>3. IsFiniteSet(D \intersect (1..(k - 1))) /\ Cardinality(D \intersect (1..(k - 1))) \in Nat
      BY <1>3, <2>1
    <2>4. Cardinality(D \intersect (1..k))
            = Cardinality(D \intersect (1..(k - 1))) + (IF k \in D THEN 1 ELSE 0)
      <3>1. CASE k \in D BY <2>1, <2>2, <2>3, <3>1, FS_AddElement
      <3>2. CASE k \notin D BY <2>2, <2>3, <3>2
      <3> QED BY <3>1, <3>2
    <2>5. /\ j[k] = h[k] + c[k] /\ j[k - 1] = h[k - 1] + c[k - 1]
          /\ c[k] = Cardinality(D \intersect (1..k)) /\ c[k - 1] \in Nat
          /\ c[k - 1] = Cardinality(D \intersect (1..(k - 1)))
          /\ h[k] = h[k - 1] + g[k] /\ h[k - 1] \in Int /\ g[k] \in Int
          /\ f[k] = g[k] + (IF k \in D THEN 1 ELSE 0)
      BY <1>2, <1>4, <1>5, <1>6, <2>1
    <2>6. PICK d \in {0, 1} : d = IF k \in D THEN 1 ELSE 0 OBVIOUS
    <2> QED BY <2>4, <2>5, <2>6
  <1>10. IsSums(j, f, n) BY <1>7, <1>8, <1>9 DEF IsSums
  <1>11. SumTo(f, n) = j[n] /\ SumTo(g, n) = h[n]
    <2>1. SumTo(f, n) = j[n] BY <1>10, SumIs
    <2>2. SumTo(g, n) = h[n] BY <1>1, SumIs
    <2> QED BY <2>1, <2>2
  <1>12. n \in 0..n OBVIOUS
  <1>13. D \intersect (1..n) = D OBVIOUS
  <1>14. c[n] = Cardinality(D) BY <1>4, <1>12, <1>13
  <1>15. j[n] = h[n] + c[n] BY <1>6, <1>12
  <1> QED BY <1>3, <1>11, <1>12, <1>13, <1>14, <1>15

=============================================================================
