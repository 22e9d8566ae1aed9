---------------------------- MODULE GatewayProofs ----------------------------
(***************************************************************************)
(* What the request boundary keeps for any number of requests, slots and   *)
(* targets: slots and counters add up, and a client hears one target.  And *)
(* what the conversions between protocols keep of every dialogue, however  *)
(* long: what is said, its order, and what the client is told of answers.  *)
(***************************************************************************)
EXTENDS Gateway, Conversions, SumProofs, TLAPS, FiniteSetTheorems, SequenceTheorems

USE GatewayAssumption

-----------------------------------------------------------------------------
(* Counting requests by where they are.                                     *)

At(f, places) == {r \in Requests : f[r] \in places}

Tally(place, places) == IF place \in places THEN 1 ELSE 0

\* Sets of requests are finite.
LEMMA AtFinite ==
  ASSUME NEW f, NEW places
  PROVE  IsFiniteSet(At(f, places)) /\ Cardinality(At(f, places)) \in Nat
<1>1. At(f, places) \subseteq Requests
  BY DEF At
<1> QED BY <1>1, FS_Subset, FS_CardinalityType

\* A request that goes from one place to another.
LEMMA MoveCounts ==
  ASSUME NEW f \in [Requests -> Places], NEW r \in Requests, NEW place \in Places, NEW places
  PROVE  Cardinality(At([f EXCEPT ![r] = place], places))
           = Cardinality(At(f, places)) + Tally(place, places) - Tally(f[r], places)
<1> DEFINE before == At(f, places)
           after  == At([f EXCEPT ![r] = place], places)
<1>1. IsFiniteSet(before) /\ Cardinality(before) \in Nat
  BY AtFinite
<1>2. CASE place \in places /\ f[r] \in places
  <2>1. after = before
    BY <1>2 DEF At
  <2> QED BY <1>1, <1>2, <2>1 DEF Tally
<1>3. CASE place \notin places /\ f[r] \notin places
  <2>1. after = before
    BY <1>3 DEF At
  <2> QED BY <1>1, <1>3, <2>1 DEF Tally
<1>4. CASE place \in places /\ f[r] \notin places
  <2>1. after = before \cup {r} /\ r \notin before
    BY <1>4 DEF At
  <2>2. Cardinality(after) = Cardinality(before) + 1
    BY <1>1, <2>1, FS_AddElement
  <2> QED BY <1>1, <1>4, <2>2 DEF Tally
<1>5. CASE place \notin places /\ f[r] \in places
  <2>1. after = before \ {r} /\ r \in before
    BY <1>5 DEF At
  <2>2. Cardinality(before \ {r}) = Cardinality(before) - 1
    BY <1>1, <2>1, FS_RemoveElement
  <2>3. Cardinality(after) = Cardinality(before) - 1
    BY <2>1, <2>2
  <2> QED BY <1>1, <1>5, <2>3 DEF Tally
<1> QED BY <1>2, <1>3, <1>4, <1>5

Holding   == Served \cup {"granted", "abandoned"}
Admitted  == Served \cup {"abandoned"}
InFlight  == Places \ {"idle", "done"}

Holders(f)  == Cardinality(At(f, Holding))
Admits(f)   == Cardinality(At(f, Admitted))
Flying(f)   == Cardinality(At(f, InFlight))

\* What one request that moves does to the three counts.
Moved(f, g, r, place) ==
  /\ g \in [Requests -> Places]
  /\ Holders(g) = Holders(f) + Tally(place, Holding) - Tally(f[r], Holding)
  /\ Admits(g) = Admits(f) + Tally(place, Admitted) - Tally(f[r], Admitted)
  /\ Flying(g) = Flying(f) + Tally(place, InFlight) - Tally(f[r], InFlight)

LEMMA CountsMove ==
  ASSUME NEW f \in [Requests -> Places], NEW r \in Requests, NEW place \in Places,
         NEW g, g = [f EXCEPT ![r] = place]
  PROVE  Moved(f, g, r, place)
<1>1. g \in [Requests -> Places]
  OBVIOUS
<1>2. Holders(g) = Holders(f) + Tally(place, Holding) - Tally(f[r], Holding)
  BY MoveCounts DEF Holders
<1>3. Admits(g) = Admits(f) + Tally(place, Admitted) - Tally(f[r], Admitted)
  BY MoveCounts DEF Admits
<1>4. Flying(g) = Flying(f) + Tally(place, InFlight) - Tally(f[r], InFlight)
  BY MoveCounts DEF Flying
<1> QED BY <1>1, <1>2, <1>3, <1>4 DEF Moved

LEMMA CountsNatural ==
  ASSUME NEW f PROVE Holders(f) \in Nat /\ Admits(f) \in Nat /\ Flying(f) \in Nat
  BY AtFinite DEF Holders, Admits, Flying

-----------------------------------------------------------------------------
(* The inductive invariant.                                                 *)

GatewayTypes ==
  /\ pc \in [Requests -> Places]
  /\ free \in Nat /\ queue \in Seq(Requests)
  /\ active \in Int /\ gauge \in Int
  /\ target \in [Requests -> 0..Targets]
  /\ voices \in [Requests -> SUBSET Nat]
  /\ audit \in [Requests -> Nat]

\* Whom the semaphore may wake waits, and is in its queue once.
QueueWaits ==
  /\ \A i \in 1..Len(queue) : pc[queue[i]] = "waiting"
  /\ \A i, j \in 1..Len(queue) : queue[i] = queue[j] => i = j

\* Nobody waits beside a free slot, unless one who will wake it is on its way.
NoIdleSlot == free > 0 /\ queue # <<>> => \E r \in Requests : pc[r] = "granted"

SlotsCounted ==
  /\ free + Holders(pc) = Limit
  /\ active = Admits(pc)
  /\ gauge = Flying(pc)

OneLine == \A r \in Requests : audit[r] = Tally(pc[r], {"done"})

\* What a client has heard is of the target being asked, and nothing before that.
VoiceOfTarget ==
  \A r \in Requests :
    /\ voices[r] \subseteq {target[r]}
    /\ pc[r] \in {"idle", "waiting", "granted", "admitted", "calling"} => voices[r] = {}

SlotInv == GatewayTypes /\ QueueWaits /\ NoIdleSlot /\ SlotsCounted /\ OneLine

-----------------------------------------------------------------------------
(* What the steps are made of.                                              *)

LEMMA GatewayStart == Init => SlotInv /\ VoiceOfTarget
<1> SUFFICES ASSUME Init PROVE SlotInv /\ VoiceOfTarget
  OBVIOUS
<1>1. \A places : "idle" \notin places => At(pc, places) = {}
  BY DEF Init, At
<1>2. Holders(pc) = 0 /\ Admits(pc) = 0 /\ Flying(pc) = 0
  BY <1>1, FS_EmptySet DEF Holders, Admits, Flying, Holding, Admitted, InFlight, Served
<1>3. GatewayTypes
  BY DEF Init, GatewayTypes, Places
<1>4. QueueWaits /\ NoIdleSlot /\ SlotsCounted /\ OneLine /\ VoiceOfTarget
  BY <1>2 DEF Init, QueueWaits, NoIdleSlot, SlotsCounted, OneLine, Tally, VoiceOfTarget
<1> QED BY <1>3, <1>4 DEF SlotInv

\* A request that does not wait goes somewhere, and leaves the queue as it is.
LEMMA GoKeeps ==
  ASSUME SlotInv, NEW r \in Requests, NEW place \in Places, pc[r] # "waiting",
         Go(r, place), queue' = queue
  PROVE  /\ pc' \in [Requests -> Places] /\ QueueWaits'
         /\ Holders(pc') = Holders(pc) + Tally(place, Holding) - Tally(pc[r], Holding)
         /\ Admits(pc') = Admits(pc) + Tally(place, Admitted) - Tally(pc[r], Admitted)
         /\ Flying(pc') = Flying(pc) + Tally(place, InFlight) - Tally(pc[r], InFlight)
         /\ pc'[r] = place /\ \A s \in Requests : s # r => pc'[s] = pc[s]
<1>1. pc \in [Requests -> Places] /\ pc' = [pc EXCEPT ![r] = place]
  BY DEF SlotInv, GatewayTypes, Go
<1>2. QueueWaits'
  BY <1>1 DEF SlotInv, QueueWaits, GatewayTypes
<1>3. Moved(pc, pc', r, place)
  BY <1>1, CountsMove
<1> QED BY <1>1, <1>2, <1>3 DEF Moved

\* Those who are woken are as many as they should be, and have waited.
LEMMA FirstAre ==
  ASSUME SlotInv, NEW n \in Nat, n <= Len(queue)
  PROVE  /\ First(n) \subseteq Requests /\ \A s \in First(n) : pc[s] = "waiting"
         /\ IsFiniteSet(First(n)) /\ Cardinality(First(n)) = n
<1>1. queue \in Seq(Requests) /\ Len(queue) \in Nat /\ \A i \in 1..n : i \in 1..Len(queue)
  BY DEF SlotInv, GatewayTypes
<1>2. \A i \in 1..n : queue[i] \in Requests /\ pc[queue[i]] = "waiting"
  BY <1>1 DEF SlotInv, QueueWaits
<1>3. \A i, j \in 1..n : queue[i] = queue[j] => i = j
  BY <1>1 DEF SlotInv, QueueWaits
<1>4. ExistsBijection(1..n, First(n))
  <2>0. PICK f : f = [i \in 1..n |-> queue[i]]
    OBVIOUS
  <2>1. f \in [1..n -> First(n)]
    BY <2>0 DEF First
  <2>2. \A i, j \in 1..n : f[i] = f[j] => i = j
    BY <1>3, <2>0
  <2>3. \A s \in First(n) : \E i \in 1..n : f[i] = s
    BY <2>0 DEF First
  <2>4. f \in Bijection(1..n, First(n))
    BY <2>1, <2>2, <2>3 DEF Bijection, Injection, Surjection, IsInjective
  <2> QED BY <2>4 DEF ExistsBijection
<1>5. Cardinality(First(n)) = n
  BY <1>4, FS_CountingElements
<1>6. First(n) \subseteq Requests /\ \A s \in First(n) : pc[s] = "waiting"
  BY <1>2 DEF First
<1>7. IsFiniteSet(First(n))
  BY <1>6, FS_Subset
<1> QED BY <1>5, <1>6, <1>7

\* Several requests that go from one place to another at once.
LEMMA ManyCount ==
  ASSUME NEW f \in [Requests -> Places], NEW W \in SUBSET Requests, NEW from, NEW to, NEW places,
         \A s \in W : f[s] = from
  PROVE  Cardinality(At([s \in Requests |-> IF s \in W THEN to ELSE f[s]], places))
           = Cardinality(At(f, places))
             + Cardinality(W) * (Tally(to, places) - Tally(from, places))
<1> DEFINE g == [s \in Requests |-> IF s \in W THEN to ELSE f[s]]
           before == At(f, places)
           after  == At(g, places)
<1>1. /\ IsFiniteSet(before) /\ Cardinality(before) \in Nat
      /\ IsFiniteSet(after) /\ Cardinality(after) \in Nat
      /\ IsFiniteSet(W) /\ Cardinality(W) \in Nat
  BY AtFinite, FS_Subset, FS_CardinalityType
<1>2. CASE to \in places <=> from \in places
  <2>1. after = before
    BY <1>2 DEF At
  <2>2. Tally(to, places) - Tally(from, places) = 0
    BY <1>2 DEF Tally
  <2> QED BY <1>1, <2>1, <2>2
<1>3. CASE to \in places /\ from \notin places
  <2>1. after = before \cup W /\ before \cap W = {}
    BY <1>3 DEF At
  <2>2. Cardinality(after) = Cardinality(before) + Cardinality(W) - Cardinality({})
    BY <1>1, <2>1, FS_Union
  <2>3. Tally(to, places) - Tally(from, places) = 1
    BY <1>3 DEF Tally
  <2> QED BY <1>1, <2>2, <2>3, FS_EmptySet
<1>4. CASE to \notin places /\ from \in places
  <2>1. before = after \cup W /\ after \cap W = {}
    BY <1>4 DEF At
  <2>2. Cardinality(before) = Cardinality(after) + Cardinality(W) - Cardinality({})
    BY <1>1, <2>1, FS_Union
  <2>3. Tally(to, places) - Tally(from, places) = -1
    BY <1>4 DEF Tally
  <2> QED BY <1>1, <2>2, <2>3, FS_EmptySet
<1> QED BY <1>2, <1>3, <1>4

\* The first n waiters are woken while r goes somewhere.
LEMMA WakeKeeps ==
  ASSUME SlotInv, NEW r \in Requests, pc[r] # "waiting",
         NEW place \in Places, place # "waiting",
         NEW slots \in Nat, NEW n \in Nat, n <= Len(queue), n <= slots, Wake(n, slots, r, place)
  PROVE  /\ pc' \in [Requests -> Places] /\ queue' \in Seq(Requests) /\ QueueWaits'
         /\ free' = slots - n /\ free' \in Nat /\ Len(queue') = Len(queue) - n
         /\ Holders(pc') = Holders(pc) + Tally(place, Holding) - Tally(pc[r], Holding) + n
         /\ Admits(pc') = Admits(pc) + Tally(place, Admitted) - Tally(pc[r], Admitted)
         /\ Flying(pc') = Flying(pc) + Tally(place, InFlight) - Tally(pc[r], InFlight)
         /\ pc'[r] = place
         /\ \A s \in Requests : s # r => pc'[s] = pc[s] \/ (pc[s] = "waiting" /\ pc'[s] = "granted")
         /\ n > 0 => \E s \in Requests : pc'[s] = "granted"
<1> DEFINE g == [pc EXCEPT ![r] = place]
           W == First(n)
<1>1. /\ pc \in [Requests -> Places] /\ queue \in Seq(Requests) /\ Len(queue) \in Nat
      /\ "granted" \in Places /\ "granted" \in Holding /\ "granted" \notin Admitted
      /\ "granted" \in InFlight /\ "waiting" \notin Holding /\ "waiting" \notin Admitted
      /\ "waiting" \in InFlight
  BY DEF SlotInv, GatewayTypes, Places, Holding, Admitted, InFlight, Served
<1>2. /\ W \subseteq Requests /\ \A s \in W : pc[s] = "waiting"
      /\ IsFiniteSet(W) /\ Cardinality(W) = n
  BY FirstAre
<1>3. r \notin W
  BY <1>2
<1>4. g \in [Requests -> Places] /\ g[r] = place /\ \A s \in W : g[s] = "waiting"
  BY <1>1, <1>2, <1>3
<1>5. pc' = [s \in Requests |-> IF s \in W THEN "granted" ELSE g[s]]
  BY <1>1 DEF Wake
<1>6. /\ Holders(g) = Holders(pc) + Tally(place, Holding) - Tally(pc[r], Holding)
      /\ Admits(g) = Admits(pc) + Tally(place, Admitted) - Tally(pc[r], Admitted)
      /\ Flying(g) = Flying(pc) + Tally(place, InFlight) - Tally(pc[r], InFlight)
  <2>1. Moved(pc, g, r, place)
    BY <1>1, CountsMove
  <2> QED BY <2>1 DEF Moved
<1>7. /\ Holders(g) \in Nat /\ Admits(g) \in Nat /\ Flying(g) \in Nat
      /\ Holders(pc) \in Nat /\ Admits(pc) \in Nat /\ Flying(pc) \in Nat
  BY CountsNatural
<1>8. \A s \in Requests : s # r => pc'[s] = pc[s] \/ (pc[s] = "waiting" /\ pc'[s] = "granted")
  BY <1>1, <1>2, <1>5
<1>9. pc'[r] = place /\ pc' \in [Requests -> Places]
  BY <1>1, <1>3, <1>4, <1>5
<1> HIDE DEF g
<1>10. Holders(pc') = Holders(g) + n
  <2>1. Holders(pc') = Holders(g) + Cardinality(W) * (Tally("granted", Holding) - Tally("waiting", Holding))
    BY <1>2, <1>4, <1>5, ManyCount DEF Holders
  <2>2. Tally("granted", Holding) - Tally("waiting", Holding) = 1
    BY <1>1 DEF Tally
  <2> QED BY <1>2, <1>7, <2>1, <2>2
<1>11. Admits(pc') = Admits(g)
  <2>1. Admits(pc') = Admits(g) + Cardinality(W) * (Tally("granted", Admitted) - Tally("waiting", Admitted))
    BY <1>2, <1>4, <1>5, ManyCount DEF Admits
  <2>2. Tally("granted", Admitted) - Tally("waiting", Admitted) = 0
    BY <1>1 DEF Tally
  <2> QED BY <1>2, <1>7, <2>1, <2>2
<1>12. Flying(pc') = Flying(g)
  <2>1. Flying(pc') = Flying(g) + Cardinality(W) * (Tally("granted", InFlight) - Tally("waiting", InFlight))
    BY <1>2, <1>4, <1>5, ManyCount DEF Flying
  <2>2. Tally("granted", InFlight) - Tally("waiting", InFlight) = 0
    BY <1>1 DEF Tally
  <2> QED BY <1>2, <1>7, <2>1, <2>2
<1>13. /\ queue' \in Seq(Requests) /\ Len(queue') = Len(queue) - n
       /\ \A i \in 1..(Len(queue) - n) : queue'[i] = queue[n + i]
  <2>1. queue' = SubSeq(queue, n + 1, Len(queue))
    BY DEF Wake
  <2>2. n + 1 \in 1..(Len(queue) + 1) /\ Len(queue) \in (n + 1 - 1)..Len(queue)
    BY <1>1
  <2> QED BY <1>1, <2>1, <2>2, SubSeqProperties
<1>14. QueueWaits'
  <2>1. ASSUME NEW i \in 1..Len(queue') PROVE pc'[queue'[i]] = "waiting"
    <3>1. n + i \in 1..Len(queue) /\ queue'[i] = queue[n + i] /\ i > 0
      BY <1>1, <1>13
    <3>2. pc[queue[n + i]] = "waiting" /\ queue[n + i] \in Requests
      BY <1>1, <3>1 DEF SlotInv, QueueWaits
    <3>3. queue[n + i] \notin W
      <4>1. ASSUME NEW j \in 1..n, queue[j] = queue[n + i] PROVE FALSE
        <5>1. j \in 1..Len(queue) /\ j # n + i
          BY <1>1, <3>1
        <5> QED BY <3>1, <4>1, <5>1 DEF SlotInv, QueueWaits
      <4> QED BY <4>1 DEF First
    <3>4. queue[n + i] # r
      BY <3>2
    <3> QED BY <1>1, <1>5, <3>1, <3>2, <3>3, <3>4 DEF g
  <2>2. ASSUME NEW i \in 1..Len(queue'), NEW j \in 1..Len(queue'), queue'[i] = queue'[j]
        PROVE  i = j
    <3>1. n + i \in 1..Len(queue) /\ n + j \in 1..Len(queue) /\ queue[n + i] = queue[n + j]
      BY <1>1, <1>13, <2>2
    <3>2. n + i = n + j
      BY <3>1 DEF SlotInv, QueueWaits
    <3> QED BY <1>13, <3>2
  <2> QED BY <2>1, <2>2 DEF QueueWaits
<1>15. n > 0 => \E s \in Requests : pc'[s] = "granted"
  <2> SUFFICES ASSUME n > 0 PROVE \E s \in Requests : pc'[s] = "granted"
    OBVIOUS
  <2>1. queue[1] \in W
    BY DEF First
  <2> QED BY <1>2, <1>5, <2>1
<1>16. free' = slots - n /\ free' \in Nat
  BY DEF Wake
<1> QED BY <1>6, <1>7, <1>8, <1>9, <1>10, <1>11, <1>12, <1>13, <1>14, <1>15, <1>16

\* The slot of r is given back.
LEMMA ReleaseKeeps ==
  ASSUME SlotInv, NEW r \in Requests, pc[r] \in Served, Release(r, "done")
  PROVE  /\ pc' \in [Requests -> Places] /\ free' \in Nat /\ queue' \in Seq(Requests)
         /\ QueueWaits' /\ NoIdleSlot'
         /\ free' + Holders(pc') = Limit
         /\ Admits(pc') = Admits(pc) - 1
         /\ Flying(pc') = Flying(pc) - 1
         /\ pc'[r] = "done"
         /\ \A s \in Requests : s # r => (pc'[s] = "done" <=> pc[s] = "done")
         /\ \A s \in Requests : s # r => pc'[s] = pc[s] \/ (pc[s] = "waiting" /\ pc'[s] = "granted")
<1>1. /\ "done" \in Places /\ "done" \notin Holding /\ "done" \notin Admitted /\ "done" \notin InFlight
      /\ pc[r] # "waiting" /\ pc[r] # "granted"
      /\ pc[r] \in Holding /\ pc[r] \in Admitted /\ pc[r] \in InFlight
  BY DEF Places, Holding, Admitted, InFlight, Served
<1>2. /\ pc \in [Requests -> Places] /\ queue \in Seq(Requests) /\ free \in Nat
      /\ Holders(pc) \in Nat /\ Admits(pc) \in Nat /\ Flying(pc) \in Nat
      /\ free + Holders(pc) = Limit
  BY CountsNatural DEF SlotInv, GatewayTypes, SlotsCounted
<1>3. PICK n \in {0, 1} : n = IF queue = <<>> THEN 0 ELSE 1
  OBVIOUS
<1>9. PICK slots \in Nat : slots = free + 1
  BY <1>2
<1>4. n \in Nat /\ n <= Len(queue) /\ n <= slots /\ Wake(n, slots, r, "done")
  <2>1. queue # <<>> => Len(queue) \in Nat /\ Len(queue) # 0
    BY <1>2
  <2> QED BY <1>2, <1>3, <1>9, <2>1 DEF Release
<1>5. /\ pc' \in [Requests -> Places] /\ queue' \in Seq(Requests) /\ QueueWaits'
      /\ free' = slots - n /\ free' \in Nat /\ Len(queue') = Len(queue) - n
      /\ Holders(pc') = Holders(pc) + Tally("done", Holding) - Tally(pc[r], Holding) + n
      /\ Admits(pc') = Admits(pc) + Tally("done", Admitted) - Tally(pc[r], Admitted)
      /\ Flying(pc') = Flying(pc) + Tally("done", InFlight) - Tally(pc[r], InFlight)
      /\ pc'[r] = "done"
      /\ \A s \in Requests : s # r => pc'[s] = pc[s] \/ (pc[s] = "waiting" /\ pc'[s] = "granted")
      /\ n > 0 => \E s \in Requests : pc'[s] = "granted"
  BY <1>1, <1>4, WakeKeeps
<1>6. /\ Tally("done", Holding) = 0 /\ Tally(pc[r], Holding) = 1
      /\ Tally("done", Admitted) = 0 /\ Tally(pc[r], Admitted) = 1
      /\ Tally("done", InFlight) = 0 /\ Tally(pc[r], InFlight) = 1
  BY <1>1 DEF Tally
<1>7. /\ free' + Holders(pc') = Limit
      /\ Admits(pc') = Admits(pc) - 1 /\ Flying(pc') = Flying(pc) - 1
  BY <1>2, <1>3, <1>5, <1>6, <1>9
<1>8. NoIdleSlot'
  <2>1. n = 0 => queue' = <<>>
    <3> SUFFICES ASSUME n = 0 PROVE queue' = <<>>
      OBVIOUS
    <3>1. Len(queue') = 0
      BY <1>3, <1>5
    <3> QED BY <1>5, <3>1
  <2> QED BY <1>3, <1>5, <2>1 DEF NoIdleSlot
<1>10. \A s \in Requests : s # r => (pc'[s] = "done" <=> pc[s] = "done")
  BY <1>5
<1> QED BY <1>5, <1>7, <1>8, <1>10

\* One that was resumed goes its way, and passes on the slots it finds.
LEMMA PassOnKeeps ==
  ASSUME SlotInv, NEW r \in Requests, pc[r] \in {"granted", "leaving"},
         NEW place \in {"admitted", "gone"}, NEW slots \in Nat,
         slots = free + Tally(pc[r], Holding) - Tally(place, Holding),
         WakeAll(slots, r, place)
  PROVE  /\ pc' \in [Requests -> Places] /\ free' \in Nat /\ queue' \in Seq(Requests)
         /\ QueueWaits' /\ NoIdleSlot'
         /\ free' + Holders(pc') = Limit
         /\ Admits(pc') = Admits(pc) + Tally(place, Admitted)
         /\ Flying(pc') = Flying(pc)
         /\ pc'[r] = place
         /\ \A s \in Requests : s # r => (pc'[s] = "done" <=> pc[s] = "done")
         /\ \A s \in Requests : s # r => pc'[s] = pc[s] \/ (pc[s] = "waiting" /\ pc'[s] = "granted")
<1>1. /\ place \in Places /\ place # "waiting" /\ place \in InFlight
      /\ pc[r] # "waiting" /\ pc[r] \in InFlight /\ pc[r] \notin Admitted
  BY DEF Places, Holding, Admitted, InFlight, Served
<1>2. /\ pc \in [Requests -> Places] /\ queue \in Seq(Requests) /\ free \in Nat /\ Len(queue) \in Nat
      /\ Holders(pc) \in Nat /\ Admits(pc) \in Nat /\ Flying(pc) \in Nat
      /\ free + Holders(pc) = Limit
  BY CountsNatural DEF SlotInv, GatewayTypes, SlotsCounted
<1>3. PICK n \in Nat : n = IF slots <= Len(queue) THEN slots ELSE Len(queue)
  BY <1>2
<1>4. n <= Len(queue) /\ n <= slots /\ Wake(n, slots, r, place)
  BY <1>2, <1>3 DEF WakeAll
<1>5. /\ pc' \in [Requests -> Places] /\ queue' \in Seq(Requests) /\ QueueWaits'
      /\ free' = slots - n /\ free' \in Nat /\ Len(queue') = Len(queue) - n
      /\ Holders(pc') = Holders(pc) + Tally(place, Holding) - Tally(pc[r], Holding) + n
      /\ Admits(pc') = Admits(pc) + Tally(place, Admitted) - Tally(pc[r], Admitted)
      /\ Flying(pc') = Flying(pc) + Tally(place, InFlight) - Tally(pc[r], InFlight)
      /\ pc'[r] = place
      /\ \A s \in Requests : s # r => pc'[s] = pc[s] \/ (pc[s] = "waiting" /\ pc'[s] = "granted")
  BY <1>1, <1>4, WakeKeeps
<1>6. /\ Tally(place, Holding) \in {0, 1} /\ Tally(pc[r], Holding) \in {0, 1}
      /\ Tally(place, Admitted) \in {0, 1} /\ Tally(pc[r], Admitted) = 0
      /\ Tally(place, InFlight) = 1 /\ Tally(pc[r], InFlight) = 1
  BY <1>1 DEF Tally
<1>7. free' + Holders(pc') = Limit
  <2>1. PICK give \in Nat : give = Tally(pc[r], Holding)
    BY <1>6
  <2>2. PICK keep \in Nat : keep = Tally(place, Holding)
    BY <1>6
  <2>3. PICK held \in Nat : held = Holders(pc)
    BY <1>2
  <2>4. PICK fore \in Nat : fore = free
    BY <1>2
  <2>5. free' = fore + give - keep - n /\ Holders(pc') = held + keep - give + n
    BY <1>5, <2>1, <2>2, <2>3, <2>4
  <2>6. fore + held = Limit
    BY <1>2, <2>3, <2>4
  <2> QED BY <2>5, <2>6
<1>8. Admits(pc') = Admits(pc) + Tally(place, Admitted) /\ Flying(pc') = Flying(pc)
  BY <1>2, <1>5, <1>6
<1>9. NoIdleSlot'
  <2>1. free' > 0 => queue' = <<>>
    <3> SUFFICES ASSUME free' > 0 PROVE queue' = <<>>
      OBVIOUS
    <3>1. Len(queue') = 0
      BY <1>2, <1>3, <1>5
    <3> QED BY <1>5, <3>1
  <2> QED BY <2>1 DEF NoIdleSlot
<1>10. \A s \in Requests : s # r => (pc'[s] = "done" <=> pc[s] = "done")
  BY <1>5
<1> QED BY <1>5, <1>7, <1>8, <1>9, <1>10

\* finalize(): the request is over.
LEMMA FinalizeKeeps ==
  ASSUME SlotInv, NEW r \in Requests, pc[r] \in Served, Finalize(r),
         target' \in [Requests -> 0..Targets], voices' \in [Requests -> SUBSET Nat]
  PROVE  /\ SlotInv'
         /\ pc'[r] = "done"
         /\ \A s \in Requests : s # r => pc'[s] = pc[s] \/ (pc[s] = "waiting" /\ pc'[s] = "granted")
<1>1. pc[r] # "done" /\ Release(r, "done")
  BY DEF Served, Finalize
<1>2. /\ pc' \in [Requests -> Places] /\ free' \in Nat /\ queue' \in Seq(Requests)
      /\ QueueWaits' /\ NoIdleSlot'
      /\ free' + Holders(pc') = Limit
      /\ Admits(pc') = Admits(pc) - 1
      /\ Flying(pc') = Flying(pc) - 1
      /\ pc'[r] = "done"
      /\ \A s \in Requests : s # r => (pc'[s] = "done" <=> pc[s] = "done")
      /\ \A s \in Requests : s # r => pc'[s] = pc[s] \/ (pc[s] = "waiting" /\ pc'[s] = "granted")
  BY <1>1, ReleaseKeeps
<1>3. gauge' = gauge - 1 /\ active' = active - 1 /\ audit' = [audit EXCEPT ![r] = @ + 1]
  BY DEF Finalize
<1>4. GatewayTypes'
  BY <1>2, <1>3 DEF SlotInv, GatewayTypes
<1>5. SlotsCounted'
  BY <1>2, <1>3 DEF SlotInv, SlotsCounted
<1>6. OneLine'
  BY <1>1, <1>2, <1>3 DEF SlotInv, OneLine, Tally, GatewayTypes
<1> QED BY <1>2, <1>4, <1>5, <1>6 DEF SlotInv

\* A request goes from one place with a slot to another.
LEMMA ServedKeeps ==
  ASSUME SlotInv, NEW r \in Requests, pc[r] \in Served, NEW place \in Served \cup {"abandoned"},
         Go(r, place), UNCHANGED <<free, queue, active, gauge, audit>>,
         target' \in [Requests -> 0..Targets], voices' \in [Requests -> SUBSET Nat]
  PROVE  SlotInv'
<1>1. /\ pc[r] # "waiting" /\ pc[r] # "done" /\ pc[r] # "granted" /\ place \in Places /\ place # "done"
      /\ pc[r] \in Holding /\ pc[r] \in Admitted /\ pc[r] \in InFlight
      /\ place \in Holding /\ place \in Admitted /\ place \in InFlight
  BY DEF Served, Places, Holding, Admitted, InFlight
<1>2. Holders(pc) \in Nat /\ Admits(pc) \in Nat /\ Flying(pc) \in Nat
  BY CountsNatural
<1>3. /\ pc' \in [Requests -> Places] /\ QueueWaits'
      /\ Holders(pc') = Holders(pc) /\ Admits(pc') = Admits(pc) /\ Flying(pc') = Flying(pc)
      /\ pc'[r] = place /\ \A s \in Requests : s # r => pc'[s] = pc[s]
  BY <1>1, <1>2, GoKeeps DEF Tally
<1>4. GatewayTypes' /\ SlotsCounted'
  BY <1>3 DEF SlotInv, GatewayTypes, SlotsCounted
<1>6. NoIdleSlot'
  <2>1. \A s \in Requests : pc[s] = "granted" => pc'[s] = "granted"
    BY <1>1, <1>3
  <2> QED BY <2>1 DEF SlotInv, NoIdleSlot
<1>5. OneLine'
  BY <1>1, <1>3 DEF SlotInv, OneLine, Tally
<1> QED BY <1>3, <1>4, <1>5, <1>6 DEF SlotInv

\* The queue without one of its waiters.
LEMMA WithoutOne ==
  ASSUME queue \in Seq(Requests), NEW i \in 1..Len(queue)
  PROVE  /\ Without(i) \in Seq(Requests)
         /\ Len(Without(i)) = Len(queue) - 1
         /\ \A k \in 1..(Len(queue) - 1) : Without(i)[k] = queue[IF k < i THEN k ELSE k + 1]
<1> DEFINE left  == SubSeq(queue, 1, i - 1)
           right == SubSeq(queue, i + 1, Len(queue))
<1>1. Len(queue) \in Nat /\ i \in Nat /\ 1 <= i /\ i <= Len(queue)
  OBVIOUS
<1>2. /\ left \in Seq(Requests) /\ Len(left) = i - 1
      /\ \A k \in 1..(i - 1) : left[k] = queue[k]
  BY <1>1, SubSeqProperties
<1>3. /\ right \in Seq(Requests) /\ Len(right) = Len(queue) - i
      /\ \A k \in 1..(Len(queue) - i) : right[k] = queue[i + k]
  BY <1>1, SubSeqProperties
<1>4. Without(i) = left \o right
  BY DEF Without
<1> HIDE DEF left, right
<1>5. /\ Without(i) \in Seq(Requests)
      /\ Len(Without(i)) = Len(queue) - 1
      /\ \A k \in 1..(Len(queue) - 1) :
           Without(i)[k] = IF k <= i - 1 THEN left[k] ELSE right[k - (i - 1)]
  <2>1. left \o right \in Seq(Requests) /\ Len(left \o right) = Len(left) + Len(right)
    BY <1>2, <1>3, ConcatProperties
  <2>2. \A k \in 1..(Len(left) + Len(right)) :
          (left \o right)[k] = IF k <= Len(left) THEN left[k] ELSE right[k - Len(left)]
    BY <1>2, <1>3, ConcatProperties
  <2>3. Len(left) + Len(right) = Len(queue) - 1
    BY <1>1, <1>2, <1>3
  <2>4. \A k \in 1..(Len(queue) - 1) :
          (left \o right)[k] = IF k <= i - 1 THEN left[k] ELSE right[k - (i - 1)]
    BY <1>2, <2>2, <2>3
  <2> QED BY <1>4, <2>1, <2>3, <2>4
<1>6. ASSUME NEW k \in 1..(Len(queue) - 1)
      PROVE  Without(i)[k] = queue[IF k < i THEN k ELSE k + 1]
  <2>1. CASE k < i
    BY <1>1, <1>2, <1>5, <2>1
  <2>2. CASE ~(k < i)
    <3>1. k - (i - 1) \in 1..(Len(queue) - i) /\ i + (k - (i - 1)) = k + 1
      BY <1>1, <2>2
    <3>2. right[k - (i - 1)] = queue[k + 1]
      BY <1>3, <3>1
    <3> QED BY <1>1, <1>5, <2>2, <3>2
  <2> QED BY <2>1, <2>2
<1> QED BY <1>5, <1>6

\* A waiter that leaves the queue leaves the others waiting.
LEMMA LeaveKeeps ==
  ASSUME SlotInv, NEW r \in Requests, pc[r] = "waiting", Go(r, "leaving"),
         NEW i \in 1..Len(queue), queue[i] = r, queue' = Without(i)
  PROVE  queue' \in Seq(Requests) /\ QueueWaits' /\ (queue = <<>> => queue' = <<>>)
<1>1. queue \in Seq(Requests) /\ pc' = [pc EXCEPT ![r] = "leaving"] /\ pc \in [Requests -> Places]
  BY DEF SlotInv, GatewayTypes, Go
<1>2. /\ queue' \in Seq(Requests) /\ Len(queue') = Len(queue) - 1 /\ Len(queue) \in Nat
      /\ \A k \in 1..(Len(queue) - 1) : queue'[k] = queue[IF k < i THEN k ELSE k + 1]
  <2>1. /\ Without(i) \in Seq(Requests) /\ Len(Without(i)) = Len(queue) - 1
        /\ \A k \in 1..(Len(queue) - 1) : Without(i)[k] = queue[IF k < i THEN k ELSE k + 1]
    BY <1>1, WithoutOne
  <2>2. queue' = Without(i) /\ Len(queue) \in Nat
    BY <1>1
  <2> QED BY <2>1, <2>2
<1>3. ASSUME NEW k \in 1..Len(queue') PROVE pc'[queue'[k]] = "waiting"
  <2> DEFINE n == IF k < i THEN k ELSE k + 1
  <2>1. n \in 1..Len(queue) /\ n # i /\ queue'[k] = queue[n]
    BY <1>2
  <2>2. queue[n] # r /\ pc[queue[n]] = "waiting" /\ queue[n] \in Requests
    BY <1>1, <2>1 DEF SlotInv, QueueWaits
  <2> QED BY <1>1, <2>1, <2>2
<1>4. ASSUME NEW k \in 1..Len(queue'), NEW l \in 1..Len(queue'), queue'[k] = queue'[l]
      PROVE  k = l
  <2> DEFINE n == IF k < i THEN k ELSE k + 1
             o == IF l < i THEN l ELSE l + 1
  <2>1. n \in 1..Len(queue) /\ o \in 1..Len(queue) /\ queue[n] = queue[o]
    BY <1>2, <1>4
  <2>2. n = o
    BY <2>1 DEF SlotInv, QueueWaits
  <2> QED BY <1>2, <2>2
<1> QED BY <1>1, <1>2, <1>3, <1>4 DEF QueueWaits

-----------------------------------------------------------------------------
(* The steps.                                                               *)

LEMMA ArriveStep ==
  ASSUME SlotInv, NEW r \in Requests, Arrive(r) PROVE SlotInv'
<1>1. /\ pc[r] = "idle" /\ gauge' = gauge + 1 /\ UNCHANGED <<target, voices, audit>>
      /\ \A place \in {"admitted", "waiting"} :
           /\ place \in Places /\ place \in InFlight
           /\ (place \in Holding <=> place = "admitted")
           /\ (place \in Admitted <=> place = "admitted")
      /\ "idle" \notin Holding /\ "idle" \notin Admitted /\ "idle" \notin InFlight
  BY DEF Arrive, Places, Holding, Admitted, InFlight, Served
<1>2. /\ Holders(pc) \in Nat /\ Admits(pc) \in Nat /\ Flying(pc) \in Nat
      /\ pc \in [Requests -> Places] /\ queue \in Seq(Requests) /\ free \in Nat
      /\ free + Holders(pc) = Limit /\ active = Admits(pc) /\ gauge = Flying(pc)
  BY CountsNatural DEF SlotInv, GatewayTypes, SlotsCounted
<1>3. CASE /\ ~Locked /\ free' = free - 1
           /\ active' = active + 1 /\ Go(r, "admitted") /\ UNCHANGED queue
  <2>1. /\ pc' \in [Requests -> Places] /\ QueueWaits'
        /\ Holders(pc') = Holders(pc) + 1 /\ Admits(pc') = Admits(pc) + 1
        /\ Flying(pc') = Flying(pc) + 1
        /\ pc'[r] = "admitted" /\ \A s \in Requests : s # r => pc'[s] = pc[s]
    <3>1. /\ pc' \in [Requests -> Places] /\ QueueWaits'
          /\ Holders(pc') = Holders(pc) + Tally("admitted", Holding) - Tally(pc[r], Holding)
          /\ Admits(pc') = Admits(pc) + Tally("admitted", Admitted) - Tally(pc[r], Admitted)
          /\ Flying(pc') = Flying(pc) + Tally("admitted", InFlight) - Tally(pc[r], InFlight)
          /\ pc'[r] = "admitted" /\ \A s \in Requests : s # r => pc'[s] = pc[s]
      <4>1. "admitted" \in Places /\ pc[r] # "waiting" /\ Go(r, "admitted") /\ queue' = queue
        BY <1>1, <1>3
      <4> QED BY <4>1, GoKeeps
    <3>2. /\ Tally("admitted", Holding) = 1 /\ Tally(pc[r], Holding) = 0
          /\ Tally("admitted", Admitted) = 1 /\ Tally(pc[r], Admitted) = 0
          /\ Tally("admitted", InFlight) = 1 /\ Tally(pc[r], InFlight) = 0
      BY <1>1 DEF Tally
    <3> QED BY <1>2, <3>1, <3>2
  <2>0. free > 0 /\ queue = <<>>
    BY <1>2, <1>3 DEF Locked
  <2>2. GatewayTypes'
    <3>1. free' \in Nat /\ queue' \in Seq(Requests) /\ gauge' \in Int
      BY <1>1, <1>2, <1>3, <2>0
    <3>2. active' \in Int
      BY <1>2, <1>3
    <3> QED BY <1>1, <2>1, <3>1, <3>2 DEF SlotInv, GatewayTypes
  <2>3. SlotsCounted'
    <3>1. free' + Holders(pc') = Limit /\ active' = Admits(pc') /\ gauge' = Flying(pc')
      BY <1>1, <1>2, <1>3, <2>1
    <3> QED BY <3>1 DEF SlotsCounted
  <2>4. NoIdleSlot' /\ OneLine'
    BY <1>1, <1>2, <1>3, <2>0, <2>1 DEF SlotInv, NoIdleSlot, OneLine, Tally
  <2> QED BY <2>1, <2>2, <2>3, <2>4 DEF SlotInv
<1>4. CASE /\ Locked /\ queue' = Append(queue, r)
           /\ Go(r, "waiting") /\ UNCHANGED <<free, active>>
  <2>1. pc' = [pc EXCEPT ![r] = "waiting"]
    BY <1>4 DEF Go
  <2>2. /\ pc' \in [Requests -> Places]
        /\ Holders(pc') = Holders(pc) /\ Admits(pc') = Admits(pc)
        /\ Flying(pc') = Flying(pc) + 1
    <3>1. /\ pc' \in [Requests -> Places]
          /\ Holders(pc') = Holders(pc) + Tally("waiting", Holding) - Tally(pc[r], Holding)
          /\ Admits(pc') = Admits(pc) + Tally("waiting", Admitted) - Tally(pc[r], Admitted)
          /\ Flying(pc') = Flying(pc) + Tally("waiting", InFlight) - Tally(pc[r], InFlight)
      <4>1. "waiting" \in Places
        BY DEF Places
      <4>2. Moved(pc, pc', r, "waiting")
        BY <1>2, <2>1, <4>1, CountsMove
      <4> QED BY <4>2 DEF Moved
    <3>2. /\ Tally("waiting", Holding) = 0 /\ Tally(pc[r], Holding) = 0
          /\ Tally("waiting", Admitted) = 0 /\ Tally(pc[r], Admitted) = 0
          /\ Tally("waiting", InFlight) = 1 /\ Tally(pc[r], InFlight) = 0
      BY <1>1 DEF Tally
    <3> QED BY <1>2, <3>1, <3>2
  <2>3. /\ queue' \in Seq(Requests) /\ Len(queue') = Len(queue) + 1 /\ Len(queue) \in Nat
        /\ queue'[Len(queue) + 1] = r
        /\ \A i \in 1..Len(queue) : queue'[i] = queue[i]
    BY <1>2, <1>4
  <2>4. \A i \in 1..Len(queue) : queue[i] # r /\ queue[i] \in Requests /\ pc[queue[i]] = "waiting"
    BY <1>1, <1>2 DEF SlotInv, QueueWaits
  <2>5. QueueWaits'
    <3>1. ASSUME NEW i \in 1..Len(queue') PROVE pc'[queue'[i]] = "waiting"
      <4>1. i \in 1..Len(queue) \/ i = Len(queue) + 1
        BY <2>3
      <4> QED BY <1>2, <2>1, <2>3, <2>4, <4>1
    <3>2. ASSUME NEW i \in 1..Len(queue'), NEW j \in 1..Len(queue'), queue'[i] = queue'[j]
          PROVE  i = j
      <4>1. /\ i \in 1..Len(queue) \/ i = Len(queue) + 1
            /\ j \in 1..Len(queue) \/ j = Len(queue) + 1
        BY <2>3
      <4>2. i \in 1..Len(queue) /\ j \in 1..Len(queue) => i = j
        BY <2>3, <3>2 DEF SlotInv, QueueWaits
      <4>3. i = Len(queue) + 1 <=> j = Len(queue) + 1
        BY <2>3, <2>4, <3>2, <4>1
      <4> QED BY <4>1, <4>2, <4>3
    <3> QED BY <3>1, <3>2 DEF QueueWaits
  <2>6. GatewayTypes' /\ SlotsCounted'
    <3>1. GatewayTypes'
      BY <1>1, <1>2, <1>4, <2>2, <2>3 DEF SlotInv, GatewayTypes
    <3>2. free' + Holders(pc') = Limit /\ active' = Admits(pc') /\ gauge' = Flying(pc')
      BY <1>1, <1>2, <1>4, <2>2
    <3> QED BY <3>1, <3>2 DEF SlotsCounted
  <2>7. NoIdleSlot'
    <3>1. \A s \in Requests : pc[s] = "granted" => pc'[s] = "granted"
      BY <1>1, <1>2, <2>1
    <3>2. free > 0 => \E s \in Requests : pc[s] = "granted"
      BY <1>2, <1>4 DEF SlotInv, NoIdleSlot, Locked, In
    <3>3. free' = free
      BY <1>4
    <3> QED BY <3>1, <3>2, <3>3 DEF NoIdleSlot
  <2>8. OneLine'
    BY <1>1, <1>2, <1>4, <2>1 DEF SlotInv, OneLine, Tally
  <2> QED BY <2>5, <2>6, <2>7, <2>8 DEF SlotInv
<1> QED BY <1>3, <1>4 DEF Arrive

LEMMA ResumeStep ==
  ASSUME SlotInv, NEW r \in Requests, Resume(r) PROVE SlotInv'
<1>1. /\ pc[r] = "granted" /\ WakeAll(free, r, "admitted") /\ active' = active + 1
      /\ UNCHANGED <<gauge, target, voices, audit>>
      /\ Tally("admitted", Holding) = 1 /\ Tally("granted", Holding) = 1
      /\ Tally("admitted", Admitted) = 1
  BY DEF Resume, Holding, Admitted, Served, Tally
<1>2. free \in Nat /\ Admits(pc) \in Nat
  BY CountsNatural DEF SlotInv, GatewayTypes
<1>3. free = free + Tally(pc[r], Holding) - Tally("admitted", Holding)
  BY <1>1, <1>2
<1>4. /\ pc' \in [Requests -> Places] /\ free' \in Nat /\ queue' \in Seq(Requests)
      /\ QueueWaits' /\ NoIdleSlot'
      /\ free' + Holders(pc') = Limit
      /\ Admits(pc') = Admits(pc) + Tally("admitted", Admitted)
      /\ Flying(pc') = Flying(pc)
      /\ pc'[r] = "admitted"
      /\ \A s \in Requests : s # r => (pc'[s] = "done" <=> pc[s] = "done")
  BY <1>1, <1>2, <1>3, PassOnKeeps
<1>5. GatewayTypes' /\ SlotsCounted'
  BY <1>1, <1>2, <1>4 DEF SlotInv, GatewayTypes, SlotsCounted
<1>6. OneLine'
  BY <1>1, <1>4 DEF SlotInv, OneLine, Tally
<1> QED BY <1>4, <1>5, <1>6 DEF SlotInv

LEMMA WithdrawStep ==
  ASSUME SlotInv, NEW r \in Requests, Withdraw(r) PROVE SlotInv'
<1>1. /\ UNCHANGED <<free, active, gauge, target, voices, audit>>
      /\ pc[r] = "waiting" /\ Go(r, "leaving") /\ pc' = [pc EXCEPT ![r] = "leaving"]
      /\ "leaving" \in Places /\ "leaving" \in InFlight
      /\ "leaving" \notin Holding /\ "leaving" \notin Admitted
      /\ "waiting" \in InFlight /\ "waiting" \notin Holding /\ "waiting" \notin Admitted
  BY DEF Withdraw, Go, Places, Holding, Admitted, InFlight, Served
<1>2. /\ Holders(pc) \in Nat /\ Admits(pc) \in Nat /\ Flying(pc) \in Nat
      /\ pc \in [Requests -> Places]
  BY CountsNatural DEF SlotInv, GatewayTypes
<1>3. PICK i \in 1..Len(queue) : queue[i] = r /\ queue' = Without(i)
  BY DEF Withdraw
<1>4. queue' \in Seq(Requests) /\ QueueWaits' /\ (queue = <<>> => queue' = <<>>)
  BY <1>1, <1>3, LeaveKeeps
<1>5. /\ pc' \in [Requests -> Places]
      /\ Holders(pc') = Holders(pc) /\ Admits(pc') = Admits(pc) /\ Flying(pc') = Flying(pc)
  <2>1. Moved(pc, pc', r, "leaving")
    BY <1>1, <1>2, CountsMove
  <2>2. /\ Tally("leaving", Holding) = 0 /\ Tally(pc[r], Holding) = 0
        /\ Tally("leaving", Admitted) = 0 /\ Tally(pc[r], Admitted) = 0
        /\ Tally("leaving", InFlight) = 1 /\ Tally(pc[r], InFlight) = 1
    BY <1>1 DEF Tally
  <2> QED BY <1>2, <2>1, <2>2 DEF Moved
<1>6. GatewayTypes' /\ SlotsCounted'
  BY <1>1, <1>4, <1>5 DEF SlotInv, GatewayTypes, SlotsCounted
<1>7. NoIdleSlot'
  <2>1. \A s \in Requests : pc[s] = "granted" => pc'[s] = "granted"
    BY <1>1, <1>2
  <2> QED BY <1>1, <1>4, <2>1 DEF SlotInv, NoIdleSlot
<1>8. OneLine'
  BY <1>1, <1>2 DEF SlotInv, OneLine, Tally
<1> QED BY <1>4, <1>6, <1>7, <1>8 DEF SlotInv

LEMMA GiveUpStep ==
  ASSUME SlotInv, NEW r \in Requests, GiveUp(r) PROVE SlotInv'
<1>1. /\ UNCHANGED <<active, gauge, target, voices, audit>>
      /\ Tally("gone", Holding) = 0 /\ Tally("granted", Holding) = 1
      /\ Tally("leaving", Holding) = 0 /\ Tally("gone", Admitted) = 0
  BY DEF GiveUp, Holding, Admitted, Served, Tally
<1>2. free \in Nat /\ Admits(pc) \in Nat
  BY CountsNatural DEF SlotInv, GatewayTypes
<1>3. PICK slots \in Nat : /\ pc[r] \in {"granted", "leaving"}
                           /\ slots = free + Tally(pc[r], Holding) - Tally("gone", Holding)
                           /\ WakeAll(slots, r, "gone")
  <2>1. CASE pc[r] = "leaving" /\ WakeAll(free, r, "gone")
    BY <1>1, <1>2, <2>1
  <2>2. CASE pc[r] = "granted" /\ WakeAll(free + 1, r, "gone")
    BY <1>1, <1>2, <2>2
  <2> QED BY <2>1, <2>2 DEF GiveUp
<1>4. /\ pc' \in [Requests -> Places] /\ free' \in Nat /\ queue' \in Seq(Requests)
      /\ QueueWaits' /\ NoIdleSlot'
      /\ free' + Holders(pc') = Limit
      /\ Admits(pc') = Admits(pc) + Tally("gone", Admitted)
      /\ Flying(pc') = Flying(pc)
      /\ pc'[r] = "gone"
      /\ \A s \in Requests : s # r => (pc'[s] = "done" <=> pc[s] = "done")
  BY <1>3, PassOnKeeps
<1>5. GatewayTypes' /\ SlotsCounted'
  BY <1>1, <1>2, <1>4 DEF SlotInv, GatewayTypes, SlotsCounted
<1>6. OneLine'
  BY <1>1, <1>3, <1>4 DEF SlotInv, OneLine, Tally
<1> QED BY <1>4, <1>5, <1>6 DEF SlotInv

\* The steps that finalize.
LEMMA FinalStep ==
  ASSUME SlotInv, NEW r \in Requests,
         Deny(r) \/ Refuse(r) \/ Answer(r) \/ Fail(r) \/ StreamEnd(r) \/ Cancel(r)
  PROVE  SlotInv'
<1>1. pc[r] \in Served /\ Finalize(r)
  BY DEF Deny, Refuse, Answer, Fail, StreamEnd, Cancel, Served
<1>2. target[r] \in 0..Targets /\ target \in [Requests -> 0..Targets] /\ voices \in [Requests -> SUBSET Nat]
  BY DEF SlotInv, GatewayTypes
<1>3. target' \in [Requests -> 0..Targets] /\ voices' \in [Requests -> SUBSET Nat]
  BY <1>2 DEF Deny, Refuse, Answer, Fail, StreamEnd, Cancel
<1> QED BY <1>1, <1>3, FinalizeKeeps

\* The steps of a request that keeps its slot.
LEMMA KeepStep ==
  ASSUME SlotInv, NEW r \in Requests,
         Allow(r) \/ Open(r) \/ Stream(r) \/ Abandon(r)
  PROVE  SlotInv'
<1>1. PICK place \in Served \cup {"abandoned"} : Go(r, place)
  BY DEF Allow, Open, Stream, Abandon, Served
<1>2. pc[r] \in Served /\ UNCHANGED <<free, queue, active, gauge, audit>>
  BY DEF Allow, Open, Stream, Abandon, Served
<1>3. target' \in [Requests -> 0..Targets] /\ voices' \in [Requests -> SUBSET Nat]
  BY DEF Allow, Open, Stream, Abandon, SlotInv, GatewayTypes
<1> QED BY <1>1, <1>2, <1>3, ServedKeeps

\* The steps that only go on to another target, or pass on a chunk.
LEMMA TargetStep ==
  ASSUME SlotInv, NEW r \in Requests, FallBack(r) \/ StreamFallBack(r) \/ Chunk(r)
  PROVE  SlotInv'
<1>1. UNCHANGED <<pc, free, queue, active, gauge, audit>>
  BY DEF FallBack, StreamFallBack, Chunk
<1>2. target' \in [Requests -> 0..Targets] /\ voices' \in [Requests -> SUBSET Nat]
  <2>1. target \in [Requests -> 0..Targets] /\ voices \in [Requests -> SUBSET Nat]
        /\ target[r] \in 0..Targets /\ Targets \in Nat /\ target[r] \in Nat
    BY DEF SlotInv, GatewayTypes
  <2>2. CASE /\ target[r] + 1 < Targets \/ target[r] < Targets
             /\ target' = [target EXCEPT ![r] = @ + 1] /\ voices' = voices
    <3>1. target[r] + 1 \in 0..Targets
      BY <2>1, <2>2
    <3> QED BY <2>1, <2>2, <3>1
  <2>3. CASE target' = target /\ voices' = [voices EXCEPT ![r] = @ \cup {target[r]}]
    <3>1. voices[r] \cup {target[r]} \in SUBSET Nat
      BY <2>1
    <3> QED BY <2>1, <2>3, <3>1
  <2>4. CASE FallBack(r)
    BY <2>2, <2>4 DEF FallBack, MayFallBack
  <2>5. CASE StreamFallBack(r)
    BY <2>2, <2>5 DEF StreamFallBack, MayFallBack
  <2>6. CASE Chunk(r)
    BY <2>3, <2>6 DEF Chunk
  <2> QED BY <2>4, <2>5, <2>6
<1> QED
  BY <1>1, <1>2 DEF SlotInv, GatewayTypes, QueueWaits, NoIdleSlot, SlotsCounted, OneLine

LEMMA SlotStep == SlotInv /\ [Next]_vars => SlotInv'
<1> SUFFICES ASSUME SlotInv, [Next]_vars PROVE SlotInv'
  OBVIOUS
<1>1. CASE Next
  <2>1. PICK r \in Requests : \/ Arrive(r) \/ Resume(r) \/ Serve(r) \/ Chunk(r)
                              \/ Withdraw(r) \/ GiveUp(r) \/ Cancel(r) \/ Abandon(r)
    BY <1>1 DEF Next
  <2> QED
    BY <2>1, ArriveStep, ResumeStep, WithdrawStep, GiveUpStep, FinalStep, KeepStep, TargetStep DEF Serve
<1>2. CASE UNCHANGED vars
  BY <1>2 DEF vars, SlotInv, GatewayTypes, QueueWaits, NoIdleSlot, SlotsCounted, OneLine
<1> QED BY <1>1, <1>2

\* For any number of requests and slots (request_boundary of main.py and the limiter of limits.py):
\* whatever is denied, answered, streamed, cancelled or cut off, slots and counters add up, a
\* slot is free beside a waiter only while a granted request is about to wake the next, and each
\* finalized request has its one audit line.
THEOREM SlotsAddUp == Spec => []SlotsAccounted
<1>1. SlotInv => SlotsAccounted
  <2> SUFFICES ASSUME SlotInv PROVE SlotsAccounted
    OBVIOUS
  <2>1. /\ At(pc, Holding) = In(Served \cup {"granted", "abandoned"})
        /\ At(pc, Admitted) = In(Served \cup {"abandoned"})
    BY DEF At, In, Holding, Admitted
  <2>2. At(pc, InFlight) = Requests \ In({"idle", "done"})
    BY DEF At, In, InFlight, SlotInv, GatewayTypes
  <2> QED
    BY <2>1, <2>2
    DEF SlotInv, SlotsCounted, NoIdleSlot, OneLine, Tally, SlotsAccounted, Holders, Admits, Flying, In
<1> QED BY <1>1, GatewayStart, SlotStep, PTL DEF Spec

-----------------------------------------------------------------------------
(* What a client hears.                                                     *)

Early == {"idle", "waiting", "granted", "admitted", "calling"}

\* No step takes a request back to where nothing has been said.
LEMMA NoneGoesBack ==
  ASSUME SlotInv, NEW r \in Requests,
         \/ Arrive(r) \/ Resume(r) \/ Serve(r) \/ Chunk(r)
         \/ Withdraw(r) \/ GiveUp(r) \/ Cancel(r) \/ Abandon(r)
  PROVE  \A s \in Requests : pc'[s] \in Early => pc[s] \in Early
<1>1. pc \in [Requests -> Places]
  BY DEF SlotInv, GatewayTypes
<1>2. CASE \/ Arrive(r) \/ Allow(r) \/ FallBack(r) \/ Open(r) \/ Stream(r)
           \/ StreamFallBack(r) \/ Chunk(r) \/ Abandon(r) \/ Withdraw(r)
  BY <1>1, <1>2
  DEF Early, Arrive, Allow, FallBack, Open, Stream, StreamFallBack, Chunk, Abandon, Withdraw, Go
<1>3. CASE Resume(r) \/ GiveUp(r)
  <2>1. /\ pc'[r] = "gone" \/ pc[r] = "granted"
        /\ \A s \in Requests : s # r => pc'[s] = pc[s] \/ (pc[s] = "waiting" /\ pc'[s] = "granted")
    <3>1. PICK slots \in Nat, place \in {"gone", "admitted"} :
            /\ WakeAll(slots, r, place)
            /\ place = "gone" \/ pc[r] = "granted"
      <4>1. free \in Nat
        BY DEF SlotInv, GatewayTypes
      <4> QED BY <1>3, <4>1 DEF Resume, GiveUp
    <3>2. PICK n \in Nat : n <= Len(queue) /\ n <= slots /\ Wake(n, slots, r, place)
      <4>1. Len(queue) \in Nat
        BY DEF SlotInv, GatewayTypes
      <4>2. PICK m \in Nat : m = IF slots <= Len(queue) THEN slots ELSE Len(queue)
        BY <4>1
      <4>3. m <= Len(queue) /\ m <= slots
        BY <4>1, <4>2
      <4>4. Wake(m, slots, r, place)
        BY <3>1, <4>2 DEF WakeAll
      <4> QED BY <4>3, <4>4
    <3>3. pc[r] # "waiting" /\ place \in Places /\ place # "waiting"
      BY <1>3 DEF Resume, GiveUp, Places, Served
    <3>4. /\ pc'[r] = place
          /\ \A s \in Requests : s # r => pc'[s] = pc[s] \/ (pc[s] = "waiting" /\ pc'[s] = "granted")
      BY <3>2, <3>3, WakeKeeps
    <3> QED BY <3>1, <3>4
  <2> QED BY <2>1 DEF Early
<1>4. CASE \/ Deny(r) \/ Refuse(r) \/ Answer(r) \/ Fail(r) \/ StreamEnd(r) \/ Cancel(r)
  <2>1. pc[r] \in Served /\ Release(r, "done")
    BY <1>4 DEF Deny, Refuse, Answer, Fail, StreamEnd, Cancel, Finalize, Served
  <2>2. /\ pc'[r] = "done"
        /\ \A s \in Requests : s # r => pc'[s] = pc[s] \/ (pc[s] = "waiting" /\ pc'[s] = "granted")
    BY <2>1, ReleaseKeeps
  <2> QED BY <2>2 DEF Early
<1> QED BY <1>2, <1>3, <1>4 DEF Serve

VoicesSound == SlotInv /\ VoiceOfTarget

OneVoiceStep == \A r \in Requests : /\ Cardinality(voices'[r]) <= 1
                                    /\ voices[r] # {} => target'[r] = target[r]

LEMMA VoiceMoves ==
  ASSUME VoicesSound, NEW r \in Requests,
         \/ Arrive(r) \/ Resume(r) \/ Serve(r) \/ Chunk(r)
         \/ Withdraw(r) \/ GiveUp(r) \/ Cancel(r) \/ Abandon(r)
  PROVE  VoiceOfTarget' /\ \A s \in Requests : voices[s] # {} => target'[s] = target[s]
<1>1. \A s \in Requests : pc'[s] \in Early => pc[s] \in Early
  BY NoneGoesBack DEF VoicesSound
<1>2. /\ target \in [Requests -> 0..Targets] /\ voices \in [Requests -> SUBSET Nat]
      /\ \A s \in Requests : voices[s] \subseteq {target[s]} /\ (pc[s] \in Early => voices[s] = {})
  BY DEF VoicesSound, SlotInv, GatewayTypes, VoiceOfTarget, Early
<1>3. CASE UNCHANGED <<target, voices>>
  BY <1>1, <1>2, <1>3 DEF VoiceOfTarget, Early
<1>4. CASE /\ voices[r] = {} /\ voices' = voices
           /\ \E n \in 0..(Targets + 1) : target' = [target EXCEPT ![r] = n]
  BY <1>1, <1>2, <1>4 DEF VoiceOfTarget, Early
<1>5. CASE /\ voices[r] = {} /\ voices' = [voices EXCEPT ![r] = @ \cup {target[r] + 1}]
           /\ target' = [target EXCEPT ![r] = @ + 1] /\ pc'[r] = "done"
  <2>1. voices'[r] = {target'[r]} /\ pc'[r] \notin Early
    BY <1>2, <1>5 DEF Early
  <2>2. \A s \in Requests : s # r => voices'[s] = voices[s] /\ target'[s] = target[s]
    BY <1>2, <1>5
  <2> QED BY <1>1, <1>2, <1>5, <2>1, <2>2 DEF VoiceOfTarget, Early
<1>6. CASE voices' = [voices EXCEPT ![r] = @ \cup {target[r]}] /\ target' = target /\ pc'[r] = "streaming"
  <2>1. voices'[r] \subseteq {target'[r]} /\ pc'[r] \notin Early
    BY <1>2, <1>6 DEF Early
  <2>2. \A s \in Requests : s # r => voices'[s] = voices[s] /\ target'[s] = target[s]
    BY <1>2, <1>6
  <2> QED BY <1>1, <1>2, <1>6, <2>1, <2>2 DEF VoiceOfTarget, Early
<1>7. CASE FallBack(r) \/ Fail(r) \/ Open(r) \/ StreamFallBack(r)
  <2>1. voices[r] = {} /\ voices' = voices
    BY <1>2, <1>7 DEF FallBack, Fail, Open, StreamFallBack, MayFallBack, Early
  <2>2. target' = [target EXCEPT ![r] = target[r] + 1] \/ target' = [target EXCEPT ![r] = 1]
    BY <1>7 DEF FallBack, Fail, Open, StreamFallBack
  <2>3. target[r] + 1 \in 0..(Targets + 1) /\ 1 \in 0..(Targets + 1)
    BY <1>2
  <2>4. \E n \in 0..(Targets + 1) : target' = [target EXCEPT ![r] = n]
    BY <2>2, <2>3
  <2> QED BY <2>1, <2>4, <1>4
<1>8. CASE Answer(r)
  <2>1. pc[r] \in Served /\ Release(r, "done") /\ pc[r] \in Early
    BY <1>8 DEF Answer, Finalize, Served, Early
  <2>2. pc'[r] = "done"
    BY <2>1, ReleaseKeeps DEF VoicesSound
  <2> QED BY <1>2, <1>5, <1>8, <2>1, <2>2 DEF Answer
<1>9. CASE Chunk(r)
  BY <1>6, <1>9 DEF Chunk
<1> QED
  BY <1>3, <1>7, <1>8, <1>9
  DEF Arrive, Resume, Withdraw, GiveUp, Deny, Allow, Refuse, StreamEnd, Cancel, Stream, Abandon, Serve

LEMMA VoiceStep == VoicesSound /\ [Next]_vars => VoicesSound'
<1> SUFFICES ASSUME VoicesSound, [Next]_vars PROVE VoicesSound'
  OBVIOUS
<1>1. SlotInv'
  BY SlotStep DEF VoicesSound
<1>2. CASE Next
  BY <1>1, <1>2, VoiceMoves DEF Next, VoicesSound
<1>3. CASE UNCHANGED vars
  BY <1>1, <1>3 DEF VoicesSound, VoiceOfTarget, vars
<1> QED BY <1>2, <1>3

\* For any number of requests and targets (ProviderRouter.execute and stream of router.py): whatever
\* fails and whenever, a client hears one target at most, and once it has, no other is asked.
THEOREM OneTargetIsHeard == Spec => OneVoice
<1>1. VoicesSound /\ VoicesSound' /\ [Next]_vars => [OneVoiceStep]_vars
  <2> SUFFICES ASSUME VoicesSound, VoicesSound', Next, NEW r \in Requests
               PROVE  Cardinality(voices'[r]) <= 1 /\ (voices[r] # {} => target'[r] = target[r])
    BY DEF OneVoiceStep
  <2>1. voices[r] # {} => target'[r] = target[r]
    BY VoiceMoves DEF Next
  <2>2. voices'[r] = {} \/ voices'[r] = {target'[r]}
    BY DEF VoicesSound, VoiceOfTarget
  <2>3. Cardinality(voices'[r]) <= 1
    <3>1. Cardinality({}) = 0
      BY FS_EmptySet
    <3>2. Cardinality({target'[r]}) = 1
      BY FS_Singleton
    <3> QED BY <2>2, <3>1, <3>2
  <2> QED BY <2>1, <2>3
<1>2. [][OneVoiceStep]_vars => OneVoice
  BY PTL DEF OneVoice, OneVoiceStep
<1>3. Init => VoicesSound
  BY GatewayStart DEF VoicesSound
<1> QED BY <1>1, <1>2, <1>3, VoiceStep, PTL DEF Spec

-----------------------------------------------------------------------------
(* Sequences of sequences joined                                            *)

\* Two of them.
Joint(s, t) == s \o t

\* Items of both, in order; nothing added changes nothing.
LEMMA JointIs ==
  ASSUME NEW S, NEW s \in Seq(S), NEW t \in Seq(S)
  PROVE  /\ Joint(s, t) \in Seq(S) /\ Joint(s, t) = s \o t
         /\ Joint(s, <<>>) = s /\ Joint(<<>>, t) = t
         /\ Len(Joint(s, t)) = Len(s) + Len(t)
         /\ \A i \in 1..Len(s) : Joint(s, t)[i] = s[i]
         /\ \A i \in 1..Len(t) : Joint(s, t)[Len(s) + i] = t[i]
  <1>1. PICK n \in Nat, m \in Nat : n = Len(s) /\ m = Len(t) OBVIOUS
  <1>2. PICK u : u = Joint(s, t) OBVIOUS
  <1>3. u = s \o t BY <1>2 DEF Joint
  <1>4. u \in Seq(S) /\ Len(u) = n + m BY <1>1, <1>3
  <1>5. (\A i \in 1..n : u[i] = s[i]) /\ (\A i \in 1..m : u[n + i] = t[i]) BY <1>1, <1>3
  <1>6. s \o <<>> = s /\ <<>> \o t = t OBVIOUS
  <1> QED BY <1>1, <1>2, <1>3, <1>4, <1>5, <1>6 DEF Joint

\* Joining three, either way.
LEMMA JointThree ==
  ASSUME NEW S, NEW s \in Seq(S), NEW t \in Seq(S), NEW u \in Seq(S)
  PROVE  Joint(Joint(s, t), u) = Joint(s, Joint(t, u))
  <1>1. (s \o t) \o u = s \o (t \o u) OBVIOUS
  <1> QED BY <1>1 DEF Joint

\* The same, by a name.
IsJoint(u, s, t, S) ==
  /\ u \in Seq(S) /\ Len(u) = Len(s) + Len(t)
  /\ \A k \in 1..Len(s) : u[k] = s[k]
  /\ \A k \in 1..Len(t) : u[Len(s) + k] = t[k]

\* Two sequences joined are just that.
LEMMA JointAt ==
  ASSUME NEW S, NEW s \in Seq(S), NEW t \in Seq(S)
  PROVE  IsJoint(Joint(s, t), s, t, S)
  <1>1. PICK n \in Nat, m \in Nat : n = Len(s) /\ m = Len(t) OBVIOUS
  <1>2. PICK u : u = s \o t OBVIOUS
  <1>3. u \in Seq(S) /\ Len(u) = n + m BY <1>1, <1>2
  <1>4. (\A i \in 1..n : u[i] = s[i]) /\ (\A i \in 1..m : u[n + i] = t[i]) BY <1>1, <1>2
  <1>5. IsJoint(u, s, t, S) BY <1>1, <1>3, <1>4 DEF IsJoint
  <1> QED BY <1>2, <1>5 DEF Joint

\* h[k] is the first k of s, joined.
IsJoined(h, s, S) ==
  /\ h \in [0..Len(s) -> Seq(S)] /\ h[0] = <<>>
  /\ \A k \in 1..Len(s) : h[k] = Joint(h[k - 1], s[k])

\* There is a function of the prefixes joined.
LEMMA JoinedExist ==
  ASSUME NEW S, NEW s \in Seq(Seq(S))
  PROVE  \E h : IsJoined(h, s, S)
  <1> DEFINE To(h, m) == /\ h \in [0..m -> Seq(S)] /\ h[0] = <<>>
                         /\ \A k \in 1..m : h[k] = Joint(h[k - 1], s[k])
  <1> PICK n \in Nat : n = Len(s) OBVIOUS
  <1> HIDE DEF To
  <1> DEFINE T == {m \in 0..n : ~\E h : To(h, m)}
  <1>1. SUFFICES ASSUME T # {} PROVE FALSE
    <2>1. n \in 0..n /\ n \notin T BY <1>1
    <2>2. PICK h : To(h, n) BY <2>1
    <2>3. IsJoined(h, s, S) BY <2>2 DEF To, IsJoined
    <2> QED BY <2>3
  <1>2. T \in SUBSET Nat OBVIOUS
  <1>3. PICK m \in T : \A l \in T : m <= l
    <2> HIDE DEF T
    <2> QED BY <1>1, <1>2, Least
  <1>4. CASE m = 0
    <2>1. To([k \in 0..0 |-> <<>>], 0) BY DEF To
    <2> QED BY <1>4, <2>1
  <1>5. CASE m # 0
    <2>1. m - 1 \in 0..n /\ m \in 1..n /\ m - 1 \in Nat /\ ~(m <= m - 1) BY <1>5
    <2>2. m - 1 \notin T
      <3> HIDE DEF T
      <3> QED BY <1>3, <2>1
    <2>3. PICK h : To(h, m - 1) BY <2>1, <2>2
    <2>4. PICK j : j = [k \in 0..m |-> IF k = m THEN Joint(h[m - 1], s[m]) ELSE h[k]] OBVIOUS
    <2>5. h \in [0..(m - 1) -> Seq(S)] /\ s[m] \in Seq(S)
      <3>1. \A k \in 1..n : s[k] \in Seq(S) OBVIOUS
      <3> QED BY <2>1, <2>3, <3>1 DEF To
    <2>6. Joint(h[m - 1], s[m]) \in Seq(S)
      <3>1. m - 1 \in 0..(m - 1) BY <2>1
      <3>2. h[m - 1] \in Seq(S) BY <2>5, <3>1
      <3> QED BY <2>5, <3>2, JointIs
    <2>7. \A k \in 0..m : k \in 0..(m - 1) \/ k = m BY <2>1
    <2>8. j \in [0..m -> Seq(S)] BY <2>4, <2>5, <2>6, <2>7
    <2>9. 0 \in 0..m /\ j[0] = <<>> BY <1>5, <2>1, <2>3, <2>4 DEF To
    <2>10. ASSUME NEW k \in 1..m PROVE j[k] = Joint(j[k - 1], s[k])
      <3>1. k - 1 \in 0..(m - 1) /\ k - 1 \in 0..m /\ k - 1 # m /\ k \in 0..m BY <2>1
      <3>2. j[k - 1] = h[k - 1] BY <2>4, <3>1
      <3>3. CASE k = m BY <2>4, <3>1, <3>2, <3>3
      <3>4. CASE k # m
        <4>1. k \in 1..(m - 1) BY <2>1, <3>4
        <4>2. h[k] = Joint(h[k - 1], s[k]) BY <2>3, <4>1 DEF To
        <4> QED BY <2>4, <3>1, <3>2, <3>4, <4>2
      <3> QED BY <3>3, <3>4
    <2>11. To(j, m) BY <2>8, <2>9, <2>10 DEF To
    <2> QED BY <2>11
  <1> QED BY <1>4, <1>5

\* It ends in the flattened sequence.
LEMMA FlatIs ==
  ASSUME NEW S, NEW s \in Seq(Seq(S)), NEW h, IsJoined(h, s, S)
  PROVE  /\ FlattenSeq(s) = h[Len(s)] /\ FlattenSeq(s) \in Seq(S)
  <1>1. PICK n \in Nat : n = Len(s) /\ DOMAIN s = 1..n OBVIOUS
  <1>2. h \in [0..n -> Seq(S)] /\ h[0] = <<>> /\ \A k \in 1..n : h[k] = Joint(h[k - 1], s[k])
    BY <1>1 DEF IsJoined
  <1>3. h[n] \in Seq(S) BY <1>2
  <1>4. CASE n = 0
    <2>1. s = <<>> BY <1>1, <1>4
    <2>2. FlattenSeq(s) = s BY <1>1, <1>4 DEF FlattenSeq
    <2> QED BY <1>1, <1>2, <1>3, <1>4, <2>1, <2>2
  <1>5. CASE n # 0
    <2> DEFINE Turn(f) == [i \in 1..n |-> IF i = 1 THEN s[i] ELSE f[i - 1] \o s[i]]
    <2>1. PICK g : g = [i \in 1..n |-> h[i]] OBVIOUS
    <2>2. ASSUME NEW i \in 1..n PROVE g[i] = IF i = 1 THEN s[i] ELSE g[i - 1] \o s[i]
      <3>1. g[i] = Joint(h[i - 1], s[i]) BY <1>2, <2>1
      <3>2. s[i] \in Seq(S) BY <1>1
      <3>3. CASE i = 1
        <4>1. h[i - 1] = <<>> BY <1>2, <3>3
        <4>2. Joint(<<>>, s[i]) = s[i] BY <3>2, JointIs
        <4> QED BY <3>1, <3>3, <4>1, <4>2
      <3>4. CASE i # 1
        <4>1. i - 1 \in 1..n BY <3>4
        <4>2. g[i - 1] = h[i - 1] BY <2>1, <4>1
        <4> QED BY <3>1, <3>4, <4>2 DEF Joint
      <3> QED BY <3>3, <3>4
    <2>3. g = Turn(g) BY <2>1, <2>2
    <2>4. PICK f : f = CHOOSE x : x = Turn(x) OBVIOUS
    <2>5. f = Turn(f) BY <2>3, <2>4
    <2>6. FlattenSeq(s) = f[n] BY <1>1, <1>5, <2>4 DEF FlattenSeq
    <2> DEFINE T == {m \in 1..n : f[m] # g[m]}
    <2>7. T = {}
      <3> SUFFICES ASSUME T # {} PROVE FALSE OBVIOUS
      <3>1. T \in SUBSET Nat OBVIOUS
      <3>2. PICK m \in T : \A l \in T : m <= l
        <4> HIDE DEF T
        <4> QED BY <3>1, Least
      <3>3. f[m] = IF m = 1 THEN s[m] ELSE f[m - 1] \o s[m] BY <2>5
      <3>4. g[m] = IF m = 1 THEN s[m] ELSE g[m - 1] \o s[m] BY <2>2
      <3>5. m # 1 BY <3>3, <3>4
      <3>6. m - 1 \in 1..n /\ ~(m <= m - 1) BY <3>5
      <3>7. f[m - 1] = g[m - 1] BY <3>2, <3>6
      <3> QED BY <3>3, <3>4, <3>7
    <2>8. n \in 1..n BY <1>5
    <2>9. f[n] = g[n] BY <2>7, <2>8
    <2>10. FlattenSeq(s) = h[n] BY <2>1, <2>6, <2>8, <2>9
    <2> QED BY <1>1, <1>3, <2>10
  <1> QED BY <1>4, <1>5

\* The parts of the parts.
LEMMA FlatJoined ==
  ASSUME NEW S, NEW s \in Seq(Seq(S)), NEW t \in Seq(Seq(S))
  PROVE  FlattenSeq(Joint(s, t)) = Joint(FlattenSeq(s), FlattenSeq(t))
  <1>1. PICK n \in Nat, m \in Nat : n = Len(s) /\ m = Len(t) OBVIOUS
  <1>2. PICK h, g : IsJoined(h, s, S) /\ IsJoined(g, t, S) BY JoinedExist
  <1>3. /\ FlattenSeq(s) = h[n] /\ FlattenSeq(t) = g[m] BY <1>1, <1>2, FlatIs
  <1>4. /\ h \in [0..n -> Seq(S)] /\ h[0] = <<>>
        /\ \A k \in 1..n : h[k] = Joint(h[k - 1], s[k])
        /\ g \in [0..m -> Seq(S)] /\ g[0] = <<>>
        /\ \A k \in 1..m : g[k] = Joint(g[k - 1], t[k])
    BY <1>1, <1>2 DEF IsJoined
  <1>5. PICK u : u = Joint(s, t) OBVIOUS
  <1>6. /\ u \in Seq(Seq(S)) /\ Len(u) = n + m
        /\ \A k \in 1..n : u[k] = s[k]
        /\ \A k \in 1..m : u[n + k] = t[k]
    <2>1. IsJoint(u, s, t, Seq(S)) BY <1>5, JointAt
    <2> QED BY <1>1, <2>1 DEF IsJoint
  <1>7. PICK j : j = [k \in 0..(n + m) |-> IF k <= n THEN h[k] ELSE Joint(h[n], g[k - n])] OBVIOUS
  <1>8. h[n] \in Seq(S) /\ \A k \in 0..m : g[k] \in Seq(S) BY <1>4
  <1>9. \A k \in 0..m : Joint(h[n], g[k]) \in Seq(S) BY <1>8, JointIs
  <1>10. j \in [0..(n + m) -> Seq(S)]
    <2> SUFFICES ASSUME NEW k \in 0..(n + m)
                 PROVE  (IF k <= n THEN h[k] ELSE Joint(h[n], g[k - n])) \in Seq(S)
      BY <1>7
    <2>1. CASE k <= n
      <3>1. k \in 0..n BY <2>1
      <3> QED BY <1>4, <2>1, <3>1
    <2>2. CASE ~(k <= n)
      <3>1. k - n \in 0..m BY <2>2
      <3> QED BY <1>9, <2>2, <3>1
    <2> QED BY <2>1, <2>2
  <1>11. 0 \in 0..(n + m) /\ 0 <= n /\ j[0] = <<>> BY <1>4, <1>7
  <1>12. ASSUME NEW k \in 1..(n + m) PROVE j[k] = Joint(j[k - 1], u[k])
    <2>1. k \in 0..(n + m) /\ k - 1 \in 0..(n + m) OBVIOUS
    <2>2. CASE k <= n
      <3>1. k \in 1..n /\ k - 1 <= n BY <2>2
      <3>2. h[k] = Joint(h[k - 1], s[k]) /\ u[k] = s[k] BY <1>4, <1>6, <3>1
      <3> QED BY <1>7, <2>1, <2>2, <3>1, <3>2
    <2>3. CASE ~(k <= n)
      <3>1. PICK l \in 1..m : k = n + l
        <4>1. k - n \in 1..m /\ k = n + (k - n) BY <2>3
        <4> QED BY <4>1
      <3>2. u[k] = t[l] /\ t[l] \in Seq(S) /\ g[l] = Joint(g[l - 1], t[l])
        BY <1>1, <1>4, <1>6, <3>1
      <3>3. j[k] = Joint(h[n], g[l])
        <4>1. k - n = l BY <3>1
        <4> QED BY <1>7, <2>1, <2>3, <4>1
      <3>4. l - 1 \in 0..m /\ g[l - 1] \in Seq(S) BY <1>8
      <3>5. j[k - 1] = Joint(h[n], g[l - 1])
        <4>1. CASE l = 1
          <5>1. k - 1 = n /\ k - 1 <= n /\ l - 1 = 0 BY <3>1, <4>1
          <5>2. j[k - 1] = h[n] BY <1>7, <2>1, <5>1
          <5>3. Joint(h[n], <<>>) = h[n] BY <1>8, JointIs
          <5> QED BY <1>4, <5>1, <5>2, <5>3
        <4>2. CASE l # 1
          <5>1. ~(k - 1 <= n) /\ (k - 1) - n = l - 1 BY <3>1, <4>2
          <5> QED BY <1>7, <2>1, <5>1
        <4> QED BY <4>1, <4>2
      <3>6. Joint(Joint(h[n], g[l - 1]), t[l]) = Joint(h[n], Joint(g[l - 1], t[l]))
        BY <1>8, <3>2, <3>4, JointThree
      <3> QED BY <3>2, <3>3, <3>5, <3>6
    <2> QED BY <2>2, <2>3
  <1>13. IsJoined(j, u, S) BY <1>6, <1>10, <1>11, <1>12 DEF IsJoined
  <1>14. FlattenSeq(u) = j[n + m] BY <1>6, <1>13, FlatIs
  <1>15. j[n + m] = Joint(h[n], g[m])
    <2>1. n + m \in 0..(n + m) OBVIOUS
    <2>2. CASE m = 0
      <3>1. n + m <= n /\ n + m = n BY <2>2
      <3>2. Joint(h[n], <<>>) = h[n] BY <1>8, JointIs
      <3> QED BY <1>4, <1>7, <2>1, <2>2, <3>1, <3>2
    <2>3. CASE m # 0
      <3>1. ~(n + m <= n) /\ (n + m) - n = m BY <2>3
      <3> QED BY <1>7, <2>1, <3>1
    <2> QED BY <2>2, <2>3
  <1> QED BY <1>3, <1>5, <1>14, <1>15

\* Nothing flattened is nothing,
LEMMA FlatNone == FlattenSeq(<<>>) = <<>> BY DEF FlattenSeq

\* and one sequence is itself.
LEMMA FlatOne ==
  ASSUME NEW S, NEW x \in Seq(S)
  PROVE  FlattenSeq(<<x>>) = x
  <1>1. PICK s : s = <<x>> OBVIOUS
  <1>2. s \in Seq(Seq(S)) /\ Len(s) = 1 /\ s[1] = x BY <1>1
  <1>3. PICK h : IsJoined(h, s, S) BY <1>2, JoinedExist
  <1>4. h[1] = Joint(h[0], x) /\ h[0] = <<>>
    <2>1. 1 \in 1..Len(s) /\ 1 - 1 = 0 BY <1>2
    <2> QED BY <1>2, <1>3, <2>1 DEF IsJoined
  <1>5. FlattenSeq(s) = h[1] BY <1>2, <1>3, FlatIs
  <1> QED BY <1>1, <1>4, <1>5, JointIs

-----------------------------------------------------------------------------
(* What a conversion makes of each item, joined.                            *)

Mapped(f, s) == [i \in DOMAIN s |-> f[s[i]]]
FlatMap(f, s) == FlattenSeq(Mapped(f, s))

\* A sequence mapped has the images of its items.
IsMapped(u, f, s, S) ==
  u \in Seq(S) /\ Len(u) = Len(s) /\ \A i \in 1..Len(s) : u[i] = f[s[i]]

\* The same, by that name.
LEMMA MappedAt ==
  ASSUME NEW T, NEW S, NEW f \in [T -> S], NEW s \in Seq(T)
  PROVE  IsMapped(Mapped(f, s), f, s, S)
  <1>1. PICK n \in Nat : n = Len(s) /\ DOMAIN s = 1..n OBVIOUS
  <1>2. PICK u : u = Mapped(f, s) OBVIOUS
  <1>3. \A i \in 1..n : s[i] \in T /\ f[s[i]] \in S BY <1>1
  <1>4. u = [i \in 1..n |-> f[s[i]]] BY <1>1, <1>2 DEF Mapped
  <1>5. u \in [1..n -> S] BY <1>3, <1>4
  <1>6. u \in Seq(S) /\ Len(u) = n BY <1>5
  <1>7. IsMapped(u, f, s, S) BY <1>1, <1>4, <1>6 DEF IsMapped
  <1> QED BY <1>2, <1>7

MapAdds(f, T, S) ==
  \A s, t \in Seq(T) :
    /\ Mapped(f, s) \in Seq(S)
    /\ Mapped(f, Joint(s, t)) = Joint(Mapped(f, s), Mapped(f, t))

\* Mapping a sequence maps its parts.
LEMMA MappedJoined ==
  ASSUME NEW T, NEW S, NEW f \in [T -> S]
  PROVE  MapAdds(f, T, S)
  <1> SUFFICES ASSUME NEW s \in Seq(T), NEW t \in Seq(T)
               PROVE  /\ Mapped(f, s) \in Seq(S)
                      /\ Mapped(f, Joint(s, t)) = Joint(Mapped(f, s), Mapped(f, t))
    BY DEF MapAdds
  <1>1. PICK n \in Nat, m \in Nat : n = Len(s) /\ m = Len(t) OBVIOUS
  <1>2. PICK u : u = Joint(s, t) OBVIOUS
  <1>3. /\ u \in Seq(T) /\ Len(u) = n + m
        /\ \A k \in 1..n : u[k] = s[k]
        /\ \A k \in 1..m : u[n + k] = t[k]
    <2>1. IsJoint(u, s, t, T) BY <1>2, JointAt
    <2> QED BY <1>1, <2>1 DEF IsJoint
  <1>4. PICK a, b, c : a = Mapped(f, s) /\ b = Mapped(f, t) /\ c = Mapped(f, u) OBVIOUS
  <1>5. /\ a \in Seq(S) /\ Len(a) = n /\ \A i \in 1..n : a[i] = f[s[i]]
        /\ b \in Seq(S) /\ Len(b) = m /\ \A i \in 1..m : b[i] = f[t[i]]
        /\ c \in Seq(S) /\ Len(c) = n + m /\ \A i \in 1..(n + m) : c[i] = f[u[i]]
    <2>1. IsMapped(a, f, s, S) /\ IsMapped(b, f, t, S) /\ IsMapped(c, f, u, S)
      BY <1>3, <1>4, MappedAt
    <2> QED BY <1>1, <1>3, <2>1 DEF IsMapped
  <1>6. PICK d : d = Joint(a, b) OBVIOUS
  <1>7. /\ d \in Seq(S) /\ Len(d) = n + m
        /\ \A k \in 1..n : d[k] = a[k]
        /\ \A k \in 1..m : d[n + k] = b[k]
    <2>1. IsJoint(d, a, b, S) BY <1>5, <1>6, JointAt
    <2> QED BY <1>5, <2>1 DEF IsJoint
  <1>8. ASSUME NEW i \in 1..(n + m) PROVE c[i] = d[i]
    <2>1. CASE i <= n
      <3>1. i \in 1..n BY <2>1
      <3>2. c[i] = f[u[i]] /\ u[i] = s[i] BY <1>3, <1>5, <3>1
      <3>3. d[i] = a[i] /\ a[i] = f[s[i]] BY <1>5, <1>7, <3>1
      <3> QED BY <3>2, <3>3
    <2>2. CASE ~(i <= n)
      <3>1. PICK l \in 1..m : i = n + l
        <4>1. i - n \in 1..m /\ i = n + (i - n) BY <2>2
        <4> QED BY <4>1
      <3>2. c[i] = f[u[n + l]] /\ u[n + l] = t[l] BY <1>3, <1>5, <3>1
      <3>3. d[i] = b[l] /\ b[l] = f[t[l]] BY <1>5, <1>7, <3>1
      <3> QED BY <3>2, <3>3
    <2> QED BY <2>1, <2>2
  <1>9. c = d BY <1>5, <1>7, <1>8
  <1> QED BY <1>2, <1>4, <1>5, <1>6, <1>9

FlatMapAdds(f, T, S) ==
  \A s, t \in Seq(T) :
    /\ FlatMap(f, s) \in Seq(S)
    /\ FlatMap(f, Joint(s, t)) = Joint(FlatMap(f, s), FlatMap(f, t))

\* So does mapping each item to a sequence, and joining these.
LEMMA FlatMapIs ==
  ASSUME NEW T, NEW S, NEW f \in [T -> Seq(S)]
  PROVE  FlatMapAdds(f, T, S)
  <1> SUFFICES ASSUME NEW s \in Seq(T), NEW t \in Seq(T)
               PROVE  /\ FlatMap(f, s) \in Seq(S)
                      /\ FlatMap(f, Joint(s, t)) = Joint(FlatMap(f, s), FlatMap(f, t))
    BY DEF FlatMapAdds
  <1>1. MapAdds(f, T, Seq(S)) BY MappedJoined
  <1>2. /\ Mapped(f, s) \in Seq(Seq(S)) /\ Mapped(f, t) \in Seq(Seq(S))
        /\ Mapped(f, Joint(s, t)) = Joint(Mapped(f, s), Mapped(f, t))
    BY <1>1 DEF MapAdds
  <1>3. FlatMap(f, s) \in Seq(S)
    <2>1. PICK u \in Seq(Seq(S)) : u = Mapped(f, s) BY <1>2
    <2>2. PICK h : IsJoined(h, u, S) BY JoinedExist
    <2>3. FlattenSeq(u) \in Seq(S) BY <2>2, FlatIs
    <2> QED BY <2>1, <2>3 DEF FlatMap
  <1>4. FlattenSeq(Joint(Mapped(f, s), Mapped(f, t)))
          = Joint(FlattenSeq(Mapped(f, s)), FlattenSeq(Mapped(f, t)))
    BY <1>2, FlatJoined
  <1> QED BY <1>2, <1>3, <1>4 DEF FlatMap

\* Where such a sequence is.
LEMMA FlatMapIn ==
  ASSUME NEW T, NEW S, NEW f \in [T -> Seq(S)], NEW s \in Seq(T)
  PROVE  FlatMap(f, s) \in Seq(S)
  <1>1. FlatMapAdds(f, T, S) BY FlatMapIs
  <1> QED BY <1>1 DEF FlatMapAdds

\* Of nothing it is nothing,
LEMMA FlatMapNone ==
  ASSUME NEW f
  PROVE  FlatMap(f, <<>>) = <<>>
  <1>1. Mapped(f, <<>>) = <<>> BY DEF Mapped
  <1> QED BY <1>1, FlatNone DEF FlatMap

\* and of one item what that is mapped to.
LEMMA FlatMapOne ==
  ASSUME NEW T, NEW S, NEW f \in [T -> Seq(S)], NEW x \in T
  PROVE  FlatMap(f, <<x>>) = f[x]
  <1>1. PICK s : s = <<x>> OBVIOUS
  <1>2. s \in Seq(T) /\ Len(s) = 1 /\ s[1] = x BY <1>1
  <1>3. PICK u : u = Mapped(f, s) OBVIOUS
  <1>4. u \in Seq(Seq(S)) /\ Len(u) = 1 /\ \A i \in 1..1 : u[i] = f[s[i]]
    <2>1. IsMapped(u, f, s, Seq(S)) BY <1>2, <1>3, MappedAt
    <2> QED BY <1>2, <2>1 DEF IsMapped
  <1>5. u[1] = f[x] BY <1>2, <1>4
  <1>6. u = <<f[x]>> BY <1>4, <1>5
  <1>7. f[x] \in Seq(S) OBVIOUS
  <1>8. FlattenSeq(u) = f[x] BY <1>6, <1>7, FlatOne
  <1> QED BY <1>1, <1>3, <1>8 DEF FlatMap

\* One conversion after another.
IsAfter(fg, g, f, T, R) ==
  /\ fg \in [T -> Seq(R)]
  /\ \A s \in Seq(T) : FlatMap(g, FlatMap(f, s)) = FlatMap(fg, s)

\* Mapping twice is mapping once.
LEMMA AfterIs ==
  ASSUME NEW T, NEW S, NEW R, NEW f \in [T -> Seq(S)], NEW g \in [S -> Seq(R)],
         NEW fg, fg = [x \in T |-> FlatMap(g, f[x])]
  PROVE  IsAfter(fg, g, f, T, R)
  <1>0. fg \in [T -> Seq(R)]
    <2>1. \A x \in T : FlatMap(g, f[x]) \in Seq(R)
      <3> SUFFICES ASSUME NEW x \in T PROVE FlatMap(g, f[x]) \in Seq(R) OBVIOUS
      <3>1. f[x] \in Seq(S) OBVIOUS
      <3> QED BY <3>1, FlatMapIn
    <2> QED BY <2>1
  <1> SUFFICES ASSUME NEW s \in Seq(T)
               PROVE  FlatMap(g, FlatMap(f, s)) = FlatMap(fg, s)
    BY <1>0 DEF IsAfter
  <1>1. PICK n \in Nat : n = Len(s) OBVIOUS
  <1>2. PICK u : u = Mapped(f, s) OBVIOUS
  <1>3. u \in Seq(Seq(S)) /\ Len(u) = n /\ \A i \in 1..n : u[i] = f[s[i]]
    <2>1. IsMapped(u, f, s, Seq(S)) BY <1>2, MappedAt
    <2> QED BY <1>1, <2>1 DEF IsMapped
  <1>4. PICK h : IsJoined(h, u, S) BY <1>3, JoinedExist
  <1>5. /\ h \in [0..n -> Seq(S)] /\ h[0] = <<>>
        /\ \A k \in 1..n : h[k] = Joint(h[k - 1], u[k])
    BY <1>3, <1>4 DEF IsJoined
  <1>6. FlatMap(f, s) = h[n] BY <1>2, <1>3, <1>4, FlatIs DEF FlatMap
  <1>8. PICK v : v = Mapped(fg, s) OBVIOUS
  <1>9. v \in Seq(Seq(R)) /\ Len(v) = n /\ \A i \in 1..n : v[i] = fg[s[i]]
    <2>1. IsMapped(v, fg, s, Seq(R)) BY <1>0, <1>8, MappedAt
    <2> QED BY <1>1, <2>1 DEF IsMapped
  <1>10. PICK j : j = [k \in 0..n |-> FlatMap(g, h[k])] OBVIOUS
  <1>11. \A k \in 0..n : FlatMap(g, h[k]) \in Seq(R)
    <2> SUFFICES ASSUME NEW k \in 0..n PROVE FlatMap(g, h[k]) \in Seq(R) OBVIOUS
    <2>1. h[k] \in Seq(S) BY <1>5
    <2> QED BY <2>1, FlatMapIn
  <1>12. j \in [0..n -> Seq(R)] BY <1>10, <1>11
  <1>13. j[0] = <<>>
    <2>1. 0 \in 0..n OBVIOUS
    <2> QED BY <1>5, <1>10, <2>1, FlatMapNone
  <1>14. ASSUME NEW k \in 1..n PROVE j[k] = Joint(j[k - 1], v[k])
    <2>1. k \in 0..n /\ k - 1 \in 0..n OBVIOUS
    <2>2. h[k - 1] \in Seq(S) /\ u[k] \in Seq(S)
      <3>1. h[k - 1] \in Seq(S) BY <1>5, <2>1
      <3>2. k \in 1..n /\ \A i \in 1..n : u[i] \in Seq(S) BY <1>3
      <3> QED BY <3>1, <3>2
    <2>3. FlatMap(g, Joint(h[k - 1], u[k])) = Joint(FlatMap(g, h[k - 1]), FlatMap(g, u[k]))
      <3>1. FlatMapAdds(g, S, R) BY FlatMapIs
      <3> QED BY <2>2, <3>1 DEF FlatMapAdds
    <2>4. v[k] = FlatMap(g, u[k])
      <3>1. s[k] \in T BY <1>1
      <3> QED BY <1>3, <1>9, <3>1
    <2> QED BY <1>5, <1>10, <2>1, <2>3, <2>4
  <1>15. IsJoined(j, v, R) BY <1>9, <1>12, <1>13, <1>14 DEF IsJoined
  <1>16. FlatMap(fg, s) = j[n] BY <1>8, <1>9, <1>15, FlatIs DEF FlatMap
  <1>17. n \in 0..n OBVIOUS
  <1> QED BY <1>6, <1>10, <1>16, <1>17

\* The items are those that something was converted to.
LEMMA JointItems ==
  ASSUME NEW S, NEW s \in Seq(S), NEW t \in Seq(S)
  PROVE  ToSet(Joint(s, t)) = ToSet(s) \union ToSet(t)
  <1>1. PICK n \in Nat, m \in Nat : n = Len(s) /\ m = Len(t) OBVIOUS
  <1>2. DOMAIN s = 1..n /\ DOMAIN t = 1..m BY <1>1
  <1>3. PICK u : u = Joint(s, t) OBVIOUS
  <1>4. /\ u \in Seq(S) /\ Len(u) = n + m
        /\ \A k \in 1..n : u[k] = s[k]
        /\ \A k \in 1..m : u[n + k] = t[k]
    <2>1. IsJoint(u, s, t, S) BY <1>3, JointAt
    <2> QED BY <1>1, <2>1 DEF IsJoint
  <1>5. DOMAIN u = 1..(n + m) BY <1>4
  <1>6. \A i \in 1..n : i \in 1..(n + m)  OBVIOUS
  <1>7. \A i \in 1..m : n + i \in 1..(n + m)  OBVIOUS
  <1>8. ASSUME NEW i \in 1..(n + m) PROVE i \in 1..n \/ \E k \in 1..m : i = n + k
    <2>1. CASE i <= n BY <2>1
    <2>2. CASE i > n
      <3>1. i - n \in 1..m /\ i = n + (i - n) BY <2>2
      <3> QED BY <3>1
    <2> QED BY <2>1, <2>2
  <1>9. ASSUME NEW x \in ToSet(u) PROVE x \in ToSet(s) \union ToSet(t)
    <2>1. PICK i \in 1..(n + m) : x = u[i] BY <1>5, <1>9 DEF ToSet
    <2>2. CASE i \in 1..n BY <1>2, <1>4, <2>1, <2>2 DEF ToSet
    <2>3. CASE \E k \in 1..m : i = n + k
      <3>1. PICK k \in 1..m : x = t[k] BY <1>4, <2>1, <2>3
      <3> QED BY <1>2, <3>1 DEF ToSet
    <2> QED BY <1>8, <2>2, <2>3
  <1>10. ASSUME NEW x \in ToSet(s) PROVE x \in ToSet(u)
    <2>1. PICK i \in 1..n : x = s[i] BY <1>2, <1>10 DEF ToSet
    <2> QED BY <1>4, <1>5, <1>6, <2>1 DEF ToSet
  <1>11. ASSUME NEW x \in ToSet(t) PROVE x \in ToSet(u)
    <2>1. PICK i \in 1..m : x = t[i] BY <1>2, <1>11 DEF ToSet
    <2> QED BY <1>4, <1>5, <1>7, <2>1 DEF ToSet
  <1> QED BY <1>3, <1>9, <1>10, <1>11

HasItems(f, T, S) ==
  \A s \in Seq(T) :
    FlatMap(f, s) \in Seq(S) /\ ToSet(FlatMap(f, s)) = UNION {ToSet(f[x]) : x \in ToSet(s)}

\* Its items are those that each item is mapped to.
LEMMA FlatMapItems ==
  ASSUME NEW T, NEW S, NEW f \in [T -> Seq(S)]
  PROVE  HasItems(f, T, S)
  <1> SUFFICES ASSUME NEW s \in Seq(T)
               PROVE  /\ FlatMap(f, s) \in Seq(S)
                      /\ ToSet(FlatMap(f, s)) = UNION {ToSet(f[x]) : x \in ToSet(s)}
    BY DEF HasItems
  <1>0. FlatMap(f, s) \in Seq(S) BY FlatMapIn
  <1>1. PICK n \in Nat : n = Len(s) /\ DOMAIN s = 1..n OBVIOUS
  <1>2. PICK u : u = Mapped(f, s) OBVIOUS
  <1>3. u \in Seq(Seq(S)) /\ Len(u) = n /\ \A i \in 1..n : u[i] = f[s[i]]
    <2>1. IsMapped(u, f, s, Seq(S)) BY <1>2, MappedAt
    <2> QED BY <1>1, <2>1 DEF IsMapped
  <1>4. PICK h : IsJoined(h, u, S) BY <1>3, JoinedExist
  <1>5. /\ h \in [0..n -> Seq(S)] /\ h[0] = <<>>
        /\ \A k \in 1..n : h[k] = Joint(h[k - 1], u[k])
    BY <1>3, <1>4 DEF IsJoined
  <1>6. FlatMap(f, s) = h[n] BY <1>2, <1>3, <1>4, FlatIs DEF FlatMap
  <1> DEFINE Upto(k) == UNION {ToSet(u[i]) : i \in 1..k}
             Bad == {k \in 0..n : ToSet(h[k]) # Upto(k)}
  <1>7. Bad = {}
    <2> SUFFICES ASSUME Bad # {} PROVE FALSE OBVIOUS
    <2>1. Bad \in SUBSET Nat OBVIOUS
    <2>2. PICK k \in Bad : \A l \in Bad : k <= l
      <3> HIDE DEF Bad
      <3> QED BY <2>1, Least
    <2>3. k \in 0..n /\ ToSet(h[k]) # Upto(k) OBVIOUS
    <2>4. k # 0
      <3> SUFFICES ASSUME k = 0 PROVE FALSE OBVIOUS
      <3>1. ToSet(h[0]) = {} BY <1>5 DEF ToSet
      <3>2. Upto(0) = {} OBVIOUS
      <3> QED BY <2>3, <3>1, <3>2
    <2>5. k - 1 \in 0..n /\ ~(k <= k - 1) /\ k \in 1..n BY <2>3, <2>4
    <2>6. k - 1 \notin Bad
      <3> HIDE DEF Bad
      <3> QED BY <2>2, <2>5
    <2>7. ToSet(h[k - 1]) = Upto(k - 1)
      <3> HIDE DEF Upto
      <3> QED BY <2>5, <2>6
    <2>8. ToSet(h[k]) = ToSet(h[k - 1]) \union ToSet(u[k])
      <3>1. h[k] = Joint(h[k - 1], u[k]) /\ h[k - 1] \in Seq(S) /\ u[k] \in Seq(S)
        BY <1>3, <1>5, <2>5
      <3> QED BY <3>1, JointItems
    <2>9. Upto(k) = Upto(k - 1) \union ToSet(u[k])
      <3>1. \A i \in 1..k : i \in 1..(k - 1) \/ i = k BY <2>5
      <3>2. k \in 1..k /\ \A i \in 1..(k - 1) : i \in 1..k BY <2>5
      <3> QED BY <3>1, <3>2
    <2> QED BY <2>3, <2>7, <2>8, <2>9
  <1>8. ToSet(h[n]) = Upto(n)
    <2> HIDE DEF Upto
    <2>1. n \in 0..n OBVIOUS
    <2> QED BY <1>7, <2>1
  <1>9. Upto(n) = UNION {ToSet(f[x]) : x \in ToSet(s)}
    <2>1. ToSet(s) = {s[i] : i \in 1..n} BY <1>1 DEF ToSet
    <2>2. \A i \in 1..n : ToSet(u[i]) = ToSet(f[s[i]]) BY <1>3
    <2>3. ASSUME NEW y PROVE y \in Upto(n) <=> \E i \in 1..n : y \in ToSet(f[s[i]])
      BY <2>2
    <2>4. ASSUME NEW y
          PROVE  (\E x \in ToSet(s) : y \in ToSet(f[x])) <=> \E i \in 1..n : y \in ToSet(f[s[i]])
      BY <2>1
    <2> HIDE DEF Upto
    <2> QED BY <2>3, <2>4
  <1> QED BY <1>0, <1>6, <1>8, <1>9

-----------------------------------------------------------------------------
(* Conversions compared item by item.                                       *)

\* What is made of each converted item.
IsThrough(gf, g, f, T, S, R) ==
  /\ gf \in [T -> R]
  /\ \A s \in Seq(T) : Mapped(f, s) \in Seq(S) /\ FlatMap(g, Mapped(f, s)) = FlatMap(gf, s)

\* The same where the first maps an item to an item.
LEMMA ThroughIs ==
  ASSUME NEW T, NEW S, NEW R, NEW f \in [T -> S], NEW g \in [S -> R],
         NEW gf, gf = [x \in T |-> g[f[x]]]
  PROVE  IsThrough(gf, g, f, T, S, R)
  <1>0. gf \in [T -> R] OBVIOUS
  <1> SUFFICES ASSUME NEW s \in Seq(T)
               PROVE  Mapped(f, s) \in Seq(S) /\ FlatMap(g, Mapped(f, s)) = FlatMap(gf, s)
    BY <1>0 DEF IsThrough
  <1>1. PICK n \in Nat : n = Len(s) /\ DOMAIN s = 1..n OBVIOUS
  <1>2. PICK u : u = Mapped(f, s) OBVIOUS
  <1>3. u \in Seq(S) /\ DOMAIN u = 1..n /\ \A i \in 1..n : u[i] = f[s[i]]
    <2>1. IsMapped(u, f, s, S) BY <1>2, MappedAt
    <2> QED BY <1>1, <2>1 DEF IsMapped
  <1>4. \A i \in 1..n : s[i] \in T BY <1>1
  <1>5. Mapped(g, u) = Mapped(gf, s) BY <1>1, <1>3, <1>4 DEF Mapped
  <1> QED BY <1>2, <1>3, <1>5 DEF FlatMap

\* An item that becomes nothing, and each item that becomes itself.
LEMMA FlatMapEmpty ==
  ASSUME NEW T, NEW f, NEW s \in Seq(T), \A x \in T : f[x] = <<>>
  PROVE  FlatMap(f, s) = <<>>
  <1>1. PICK n \in Nat : n = Len(s) /\ DOMAIN s = 1..n OBVIOUS
  <1>2. PICK u : u = Mapped(f, s) OBVIOUS
  <1>3. u = [i \in 1..n |-> <<>>]
    <2>1. \A i \in 1..n : s[i] \in T BY <1>1
    <2> QED BY <1>1, <1>2, <2>1 DEF Mapped
  <1>4. u \in Seq(Seq({})) /\ Len(u) = n /\ \A i \in 1..n : u[i] = <<>>
    <2>1. <<>> \in Seq({}) OBVIOUS
    <2>2. u \in [1..n -> Seq({})] BY <1>3, <2>1
    <2> QED BY <1>3, <2>2
  <1>5. PICK h : IsJoined(h, u, {}) BY <1>4, JoinedExist
  <1>6. FlattenSeq(u) \in Seq({}) BY <1>4, <1>5, FlatIs
  <1>7. FlattenSeq(u) = <<>> BY <1>6
  <1> QED BY <1>2, <1>7 DEF FlatMap

\* Each item mapped to itself.
LEMMA FlatMapSelf ==
  ASSUME NEW T, NEW f \in [T -> Seq(T)], NEW s \in Seq(T), \A x \in T : f[x] = <<x>>
  PROVE  FlatMap(f, s) = s
  <1>1. PICK n \in Nat : n = Len(s) /\ DOMAIN s = 1..n OBVIOUS
  <1>2. PICK u : u = Mapped(f, s) OBVIOUS
  <1>3. u \in Seq(Seq(T)) /\ Len(u) = n /\ \A i \in 1..n : u[i] = <<s[i]>>
    <2>1. IsMapped(u, f, s, Seq(T)) BY <1>2, MappedAt
    <2>2. \A i \in 1..n : s[i] \in T BY <1>1
    <2> QED BY <1>1, <2>1, <2>2 DEF IsMapped
  <1>4. PICK h : h = [k \in 0..n |-> SubSeq(s, 1, k)] OBVIOUS
  <1>5. \A k \in 0..n : h[k] \in Seq(T) /\ Len(h[k]) = k /\ \A i \in 1..k : h[k][i] = s[i]
    <2> SUFFICES ASSUME NEW k \in 0..n
                 PROVE  h[k] \in Seq(T) /\ Len(h[k]) = k /\ \A i \in 1..k : h[k][i] = s[i]
      OBVIOUS
    <2>1. h[k] = SubSeq(s, 1, k) BY <1>4
    <2>2. \A i \in 1..k : s[i] \in T BY <1>1
    <2>3. SubSeq(s, 1, k) = [i \in 1..k |-> s[i]] BY <1>1
    <2> QED BY <2>1, <2>2, <2>3
  <1>6. h[0] = <<>>
    <2>1. 0 \in 0..n OBVIOUS
    <2>2. h[0] \in Seq(T) /\ Len(h[0]) = 0 BY <1>5, <2>1
    <2> QED BY <2>2
  <1>7. ASSUME NEW k \in 1..n PROVE h[k] = Joint(h[k - 1], u[k])
    <2>1. k \in 0..n /\ k - 1 \in 0..n /\ s[k] \in T BY <1>1
    <2>2. PICK a, b, c : a = h[k - 1] /\ b = <<s[k]>> /\ c = Joint(a, b) OBVIOUS
    <2>3. a \in Seq(T) /\ Len(a) = k - 1 /\ \A i \in 1..(k - 1) : a[i] = s[i] BY <1>5, <2>1, <2>2
    <2>4. b \in Seq(T) /\ Len(b) = 1 /\ b[1] = s[k] BY <2>1, <2>2
    <2>5. IsJoint(c, a, b, T) BY <2>2, <2>3, <2>4, JointAt
    <2>6. c \in Seq(T) /\ Len(c) = (k - 1) + 1 /\ (\A i \in 1..(k - 1) : c[i] = a[i])
          /\ \A i \in 1..1 : c[(k - 1) + i] = b[i]
      BY <2>3, <2>4, <2>5 DEF IsJoint
    <2>7. Len(c) = k /\ c[k] = s[k]
      <3>1. 1 \in 1..1 /\ (k - 1) + 1 = k OBVIOUS
      <3> QED BY <2>4, <2>6, <3>1
    <2>8. PICK d : d = h[k] OBVIOUS
    <2>9. d \in Seq(T) /\ Len(d) = k /\ \A i \in 1..k : d[i] = s[i] BY <1>5, <2>1, <2>8
    <2>10. \A i \in 1..k : i \in 1..(k - 1) \/ i = k OBVIOUS
    <2>11. \A i \in 1..k : c[i] = d[i] BY <2>3, <2>6, <2>7, <2>9, <2>10
    <2>12. c = d BY <2>6, <2>7, <2>9, <2>11
    <2> QED BY <1>3, <2>2, <2>8, <2>12
  <1>8. h \in [0..n -> Seq(T)] BY <1>4, <1>5
  <1>9. IsJoined(h, u, T) BY <1>3, <1>6, <1>7, <1>8 DEF IsJoined
  <1>10. FlattenSeq(u) = h[n] BY <1>3, <1>9, FlatIs
  <1>11. h[n] = s
    <2>1. n \in 0..n OBVIOUS
    <2>2. PICK d : d = h[n] OBVIOUS
    <2>3. d \in Seq(T) /\ Len(d) = n /\ \A i \in 1..n : d[i] = s[i] BY <1>5, <2>1, <2>2
    <2>4. d \in [1..n -> T] /\ s \in [1..n -> T] BY <1>1, <2>3
    <2>5. d = s BY <2>3, <2>4
    <2> QED BY <2>2, <2>5
  <1> QED BY <1>2, <1>10, <1>11 DEF FlatMap

-----------------------------------------------------------------------------
(* Blocks.                                                                  *)

Kinds == {"text", "image", "call", "result"}
BlockSet(kinds) == [kind : kinds, ids : Seq(Nat)]

IfOf(kinds) == [b \in BlockSet(Kinds) |-> IF b.kind \in kinds THEN <<b>> ELSE <<>>]
IdsEach == [b \in BlockSet(Kinds) |-> b.ids]
IdsIf(kind) == [b \in BlockSet(Kinds) |-> IF b.kind = kind THEN b.ids ELSE <<>>]

\* What blocks say of a kind.
IdsOf(kind, bs) == Originals(BlocksOf({kind}, bs))

\* BlocksOf() maps each block to itself or to nothing.
LEMMA BlocksOfIs ==
  ASSUME NEW kinds \in SUBSET Kinds, NEW bs \in Seq(BlockSet(Kinds))
  PROVE  /\ IfOf(kinds) \in [BlockSet(Kinds) -> Seq(BlockSet(kinds))]
         /\ IfOf(kinds) \in [BlockSet(Kinds) -> Seq(BlockSet(Kinds))]
         /\ BlocksOf(kinds, bs) = FlatMap(IfOf(kinds), bs)
         /\ BlocksOf(kinds, bs) \in Seq(BlockSet(kinds))
         /\ BlocksOf(kinds, bs) \in Seq(BlockSet(Kinds))
  <1>1. ASSUME NEW b \in BlockSet(Kinds)
        PROVE  /\ (IF b.kind \in kinds THEN <<b>> ELSE <<>>) \in Seq(BlockSet(kinds))
               /\ (IF b.kind \in kinds THEN <<b>> ELSE <<>>) \in Seq(BlockSet(Kinds))
    <2>1. CASE b.kind \in kinds
      <3>1. b \in BlockSet(kinds) BY <2>1 DEF BlockSet
      <3> QED BY <2>1, <3>1
    <2>2. CASE b.kind \notin kinds BY <2>2
    <2> QED BY <2>1, <2>2
  <1>2. /\ IfOf(kinds) \in [BlockSet(Kinds) -> Seq(BlockSet(kinds))]
        /\ IfOf(kinds) \in [BlockSet(Kinds) -> Seq(BlockSet(Kinds))]
    BY <1>1 DEF IfOf
  <1>3. \A i \in DOMAIN bs : bs[i] \in BlockSet(Kinds) OBVIOUS
  <1>4. Mapped(IfOf(kinds), bs) = [i \in DOMAIN bs |-> IF bs[i].kind \in kinds THEN <<bs[i]>> ELSE <<>>]
    BY <1>3 DEF Mapped, IfOf
  <1>5. BlocksOf(kinds, bs) = FlatMap(IfOf(kinds), bs) BY <1>4 DEF BlocksOf, FlatMap
  <1>6. FlatMap(IfOf(kinds), bs) \in Seq(BlockSet(kinds)) BY <1>2, FlatMapIn
  <1>7. FlatMap(IfOf(kinds), bs) \in Seq(BlockSet(Kinds)) BY <1>2, FlatMapIn
  <1> QED BY <1>2, <1>5, <1>6, <1>7

\* Originals() maps each block to what it stands for.
LEMMA OriginalsIs ==
  ASSUME NEW bs \in Seq(BlockSet(Kinds))
  PROVE  /\ IdsEach \in [BlockSet(Kinds) -> Seq(Nat)]
         /\ Originals(bs) = FlatMap(IdsEach, bs) /\ Originals(bs) \in Seq(Nat)
  <1>1. IdsEach \in [BlockSet(Kinds) -> Seq(Nat)] BY DEF IdsEach, BlockSet
  <1>2. \A i \in DOMAIN bs : bs[i] \in BlockSet(Kinds) OBVIOUS
  <1>3. Mapped(IdsEach, bs) = [i \in DOMAIN bs |-> bs[i].ids] BY <1>2 DEF Mapped, IdsEach
  <1>4. Originals(bs) = FlatMap(IdsEach, bs) BY <1>3 DEF Originals, FlatMap
  <1>5. FlatMap(IdsEach, bs) \in Seq(Nat) BY <1>1, FlatMapIn
  <1> QED BY <1>1, <1>4, <1>5

\* What blocks of a kind stand for.
LEMMA IdsOfIs ==
  ASSUME NEW kind \in Kinds, NEW bs \in Seq(BlockSet(Kinds))
  PROVE  /\ IdsIf(kind) \in [BlockSet(Kinds) -> Seq(Nat)]
         /\ IdsOf(kind, bs) = FlatMap(IdsIf(kind), bs) /\ IdsOf(kind, bs) \in Seq(Nat)
  <1>1. {kind} \in SUBSET Kinds OBVIOUS
  <1>2. /\ IfOf({kind}) \in [BlockSet(Kinds) -> Seq(BlockSet(Kinds))]
        /\ BlocksOf({kind}, bs) = FlatMap(IfOf({kind}), bs)
        /\ BlocksOf({kind}, bs) \in Seq(BlockSet(Kinds))
    BY <1>1, BlocksOfIs
  <1>3. PICK some : some = BlocksOf({kind}, bs) OBVIOUS
  <1>4. /\ IdsEach \in [BlockSet(Kinds) -> Seq(Nat)]
        /\ Originals(some) = FlatMap(IdsEach, some) /\ Originals(some) \in Seq(Nat)
    BY <1>2, <1>3, OriginalsIs
  <1>5. ASSUME NEW b \in BlockSet(Kinds)
        PROVE  FlatMap(IdsEach, IfOf({kind})[b]) = IF b.kind = kind THEN b.ids ELSE <<>>
    <2>1. CASE b.kind = kind
      <3>1. IfOf({kind})[b] = <<b>> BY <2>1 DEF IfOf
      <3>2. FlatMap(IdsEach, <<b>>) = IdsEach[b] BY <1>4, FlatMapOne
      <3> QED BY <2>1, <3>1, <3>2 DEF IdsEach
    <2>2. CASE b.kind # kind
      <3>1. IfOf({kind})[b] = <<>> BY <2>2 DEF IfOf
      <3> QED BY <2>2, <3>1, FlatMapNone
    <2> QED BY <2>1, <2>2
  <1>6. IdsIf(kind) = [b \in BlockSet(Kinds) |-> FlatMap(IdsEach, IfOf({kind})[b])]
    BY <1>5 DEF IdsIf
  <1>7. IsAfter(IdsIf(kind), IdsEach, IfOf({kind}), BlockSet(Kinds), Nat)
    BY <1>2, <1>4, <1>6, AfterIs
  <1>8. /\ IdsIf(kind) \in [BlockSet(Kinds) -> Seq(Nat)]
        /\ FlatMap(IdsEach, FlatMap(IfOf({kind}), bs)) = FlatMap(IdsIf(kind), bs)
    BY <1>7 DEF IsAfter
  <1> QED BY <1>2, <1>3, <1>4, <1>8 DEF IdsOf

\* What two runs of blocks say is what they say one after the other.
LEMMA IdsOfJoint ==
  ASSUME NEW kind \in Kinds, NEW s \in Seq(BlockSet(Kinds)), NEW t \in Seq(BlockSet(Kinds))
  PROVE  /\ Joint(s, t) \in Seq(BlockSet(Kinds))
         /\ IdsOf(kind, Joint(s, t)) = Joint(IdsOf(kind, s), IdsOf(kind, t))
  <1>1. Joint(s, t) \in Seq(BlockSet(Kinds)) BY JointIs
  <1>2. PICK u \in Seq(BlockSet(Kinds)) : u = Joint(s, t) BY <1>1
  <1>3. /\ IdsOf(kind, u) = FlatMap(IdsIf(kind), u)
        /\ IdsIf(kind) \in [BlockSet(Kinds) -> Seq(Nat)]
    BY IdsOfIs
  <1>4. /\ IdsOf(kind, s) = FlatMap(IdsIf(kind), s)
        /\ IdsOf(kind, t) = FlatMap(IdsIf(kind), t)
    BY IdsOfIs
  <1>5. FlatMapAdds(IdsIf(kind), BlockSet(Kinds), Nat) BY <1>3, FlatMapIs
  <1>6. FlatMap(IdsIf(kind), Joint(s, t)) = Joint(FlatMap(IdsIf(kind), s), FlatMap(IdsIf(kind), t))
    BY <1>5 DEF FlatMapAdds
  <1> QED BY <1>1, <1>2, <1>3, <1>4, <1>6

\* Blocks of some kinds are blocks of more kinds,
LEMMA BlocksWiden ==
  ASSUME NEW kinds, NEW others, kinds \subseteq others, NEW bs \in Seq(BlockSet(kinds))
  PROVE  bs \in Seq(BlockSet(others))
  <1>1. PICK A, C : A = BlockSet(kinds) /\ C = BlockSet(others) OBVIOUS
  <1>2. A \subseteq C BY <1>1 DEF BlockSet
  <1>3. bs \in Seq(A) BY <1>1
  <1>4. PICK n \in Nat : n = Len(bs) BY <1>3
  <1>5. bs \in [1..n -> A] BY <1>3, <1>4
  <1>6. bs \in [1..n -> C] BY <1>2, <1>5
  <1>7. bs \in Seq(C) BY <1>6
  <1> QED BY <1>1, <1>7

\* or of all.
LEMMA BlocksAreBlocks ==
  ASSUME NEW kinds \in SUBSET Kinds, NEW bs \in Seq(BlockSet(kinds))
  PROVE  bs \in Seq(BlockSet(Kinds))
  BY BlocksWiden

\* Of a kind that there is not, there is nothing.
LEMMA IdsOfOther ==
  ASSUME NEW kinds \in SUBSET Kinds, NEW bs \in Seq(BlockSet(kinds)),
         NEW kind \in Kinds, kind \notin kinds
  PROVE  IdsOf(kind, bs) = <<>>
  <1>1. bs \in Seq(BlockSet(Kinds)) BY BlocksAreBlocks
  <1>2. IdsOf(kind, bs) = FlatMap(IdsIf(kind), bs) BY <1>1, IdsOfIs
  <1>3. \A b \in BlockSet(kinds) : IdsIf(kind)[b] = <<>> BY DEF IdsIf, BlockSet
  <1> QED BY <1>2, <1>3, FlatMapEmpty

\* One block says something of its own kind.
LEMMA IdsOfOne ==
  ASSUME NEW kind \in Kinds, NEW b \in BlockSet(Kinds)
  PROVE  IdsOf(kind, <<b>>) = IF b.kind = kind THEN b.ids ELSE <<>>
  <1>1. PICK bs : bs = <<b>> OBVIOUS
  <1>2. bs \in Seq(BlockSet(Kinds)) BY <1>1
  <1>3. IdsOf(kind, bs) = FlatMap(IdsIf(kind), bs) /\ IdsIf(kind) \in [BlockSet(Kinds) -> Seq(Nat)]
    BY <1>2, IdsOfIs
  <1>4. FlatMap(IdsIf(kind), <<b>>) = IdsIf(kind)[b] BY <1>3, FlatMapOne
  <1> QED BY <1>1, <1>3, <1>4 DEF IdsIf

\* No block says nothing.
LEMMA IdsOfNone ==
  ASSUME NEW kind \in Kinds
  PROVE  IdsOf(kind, <<>>) = <<>>
  <1>1. PICK bs : bs = <<>> OBVIOUS
  <1>2. bs \in Seq(BlockSet(Kinds)) BY <1>1
  <1>3. IdsOf(kind, bs) = FlatMap(IdsIf(kind), bs) BY <1>2, IdsOfIs
  <1> QED BY <1>1, <1>3, FlatMapNone

\* Blocks sorted out say what they said.
LEMMA IdsOfSome ==
  ASSUME NEW kinds \in SUBSET Kinds, NEW kind \in kinds, NEW bs \in Seq(BlockSet(Kinds))
  PROVE  IdsOf(kind, BlocksOf(kinds, bs)) = IdsOf(kind, bs)
  <1>1. PICK some : some = BlocksOf(kinds, bs) OBVIOUS
  <1>2. /\ some = FlatMap(IfOf(kinds), bs) /\ some \in Seq(BlockSet(Kinds))
        /\ IfOf(kinds) \in [BlockSet(Kinds) -> Seq(BlockSet(Kinds))]
    BY <1>1, BlocksOfIs
  <1>3. kind \in Kinds OBVIOUS
  <1>4. /\ IdsIf(kind) \in [BlockSet(Kinds) -> Seq(Nat)]
        /\ IdsOf(kind, bs) = FlatMap(IdsIf(kind), bs)
    BY <1>3, IdsOfIs
  <1>5. IdsOf(kind, some) = FlatMap(IdsIf(kind), some) BY <1>2, <1>3, IdsOfIs
  <1>6. ASSUME NEW b \in BlockSet(Kinds)
        PROVE  FlatMap(IdsIf(kind), IfOf(kinds)[b]) = IF b.kind = kind THEN b.ids ELSE <<>>
    <2>1. CASE b.kind \in kinds
      <3>1. IfOf(kinds)[b] = <<b>> BY <2>1 DEF IfOf
      <3>2. FlatMap(IdsIf(kind), <<b>>) = IdsIf(kind)[b] BY <1>4, FlatMapOne
      <3> QED BY <3>1, <3>2 DEF IdsIf
    <2>2. CASE b.kind \notin kinds
      <3>1. IfOf(kinds)[b] = <<>> /\ b.kind # kind BY <2>2 DEF IfOf
      <3> QED BY <3>1, FlatMapNone
    <2> QED BY <2>1, <2>2
  <1>7. IdsIf(kind) = [b \in BlockSet(Kinds) |-> FlatMap(IdsIf(kind), IfOf(kinds)[b])]
    BY <1>6 DEF IdsIf
  <1>8. IsAfter(IdsIf(kind), IdsIf(kind), IfOf(kinds), BlockSet(Kinds), Nat)
    BY <1>2, <1>4, <1>7, AfterIs
  <1>9. FlatMap(IdsIf(kind), FlatMap(IfOf(kinds), bs)) = FlatMap(IdsIf(kind), bs)
    BY <1>8 DEF IsAfter
  <1> QED BY <1>1, <1>2, <1>4, <1>5, <1>9

\* Blocks of a kind, one for each id.
BlockFor(kind) == [id \in Nat |-> Block(kind, id)]

\* A block for each identifier stands for them all.
LEMMA BlocksForIs ==
  ASSUME NEW kind \in Kinds, NEW ids \in Seq(Nat)
  PROVE  /\ BlockFor(kind) \in [Nat -> BlockSet(Kinds)]
         /\ [i \in DOMAIN ids |-> Block(kind, ids[i])] = Mapped(BlockFor(kind), ids)
         /\ Mapped(BlockFor(kind), ids) \in Seq(BlockSet({kind}))
         /\ Mapped(BlockFor(kind), ids) \in Seq(BlockSet(Kinds))
         /\ IdsOf(kind, Mapped(BlockFor(kind), ids)) = ids
  <1>1. BlockFor(kind) \in [Nat -> BlockSet({kind})] /\ BlockFor(kind) \in [Nat -> BlockSet(Kinds)]
    BY DEF BlockFor, BlockSet, Block
  <1>2. [i \in DOMAIN ids |-> Block(kind, ids[i])] = Mapped(BlockFor(kind), ids)
    <2>1. \A i \in DOMAIN ids : ids[i] \in Nat OBVIOUS
    <2> QED BY <2>1 DEF Mapped, BlockFor
  <1>3. PICK bs : bs = Mapped(BlockFor(kind), ids) OBVIOUS
  <1>4. bs \in Seq(BlockSet({kind}))
    <2>1. IsMapped(bs, BlockFor(kind), ids, BlockSet({kind})) BY <1>1, <1>3, MappedAt
    <2> QED BY <2>1 DEF IsMapped
  <1>5. bs \in Seq(BlockSet(Kinds))
    <2>1. IsMapped(bs, BlockFor(kind), ids, BlockSet(Kinds)) BY <1>1, <1>3, MappedAt
    <2> QED BY <2>1 DEF IsMapped
  <1>6. /\ IdsIf(kind) \in [BlockSet(Kinds) -> Seq(Nat)]
        /\ IdsOf(kind, bs) = FlatMap(IdsIf(kind), bs)
    BY <1>5, IdsOfIs
  <1>7. PICK each : each = [id \in Nat |-> IdsIf(kind)[BlockFor(kind)[id]]] OBVIOUS
  <1>8. each \in [Nat -> Seq(Nat)]
        /\ FlatMap(IdsIf(kind), Mapped(BlockFor(kind), ids)) = FlatMap(each, ids)
    <2>1. IsThrough(each, IdsIf(kind), BlockFor(kind), Nat, BlockSet(Kinds), Seq(Nat))
      BY <1>1, <1>6, <1>7, ThroughIs
    <2> QED BY <2>1 DEF IsThrough
  <1>9. \A id \in Nat : each[id] = <<id>>
    BY <1>1, <1>7 DEF IdsIf, BlockFor, Block
  <1>10. FlatMap(each, ids) = ids BY <1>8, <1>9, FlatMapSelf
  <1> QED BY <1>1, <1>2, <1>3, <1>4, <1>5, <1>6, <1>8, <1>10

\* So do the blocks that the Anthropic request has for calls.
LEMMA CallBlocksIs ==
  ASSUME NEW ids \in Seq(Nat)
  PROVE  /\ CallBlocks(ids) \in Seq(BlockSet({"call"}))
         /\ CallBlocks(ids) \in Seq(BlockSet(Kinds))
         /\ IdsOf("call", CallBlocks(ids)) = ids
  <1>1. "call" \in Kinds BY DEF Kinds
  <1>2. CallBlocks(ids) = Mapped(BlockFor("call"), ids) BY <1>1, BlocksForIs DEF CallBlocks
  <1> QED BY <1>1, <1>2, BlocksForIs

-----------------------------------------------------------------------------
(* Messages.                                                                *)

Says == {"text", "image"}

AnthropicMessages ==
  {m \in [role : {"system", "user", "assistant"}, blocks : Seq(BlockSet(Kinds))] :
     m.role = "system" => m.blocks \in Seq(BlockSet(Says))}

ChatMessages ==
  {m \in [role : {"system", "user", "assistant", "tool"}, parts : Seq(BlockSet(Says)),
          calls : Seq(Nat), answers : Nat] :
     /\ m.role = "system" => m.calls = <<>>
     /\ m.role = "tool" => m.parts = <<>> /\ m.calls = <<>>}

Items ==
  {m \in [type : {"message", "function_call", "function_call_output"},
          role : {"system", "user", "assistant", "none"}, parts : Seq(BlockSet(Says)), call : Nat] :
     /\ m.type = "message" => m.role # "none"
     /\ m.type # "message" => m.role = "none" /\ m.parts = <<>>}

\* The blocks of a message of each protocol.
LEMMA AnthropicBlocks ==
  ASSUME NEW m \in AnthropicMessages
  PROVE  /\ BlocksIn(m, "anthropic") = m.blocks
         /\ BlocksIn(m, "anthropic") \in Seq(BlockSet(Kinds)) /\ m.role \in Roles
  BY DEF AnthropicMessages, BlocksIn, Roles

\* In a chat message a result stands alone, and calls follow the rest.
LEMMA ChatBlocks ==
  ASSUME NEW m \in ChatMessages
  PROVE  /\ m.role = "tool" => BlocksIn(m, "chat") = <<Block("result", m.answers)>>
         /\ m.role # "tool" => BlocksIn(m, "chat") = Joint(m.parts, CallBlocks(m.calls))
         /\ m.role = "system" => BlocksIn(m, "chat") = m.parts
         /\ BlocksIn(m, "chat") \in Seq(BlockSet(Kinds)) /\ m.role \in Roles
         /\ m.parts \in Seq(BlockSet(Kinds)) /\ CallBlocks(m.calls) \in Seq(BlockSet(Kinds))
  <1>1. /\ m.parts \in Seq(BlockSet(Says)) /\ m.calls \in Seq(Nat) /\ m.answers \in Nat
        /\ m.role \in {"system", "user", "assistant", "tool"}
        /\ m.role = "system" => m.calls = <<>>
        /\ m.role = "tool" => m.parts = <<>> /\ m.calls = <<>>
    BY DEF ChatMessages
  <1>2. Says \in SUBSET Kinds BY DEF Says, Kinds
  <1>3. m.parts \in Seq(BlockSet(Kinds)) BY <1>1, <1>2, BlocksAreBlocks
  <1>4. CallBlocks(m.calls) \in Seq(BlockSet(Kinds)) BY <1>1, CallBlocksIs
  <1>5. CallBlocks(<<>>) = <<>> BY DEF CallBlocks
  <1>6. BlocksIn(m, "chat") = Joint(Joint(m.parts, CallBlocks(m.calls)),
                                    IF m.role = "tool" THEN <<Block("result", m.answers)>> ELSE <<>>)
    BY DEF BlocksIn, Joint
  <1>7. Block("result", m.answers) \in BlockSet(Kinds) BY <1>1 DEF BlockSet, Block, Kinds
  <1>8. PICK b \in BlockSet(Kinds) : b = Block("result", m.answers) BY <1>7
  <1>9. CASE m.role = "tool"
    <2>1. <<>> \in Seq(BlockSet(Kinds)) /\ <<b>> \in Seq(BlockSet(Kinds)) OBVIOUS
    <2>2. Joint(<<>>, <<>>) = <<>> /\ Joint(<<>>, <<b>>) = <<b>> BY <2>1, JointIs
    <2>3. BlocksIn(m, "chat") = <<b>> BY <1>1, <1>5, <1>6, <1>8, <1>9, <2>2
    <2> QED BY <1>1, <1>3, <1>4, <1>8, <1>9, <2>1, <2>3 DEF Roles
  <1>10. CASE m.role # "tool"
    <2>1. PICK u : u = Joint(m.parts, CallBlocks(m.calls)) OBVIOUS
    <2>2. u \in Seq(BlockSet(Kinds)) BY <1>3, <1>4, <2>1, JointIs
    <2>3. Joint(u, <<>>) = u
      <3>1. <<>> \in Seq(BlockSet(Kinds)) OBVIOUS
      <3> QED BY <2>2, <3>1, JointIs
    <2>4. BlocksIn(m, "chat") = u BY <1>6, <1>10, <2>1, <2>3
    <2>5. m.role = "system" => u = m.parts
      <3>1. Joint(m.parts, <<>>) = m.parts
        <4>1. <<>> \in Seq(BlockSet(Kinds)) OBVIOUS
        <4> QED BY <1>3, <4>1, JointIs
      <3> QED BY <1>1, <1>5, <2>1, <3>1
    <2> QED BY <1>1, <1>3, <1>4, <1>10, <2>1, <2>2, <2>4, <2>5 DEF Roles
  <1> QED BY <1>9, <1>10

\* An item has the blocks of its type.
LEMMA ItemBlocks ==
  ASSUME NEW m \in Items
  PROVE  /\ m.type = "message" => BlocksIn(m, "responses") = m.parts
         /\ m.type = "function_call" => BlocksIn(m, "responses") = <<Block("call", m.call)>>
         /\ m.type = "function_call_output" => BlocksIn(m, "responses") = <<Block("result", m.call)>>
         /\ BlocksIn(m, "responses") \in Seq(BlockSet(Kinds)) /\ m.role \in Roles
         /\ m.parts \in Seq(BlockSet(Kinds))
  <1>1. /\ m.type \in {"message", "function_call", "function_call_output"}
        /\ m.parts \in Seq(BlockSet(Says)) /\ m.call \in Nat
        /\ m.role \in {"system", "user", "assistant", "none"}
        /\ m.type # "message" => m.parts = <<>>
    BY DEF Items
  <1>2. Says \in SUBSET Kinds BY DEF Says, Kinds
  <1>3. m.parts \in Seq(BlockSet(Kinds)) BY <1>1, <1>2, BlocksAreBlocks
  <1>4. BlocksIn(m, "responses") =
          Joint(m.parts, IF m.type = "function_call" THEN <<Block("call", m.call)>>
                         ELSE IF m.type = "function_call_output" THEN <<Block("result", m.call)>> ELSE <<>>)
    BY DEF BlocksIn, Joint
  <1>5. PICK b, c : b = Block("call", m.call) /\ c = Block("result", m.call) OBVIOUS
  <1>6. b \in BlockSet(Kinds) /\ c \in BlockSet(Kinds) BY <1>1, <1>5 DEF BlockSet, Block, Kinds
  <1>7. /\ <<>> \in Seq(BlockSet(Kinds)) /\ <<b>> \in Seq(BlockSet(Kinds))
        /\ <<c>> \in Seq(BlockSet(Kinds))
    BY <1>6
  <1>8. Joint(<<>>, <<b>>) = <<b>> /\ Joint(<<>>, <<c>>) = <<c>> /\ Joint(m.parts, <<>>) = m.parts
    BY <1>3, <1>7, JointIs
  <1>9. m.role \in Roles BY <1>1 DEF Roles
  <1>10. CASE m.type = "message" BY <1>3, <1>4, <1>8, <1>9, <1>10
  <1>11. CASE m.type = "function_call"
    <2>1. BlocksIn(m, "responses") = <<b>> BY <1>1, <1>4, <1>5, <1>8, <1>11
    <2> QED BY <1>3, <1>5, <1>7, <1>9, <1>11, <2>1
  <1>12. CASE m.type = "function_call_output"
    <2>1. BlocksIn(m, "responses") = <<c>> BY <1>1, <1>4, <1>5, <1>8, <1>12
    <2> QED BY <1>3, <1>5, <1>7, <1>9, <1>12, <2>1
  <1> QED BY <1>1, <1>10, <1>11, <1>12

MessagesOf(api) == CASE api = "anthropic" -> AnthropicMessages
                     [] api = "chat" -> ChatMessages
                     [] api = "responses" -> Items

\* Functions that agree map alike.
LEMMA FlatMapSame ==
  ASSUME NEW T, NEW f, NEW g, NEW s \in Seq(T), \A x \in T : f[x] = g[x]
  PROVE  FlatMap(f, s) = FlatMap(g, s)
  <1>1. \A i \in DOMAIN s : s[i] \in T OBVIOUS
  <1>2. Mapped(f, s) = Mapped(g, s) BY <1>1 DEF Mapped
  <1> QED BY <1>2 DEF FlatMap

BlocksEach(api) == [m \in MessagesOf(api) |-> BlocksIn(m, api)]
AllBlocks(api, ms) == FlatMap(BlocksEach(api), ms)

\* Each message has blocks, and a role.
LEMMA BlocksEachIs ==
  ASSUME NEW api \in {"anthropic", "chat", "responses"}
  PROVE  /\ BlocksEach(api) \in [MessagesOf(api) -> Seq(BlockSet(Kinds))]
         /\ \A m \in MessagesOf(api) : m.role \in Roles
  <1>1. CASE api = "anthropic"
    <2>1. MessagesOf(api) = AnthropicMessages BY <1>1 DEF MessagesOf
    <2>2. \A m \in AnthropicMessages : BlocksIn(m, "anthropic") \in Seq(BlockSet(Kinds)) /\ m.role \in Roles
      BY AnthropicBlocks
    <2> QED BY <1>1, <2>1, <2>2 DEF BlocksEach
  <1>2. CASE api = "chat"
    <2>1. MessagesOf(api) = ChatMessages BY <1>2 DEF MessagesOf
    <2>2. \A m \in ChatMessages : BlocksIn(m, "chat") \in Seq(BlockSet(Kinds)) /\ m.role \in Roles
      BY ChatBlocks
    <2> QED BY <1>2, <2>1, <2>2 DEF BlocksEach
  <1>3. CASE api = "responses"
    <2>1. MessagesOf(api) = Items BY <1>3 DEF MessagesOf
    <2>2. \A m \in Items : BlocksIn(m, "responses") \in Seq(BlockSet(Kinds)) /\ m.role \in Roles
      BY ItemBlocks
    <2> QED BY <1>3, <2>1, <2>2 DEF BlocksEach
  <1> QED BY <1>1, <1>2, <1>3

\* All blocks of a dialogue.
LEMMA AllBlocksIs ==
  ASSUME NEW api \in {"anthropic", "chat", "responses"}, NEW ms \in Seq(MessagesOf(api))
  PROVE  /\ AllBlocks(api, ms) \in Seq(BlockSet(Kinds))
         /\ AllBlocks(api, ms) = FlattenSeq([i \in DOMAIN ms |-> BlocksIn(ms[i], api)])
  <1>1. BlocksEach(api) \in [MessagesOf(api) -> Seq(BlockSet(Kinds))] BY BlocksEachIs
  <1>2. \A i \in DOMAIN ms : ms[i] \in MessagesOf(api) OBVIOUS
  <1>3. Mapped(BlocksEach(api), ms) = [i \in DOMAIN ms |-> BlocksIn(ms[i], api)]
    BY <1>2 DEF Mapped, BlocksEach
  <1>4. FlatMap(BlocksEach(api), ms) \in Seq(BlockSet(Kinds)) BY <1>1, FlatMapIn
  <1> QED BY <1>3, <1>4 DEF AllBlocks, FlatMap

\* The messages of roles.
WithRoles(M, roles) == {m \in M : m.role \in roles}
RoleIf(api, roles) == [m \in MessagesOf(api) |-> IF m.role \in roles THEN <<m>> ELSE <<>>]

\* OfRoles() maps each message to itself or to nothing.
LEMMA OfRolesIs ==
  ASSUME NEW api, NEW roles, NEW ms \in Seq(MessagesOf(api))
  PROVE  /\ RoleIf(api, roles) \in [MessagesOf(api) -> Seq(WithRoles(MessagesOf(api), roles))]
         /\ RoleIf(api, roles) \in [MessagesOf(api) -> Seq(MessagesOf(api))]
         /\ OfRoles(roles, ms) = FlatMap(RoleIf(api, roles), ms)
         /\ OfRoles(roles, ms) \in Seq(WithRoles(MessagesOf(api), roles))
         /\ OfRoles(roles, ms) \in Seq(MessagesOf(api))
  <1> DEFINE M == MessagesOf(api)
  <1>1. ASSUME NEW m \in M
        PROVE  /\ (IF m.role \in roles THEN <<m>> ELSE <<>>) \in Seq(WithRoles(M, roles))
               /\ (IF m.role \in roles THEN <<m>> ELSE <<>>) \in Seq(M)
    <2>1. CASE m.role \in roles
      <3>1. m \in WithRoles(M, roles) BY <2>1 DEF WithRoles
      <3> QED BY <2>1, <3>1
    <2>2. CASE m.role \notin roles BY <2>2
    <2> QED BY <2>1, <2>2
  <1>2. /\ RoleIf(api, roles) \in [M -> Seq(WithRoles(M, roles))]
        /\ RoleIf(api, roles) \in [M -> Seq(M)]
    BY <1>1 DEF RoleIf
  <1>3. \A i \in DOMAIN ms : ms[i] \in M OBVIOUS
  <1>4. Mapped(RoleIf(api, roles), ms) = [i \in DOMAIN ms |-> IF ms[i].role \in roles THEN <<ms[i]>> ELSE <<>>]
    BY <1>3 DEF Mapped, RoleIf
  <1>5. OfRoles(roles, ms) = FlatMap(RoleIf(api, roles), ms) BY <1>4 DEF OfRoles, FlatMap
  <1>6. FlatMap(RoleIf(api, roles), ms) \in Seq(WithRoles(M, roles)) BY <1>2, FlatMapIn
  <1>7. FlatMap(RoleIf(api, roles), ms) \in Seq(M) BY <1>2, FlatMapIn
  <1> QED BY <1>2, <1>5, <1>6, <1>7

\* What messages say is what each says.
SaidEach(api, kind) == [m \in MessagesOf(api) |-> IdsOf(kind, BlocksIn(m, api))]
SaidIf(api, kind, roles) ==
  [m \in MessagesOf(api) |-> IF m.role \in roles THEN IdsOf(kind, BlocksIn(m, api)) ELSE <<>>]

\* What is said can be told message by message.
LEMMA SaidIs ==
  ASSUME NEW api \in {"anthropic", "chat", "responses"}, NEW kind \in Kinds, NEW roles,
         NEW ms \in Seq(MessagesOf(api))
  PROVE  /\ SaidEach(api, kind) \in [MessagesOf(api) -> Seq(Nat)]
         /\ SaidIf(api, kind, roles) \in [MessagesOf(api) -> Seq(Nat)]
         /\ IdsOf(kind, AllBlocks(api, ms)) = FlatMap(SaidEach(api, kind), ms)
         /\ Said(ms, api, kind, roles) = FlatMap(SaidEach(api, kind), OfRoles(roles, ms))
         /\ Said(ms, api, kind, roles) = FlatMap(SaidIf(api, kind, roles), ms)
  <1> DEFINE M == MessagesOf(api)
  <1> PICK B : B = BlockSet(Kinds) OBVIOUS
  <1>1. BlocksEach(api) \in [M -> Seq(B)] BY BlocksEachIs
  <1>2. IdsIf(kind) \in [B -> Seq(Nat)]
    <2>1. <<>> \in Seq(BlockSet(Kinds)) OBVIOUS
    <2> QED BY <2>1, IdsOfIs
  <1>3. ASSUME NEW m \in M
        PROVE  FlatMap(IdsIf(kind), BlocksEach(api)[m]) = IdsOf(kind, BlocksIn(m, api))
    <2>1. BlocksEach(api)[m] = BlocksIn(m, api) BY DEF BlocksEach
    <2>2. BlocksIn(m, api) \in Seq(BlockSet(Kinds)) BY <1>1, <2>1
    <2> QED BY <2>1, <2>2, IdsOfIs
  <1>4. SaidEach(api, kind) = [m \in M |-> FlatMap(IdsIf(kind), BlocksEach(api)[m])]
    BY <1>3 DEF SaidEach
  <1>5. IsAfter(SaidEach(api, kind), IdsIf(kind), BlocksEach(api), M, Nat)
    BY <1>1, <1>2, <1>4, AfterIs
  <1>6. SaidEach(api, kind) \in [M -> Seq(Nat)] BY <1>5 DEF IsAfter
  <1>7. ASSUME NEW s \in Seq(M)
        PROVE  IdsOf(kind, AllBlocks(api, s)) = FlatMap(SaidEach(api, kind), s)
    <2>1. AllBlocks(api, s) \in Seq(BlockSet(Kinds)) BY AllBlocksIs
    <2>2. IdsOf(kind, AllBlocks(api, s)) = FlatMap(IdsIf(kind), AllBlocks(api, s)) BY <2>1, IdsOfIs
    <2>3. FlatMap(IdsIf(kind), FlatMap(BlocksEach(api), s)) = FlatMap(SaidEach(api, kind), s)
      BY <1>5 DEF IsAfter
    <2> QED BY <2>2, <2>3 DEF AllBlocks
  <1>8. PICK mine : mine = OfRoles(roles, ms) OBVIOUS
  <1>9. /\ mine \in Seq(M) /\ mine = FlatMap(RoleIf(api, roles), ms)
        /\ RoleIf(api, roles) \in [M -> Seq(M)]
    BY <1>8, OfRolesIs
  <1>10. Said(ms, api, kind, roles) = IdsOf(kind, AllBlocks(api, mine))
    <2>1. AllBlocks(api, mine) = FlattenSeq([i \in DOMAIN mine |-> BlocksIn(mine[i], api)])
      BY <1>9, AllBlocksIs
    <2> QED BY <1>8, <2>1 DEF Said, IdsOf
  <1>11. Said(ms, api, kind, roles) = FlatMap(SaidEach(api, kind), mine) BY <1>7, <1>9, <1>10
  <1>12. ASSUME NEW m \in M
         PROVE  FlatMap(SaidEach(api, kind), RoleIf(api, roles)[m])
                  = IF m.role \in roles THEN IdsOf(kind, BlocksIn(m, api)) ELSE <<>>
    <2>1. CASE m.role \in roles
      <3>1. RoleIf(api, roles)[m] = <<m>> BY <2>1 DEF RoleIf
      <3>2. FlatMap(SaidEach(api, kind), <<m>>) = SaidEach(api, kind)[m] BY <1>6, FlatMapOne
      <3> QED BY <2>1, <3>1, <3>2 DEF SaidEach
    <2>2. CASE m.role \notin roles
      <3>1. RoleIf(api, roles)[m] = <<>> BY <2>2 DEF RoleIf
      <3> QED BY <2>2, <3>1, FlatMapNone
    <2> QED BY <2>1, <2>2
  <1>13. SaidIf(api, kind, roles) = [m \in M |-> FlatMap(SaidEach(api, kind), RoleIf(api, roles)[m])]
    BY <1>12 DEF SaidIf
  <1>14. IsAfter(SaidIf(api, kind, roles), SaidEach(api, kind), RoleIf(api, roles), M, Nat)
    BY <1>6, <1>9, <1>13, AfterIs
  <1>15. /\ SaidIf(api, kind, roles) \in [M -> Seq(Nat)]
         /\ FlatMap(SaidEach(api, kind), FlatMap(RoleIf(api, roles), ms)) = FlatMap(SaidIf(api, kind, roles), ms)
    BY <1>14 DEF IsAfter
  <1> QED BY <1>6, <1>7, <1>8, <1>9, <1>11, <1>15

-----------------------------------------------------------------------------
(* A chat request of an Anthropic one.                                      *)

ToolOf == [id \in Nat |-> ToolMessage(id)]
ChatEach == [m \in AnthropicMessages |-> ChatOf(m)]

\* A message for what is said and called, and one for each result.
PartsOf(m) == BlocksOf(Says, m.blocks)
SaidFirst(m) == IF PartsOf(m) # <<>> \/ IdsOf("call", m.blocks) # <<>>
            THEN <<ChatMessage(m.role, PartsOf(m), IdsOf("call", m.blocks))>> ELSE <<>>

\* A message for each result.
LEMMA ToolOfIs ==
  ASSUME NEW ids \in Seq(Nat)
  PROVE  /\ ToolOf \in [Nat -> ChatMessages]
         /\ [i \in DOMAIN ids |-> ToolMessage(ids[i])] = Mapped(ToolOf, ids)
         /\ Mapped(ToolOf, ids) \in Seq(ChatMessages)
         /\ IsMapped(Mapped(ToolOf, ids), ToolOf, ids, ChatMessages)
  <1>1. ToolOf \in [Nat -> ChatMessages]
    <2>1. ASSUME NEW id \in Nat PROVE ToolMessage(id) \in ChatMessages
      BY DEF ChatMessages, ToolMessage
    <2> QED BY <2>1 DEF ToolOf
  <1>2. \A i \in DOMAIN ids : ids[i] \in Nat OBVIOUS
  <1>3. [i \in DOMAIN ids |-> ToolMessage(ids[i])] = Mapped(ToolOf, ids)
    BY <1>2 DEF Mapped, ToolOf
  <1>4. IsMapped(Mapped(ToolOf, ids), ToolOf, ids, ChatMessages) BY <1>1, MappedAt
  <1>5. Mapped(ToolOf, ids) \in Seq(ChatMessages) BY <1>4 DEF IsMapped
  <1> QED BY <1>1, <1>3, <1>4, <1>5

\* A message converted says the rest first and then its results, one by one.
LEMMA ChatOfIs ==
  ASSUME NEW m \in AnthropicMessages
  PROVE  /\ PartsOf(m) \in Seq(BlockSet(Says))
         /\ \A kind \in Kinds : IdsOf(kind, m.blocks) \in Seq(Nat)
         /\ m.role = "system" => IdsOf("call", m.blocks) = <<>> /\ IdsOf("result", m.blocks) = <<>>
         /\ PartsOf(m) # <<>> \/ IdsOf("call", m.blocks) # <<>> =>
              /\ ChatMessage(m.role, PartsOf(m), IdsOf("call", m.blocks)) \in ChatMessages
              /\ SaidFirst(m) = <<ChatMessage(m.role, PartsOf(m), IdsOf("call", m.blocks))>>
         /\ SaidFirst(m) \in Seq(ChatMessages)
         /\ ChatOf(m) = Joint(SaidFirst(m), Mapped(ToolOf, IdsOf("result", m.blocks)))
         /\ ChatOf(m) \in Seq(ChatMessages)
  <1>1. /\ m.role \in {"system", "user", "assistant"} /\ m.blocks \in Seq(BlockSet(Kinds))
        /\ m.role = "system" => m.blocks \in Seq(BlockSet(Says))
    BY DEF AnthropicMessages
  <1>2. Says \in SUBSET Kinds BY DEF Says, Kinds
  <1>3. PartsOf(m) \in Seq(BlockSet(Says)) BY <1>1, <1>2, BlocksOfIs DEF PartsOf
  <1>4. \A kind \in Kinds : IdsOf(kind, m.blocks) \in Seq(Nat) BY <1>1, IdsOfIs
  <1>5. "call" \in Kinds /\ "result" \in Kinds BY DEF Kinds
  <1>6. ASSUME m.role = "system"
        PROVE  IdsOf("call", m.blocks) = <<>> /\ IdsOf("result", m.blocks) = <<>>
    <2>1. m.blocks \in Seq(BlockSet(Says)) BY <1>1, <1>6
    <2>2. "call" \notin Says /\ "result" \notin Says BY DEF Says
    <2> QED BY <1>2, <1>5, <2>1, <2>2, IdsOfOther
  <1>7. PICK parts, calls, results :
          parts = PartsOf(m) /\ calls = IdsOf("call", m.blocks) /\ results = IdsOf("result", m.blocks)
    OBVIOUS
  <1>8. parts \in Seq(BlockSet(Says)) /\ calls \in Seq(Nat) /\ results \in Seq(Nat)
    BY <1>3, <1>4, <1>5, <1>7
  <1>9. ChatMessage(m.role, parts, calls) \in ChatMessages
    <2>1. m.role = "system" => calls = <<>> BY <1>6, <1>7
    <2> QED BY <1>1, <1>8, <2>1 DEF ChatMessage, ChatMessages
  <1>10. SaidFirst(m) = IF parts # <<>> \/ calls # <<>> THEN <<ChatMessage(m.role, parts, calls)>> ELSE <<>>
    BY <1>7 DEF SaidFirst
  <1>11. SaidFirst(m) \in Seq(ChatMessages)
    <2>1. CASE parts # <<>> \/ calls # <<>> BY <1>9, <1>10, <2>1
    <2>2. CASE ~(parts # <<>> \/ calls # <<>>) BY <1>10, <2>2
    <2> QED BY <2>1, <2>2
  <1>12. ChatOf(m) = Joint(SaidFirst(m), Mapped(ToolOf, results))
    <2>1. [i \in DOMAIN results |-> ToolMessage(results[i])] = Mapped(ToolOf, results)
      BY <1>8, ToolOfIs
    <2>2. /\ parts = BlocksOf({"text", "image"}, m.blocks)
          /\ calls = Originals(BlocksOf({"call"}, m.blocks))
          /\ results = Originals(BlocksOf({"result"}, m.blocks))
      BY <1>7 DEF PartsOf, Says, IdsOf
    <2> QED BY <1>10, <2>1, <2>2 DEF ChatOf, Joint
  <1>13. ChatOf(m) \in Seq(ChatMessages)
    <2>1. Mapped(ToolOf, results) \in Seq(ChatMessages) BY <1>8, ToolOfIs
    <2> QED BY <1>11, <1>12, <2>1, JointIs
  <1> QED BY <1>3, <1>4, <1>6, <1>7, <1>9, <1>10, <1>11, <1>12, <1>13

\* The dialogue is converted message by message.
LEMMA ChatFromAnthropicIs ==
  ASSUME NEW ms \in Seq(AnthropicMessages)
  PROVE  /\ ChatEach \in [AnthropicMessages -> Seq(ChatMessages)]
         /\ ChatFromAnthropic(ms) = FlatMap(ChatEach, ms)
         /\ ChatFromAnthropic(ms) \in Seq(ChatMessages)
  <1>1. ChatEach \in [AnthropicMessages -> Seq(ChatMessages)] BY ChatOfIs DEF ChatEach
  <1>2. \A i \in DOMAIN ms : ms[i] \in AnthropicMessages OBVIOUS
  <1>3. Mapped(ChatEach, ms) = [i \in DOMAIN ms |-> ChatOf(ms[i])] BY <1>2 DEF Mapped, ChatEach
  <1>4. ChatFromAnthropic(ms) = FlatMap(ChatEach, ms) BY <1>3 DEF ChatFromAnthropic, FlatMap
  <1>5. FlatMap(ChatEach, ms) \in Seq(ChatMessages) BY <1>1, FlatMapIn
  <1> QED BY <1>1, <1>4, <1>5

\* The instructions, and the rest.
RoleSets == {{"system"}, Roles \ {"system"}}

\* What tool messages say: results.
LEMMA ToolsSay ==
  ASSUME NEW ids \in Seq(Nat), NEW kind \in Kinds, NEW roles
  PROVE  FlatMap(SaidIf("chat", kind, roles), Mapped(ToolOf, ids))
           = IF kind = "result" /\ "tool" \in roles THEN ids ELSE <<>>
  <1>1. MessagesOf("chat") = ChatMessages BY DEF MessagesOf
  <1>2. <<>> \in Seq(MessagesOf("chat")) OBVIOUS
  <1>3. SaidIf("chat", kind, roles) \in [ChatMessages -> Seq(Nat)] BY <1>1, <1>2, SaidIs
  <1>4. ToolOf \in [Nat -> ChatMessages] BY ToolOfIs
  <1>5. PICK each : each = [id \in Nat |-> SaidIf("chat", kind, roles)[ToolOf[id]]] OBVIOUS
  <1>6. IsThrough(each, SaidIf("chat", kind, roles), ToolOf, Nat, ChatMessages, Seq(Nat))
    BY <1>3, <1>4, <1>5, ThroughIs
  <1>7. /\ each \in [Nat -> Seq(Nat)]
        /\ FlatMap(SaidIf("chat", kind, roles), Mapped(ToolOf, ids)) = FlatMap(each, ids)
    BY <1>6 DEF IsThrough
  <1>8. ASSUME NEW id \in Nat
        PROVE  each[id] = IF kind = "result" /\ "tool" \in roles THEN <<id>> ELSE <<>>
    <2>1. PICK t \in ChatMessages : t = ToolOf[id] BY <1>4
    <2>2. t.role = "tool" /\ t.answers = id BY <2>1 DEF ToolOf, ToolMessage
    <2>3. BlocksIn(t, "chat") = <<Block("result", id)>> BY <2>2, ChatBlocks
    <2>4. PICK b \in BlockSet(Kinds) : b = Block("result", id) /\ b.kind = "result" /\ b.ids = <<id>>
      <3>1. Block("result", id) \in BlockSet(Kinds) BY DEF Block, BlockSet, Kinds
      <3> QED BY <3>1 DEF Block
    <2>5. IdsOf(kind, <<b>>) = IF b.kind = kind THEN b.ids ELSE <<>> BY IdsOfOne
    <2>6. each[id] = IF "tool" \in roles THEN IdsOf(kind, <<b>>) ELSE <<>>
      BY <1>1, <1>5, <2>1, <2>2, <2>3, <2>4 DEF SaidIf
    <2> QED BY <2>4, <2>5, <2>6
  <1>9. CASE kind = "result" /\ "tool" \in roles
    <2>1. \A id \in Nat : each[id] = <<id>> BY <1>8, <1>9
    <2>2. FlatMap(each, ids) = ids BY <1>7, <2>1, FlatMapSelf
    <2> QED BY <1>7, <1>9, <2>2
  <1>10. CASE ~(kind = "result" /\ "tool" \in roles)
    <2>1. \A id \in Nat : each[id] = <<>> BY <1>8, <1>10
    <2>2. FlatMap(each, ids) = <<>> BY <1>7, <2>1, FlatMapEmpty
    <2> QED BY <1>7, <1>10, <2>2
  <1> QED BY <1>9, <1>10

\* Each message says what it said,
LEMMA ChatOfSays ==
  ASSUME NEW m \in AnthropicMessages, NEW kind \in Kinds, NEW roles \in RoleSets
  PROVE  FlatMap(SaidIf("chat", kind, roles), ChatOf(m))
           = IF m.role \in roles THEN IdsOf(kind, BlocksIn(m, "anthropic")) ELSE <<>>
  <1>1. MessagesOf("chat") = ChatMessages BY DEF MessagesOf
  <1>2. SaidIf("chat", kind, roles) \in [ChatMessages -> Seq(Nat)]
    <2>1. <<>> \in Seq(MessagesOf("chat")) OBVIOUS
    <2> QED BY <1>1, <2>1, SaidIs
  <1>3. PICK said : said = SaidIf("chat", kind, roles) OBVIOUS
  <1>4. PICK parts, calls, results, head :
          /\ parts = PartsOf(m) /\ calls = IdsOf("call", m.blocks)
          /\ results = IdsOf("result", m.blocks) /\ head = SaidFirst(m)
    OBVIOUS
  <1>5. /\ parts \in Seq(BlockSet(Says)) /\ calls \in Seq(Nat) /\ results \in Seq(Nat)
        /\ head \in Seq(ChatMessages)
    BY <1>4, ChatOfIs DEF Kinds
  <1>6. m.blocks \in Seq(BlockSet(Kinds)) /\ m.role \in {"system", "user", "assistant"}
    BY DEF AnthropicMessages
  <1>7. FlatMap(said, ChatOf(m)) = Joint(FlatMap(said, head), FlatMap(said, Mapped(ToolOf, results)))
    <2>1. FlatMapAdds(said, ChatMessages, Nat) BY <1>2, <1>3, FlatMapIs
    <2>2. PICK tools \in Seq(ChatMessages) : tools = Mapped(ToolOf, results) BY <1>5, ToolOfIs
    <2>3. ChatOf(m) = Joint(head, tools) BY <1>4, <2>2, ChatOfIs
    <2> QED BY <1>5, <2>1, <2>2, <2>3 DEF FlatMapAdds
  <1>8. FlatMap(said, Mapped(ToolOf, results))
          = IF kind = "result" /\ "tool" \in roles THEN results ELSE <<>>
    BY <1>3, <1>5, ToolsSay
  <1>9. PICK bs : bs = CallBlocks(calls) OBVIOUS
  <1>10. /\ bs \in Seq(BlockSet({"call"})) /\ bs \in Seq(BlockSet(Kinds))
         /\ IdsOf("call", bs) = calls
    BY <1>5, <1>9, CallBlocksIs
  <1>11. parts \in Seq(BlockSet(Kinds))
    <2>1. Says \in SUBSET Kinds BY DEF Says, Kinds
    <2> QED BY <1>5, <2>1, BlocksAreBlocks
  <1>12. FlatMap(said, head) = IF m.role \in roles THEN Joint(IdsOf(kind, parts), IdsOf(kind, bs)) ELSE <<>>
    <2>1. CASE parts # <<>> \/ calls # <<>>
      <3>1. PICK c \in ChatMessages : c = ChatMessage(m.role, parts, calls)
        BY <1>4, <2>1, ChatOfIs
      <3>2. head = <<c>> BY <1>4, <2>1, <3>1, ChatOfIs
      <3>3. c.role = m.role /\ c.parts = parts /\ c.calls = calls BY <3>1 DEF ChatMessage
      <3>4. BlocksIn(c, "chat") = Joint(parts, bs) BY <1>6, <1>9, <3>3, ChatBlocks
      <3>5. FlatMap(said, <<c>>) = said[c] BY <1>2, <1>3, FlatMapOne
      <3>6. said[c] = IF m.role \in roles THEN IdsOf(kind, Joint(parts, bs)) ELSE <<>>
        BY <1>1, <1>3, <3>3, <3>4 DEF SaidIf
      <3>7. IdsOf(kind, Joint(parts, bs)) = Joint(IdsOf(kind, parts), IdsOf(kind, bs))
        BY <1>10, <1>11, IdsOfJoint
      <3> QED BY <3>2, <3>5, <3>6, <3>7
    <2>2. CASE parts = <<>> /\ calls = <<>>
      <3>1. head = <<>> BY <1>4, <2>2 DEF SaidFirst
      <3>2. FlatMap(said, head) = <<>> BY <3>1, FlatMapNone
      <3>3. bs = <<>> BY <1>9, <2>2 DEF CallBlocks
      <3>4. IdsOf(kind, <<>>) = <<>> BY IdsOfNone
      <3>5. Joint(<<>>, <<>>) = <<>>
        <4>1. <<>> \in Seq(Nat) OBVIOUS
        <4> QED BY <4>1, JointIs
      <3> QED BY <2>2, <3>2, <3>3, <3>4, <3>5
    <2> QED BY <2>1, <2>2
  <1>13. PICK ids : ids = IdsOf(kind, m.blocks) OBVIOUS
  <1>14. ids \in Seq(Nat) /\ Joint(ids, <<>>) = ids /\ Joint(<<>>, ids) = ids /\ Joint(<<>>, <<>>) = <<>>
    <2>1. ids \in Seq(Nat) /\ <<>> \in Seq(Nat) BY <1>13, ChatOfIs
    <2> QED BY <2>1, JointIs
  <1>15. BlocksIn(m, "anthropic") = m.blocks BY AnthropicBlocks
  <1>16. kind \notin Says => IdsOf(kind, parts) = <<>>
    <2>1. Says \in SUBSET Kinds BY DEF Says, Kinds
    <2> QED BY <1>5, <2>1, IdsOfOther
  <1>17. kind # "call" => IdsOf(kind, bs) = <<>>
    <2>1. {"call"} \in SUBSET Kinds BY DEF Kinds
    <2> QED BY <1>10, <2>1, IdsOfOther
  <1>18. "system" \in roles => "tool" \notin roles /\ "user" \notin roles /\ "assistant" \notin roles
    BY DEF RoleSets
  <1>19. "system" \notin roles => "tool" \in roles /\ "user" \in roles /\ "assistant" \in roles
    BY DEF RoleSets, Roles
  <1>20. CASE kind \in Says
    <2>1. kind # "result" /\ kind # "call" BY <1>20 DEF Says
    <2>2. IdsOf(kind, parts) = ids
      <3>1. Says \in SUBSET Kinds BY DEF Says, Kinds
      <3> QED BY <1>4, <1>6, <1>13, <1>20, <3>1, IdsOfSome DEF PartsOf
    <2> QED BY <1>3, <1>7, <1>8, <1>12, <1>13, <1>14, <1>15, <1>17, <2>1, <2>2
  <1>21. CASE kind = "call"
    <2>1. kind # "result" /\ kind \notin Says BY <1>21 DEF Says
    <2> QED BY <1>3, <1>4, <1>7, <1>8, <1>10, <1>12, <1>13, <1>14, <1>15, <1>16, <1>21, <2>1
  <1>22. CASE kind = "result"
    <2>1. kind # "call" /\ kind \notin Says BY <1>22 DEF Says
    <2>2. FlatMap(said, head) = <<>> BY <1>12, <1>14, <1>16, <1>17, <2>1
    <2>3. results = ids BY <1>4, <1>13, <1>22
    <2>4. m.role = "system" => ids = <<>> BY <1>4, <2>3, ChatOfIs
    <2> QED BY <1>3, <1>6, <1>7, <1>8, <1>13, <1>14, <1>15, <1>18, <1>19, <1>22, <2>2, <2>3, <2>4
  <1> QED BY <1>20, <1>21, <1>22 DEF Kinds, Says

\* and anthropic_to_openai() says what the Anthropic dialogue says.
LEMMA ChatFromAnthropicSays ==
  ASSUME NEW ms \in Seq(AnthropicMessages), NEW kind \in Kinds, NEW roles \in RoleSets
  PROVE  Said(ChatFromAnthropic(ms), "chat", kind, roles) = Said(ms, "anthropic", kind, roles)
  <1>1. MessagesOf("chat") = ChatMessages /\ MessagesOf("anthropic") = AnthropicMessages
    BY DEF MessagesOf
  <1>2. PICK cs \in Seq(ChatMessages) : cs = ChatFromAnthropic(ms) /\ cs = FlatMap(ChatEach, ms)
    BY ChatFromAnthropicIs
  <1>3. /\ Said(cs, "chat", kind, roles) = FlatMap(SaidIf("chat", kind, roles), cs)
        /\ SaidIf("chat", kind, roles) \in [ChatMessages -> Seq(Nat)]
    <2>1. cs \in Seq(MessagesOf("chat")) BY <1>1
    <2>2. Said(cs, "chat", kind, roles) = FlatMap(SaidIf("chat", kind, roles), cs)
      BY <2>1, SaidIs
    <2>3. SaidIf("chat", kind, roles) \in [MessagesOf("chat") -> Seq(Nat)] BY <2>1, SaidIs
    <2> QED BY <1>1, <2>2, <2>3
  <1>4. Said(ms, "anthropic", kind, roles) = FlatMap(SaidIf("anthropic", kind, roles), ms)
    BY <1>1, SaidIs
  <1>5. ChatEach \in [AnthropicMessages -> Seq(ChatMessages)] BY ChatFromAnthropicIs
  <1>6. SaidIf("anthropic", kind, roles)
          = [m \in AnthropicMessages |-> FlatMap(SaidIf("chat", kind, roles), ChatEach[m])]
    BY <1>1, ChatOfSays DEF SaidIf, ChatEach
  <1>7. IsAfter(SaidIf("anthropic", kind, roles), SaidIf("chat", kind, roles), ChatEach,
                AnthropicMessages, Nat)
    BY <1>3, <1>5, <1>6, AfterIs
  <1>8. FlatMap(SaidIf("chat", kind, roles), FlatMap(ChatEach, ms))
          = FlatMap(SaidIf("anthropic", kind, roles), ms)
    BY <1>7 DEF IsAfter
  <1> QED BY <1>2, <1>3, <1>4, <1>8

-----------------------------------------------------------------------------
(* An Anthropic request of a chat one.                                      *)

Systems == WithRoles(ChatMessages, {"system"})
Others == WithRoles(ChatMessages, Roles \ {"system"})
PartsEach == [m \in Systems |-> m.parts]
AnthropicEach == [m \in Others |-> AnthropicOf(m)]

\* The instructions in one message, the others converted.
SystemPart(ms) ==
  IF OfRoles({"system"}, ms) = <<>> THEN <<>>
  ELSE <<AnthropicMessage("system", FlatMap(PartsEach, OfRoles({"system"}, ms)))>>
OtherPart(ms) == Mapped(AnthropicEach, OfRoles(Roles \ {"system"}, ms))

\* A chat message converted has its blocks.
LEMMA AnthropicOfIs ==
  ASSUME NEW m \in Others
  PROVE  /\ AnthropicOf(m) \in AnthropicMessages /\ AnthropicOf(m).role # "system"
         /\ BlocksIn(AnthropicOf(m), "anthropic") = BlocksIn(m, "chat")
  <1>1. m \in ChatMessages /\ m.role \in {"user", "assistant", "tool"}
    BY DEF Others, WithRoles, ChatMessages
  <1>2. m.answers \in Nat BY <1>1 DEF ChatMessages
  <1>3. PICK b : b = BlocksIn(m, "chat") OBVIOUS
  <1>4. b \in Seq(BlockSet(Kinds)) BY <1>1, <1>3, ChatBlocks
  <1>5. AnthropicOf(m) = [role |-> IF m.role = "tool" THEN "user" ELSE m.role, blocks |-> b]
    <2>1. CASE m.role = "tool"
      <3>1. b = <<Block("result", m.answers)>> BY <1>1, <1>3, <2>1, ChatBlocks
      <3> QED BY <2>1, <3>1 DEF AnthropicOf, AnthropicMessage
    <2>2. CASE m.role # "tool"
      <3>1. b = Joint(m.parts, CallBlocks(m.calls)) BY <1>1, <1>3, <2>2, ChatBlocks
      <3> QED BY <2>2, <3>1 DEF AnthropicOf, AnthropicMessage, Joint
    <2> QED BY <2>1, <2>2
  <1>6. PICK a : a = AnthropicOf(m) OBVIOUS
  <1>7. a.role \in {"user", "assistant"} /\ a.blocks = b BY <1>1, <1>5, <1>6
  <1>8. a \in AnthropicMessages BY <1>1, <1>4, <1>5, <1>6, <1>7 DEF AnthropicMessages
  <1>9. BlocksIn(a, "anthropic") = b BY <1>7, <1>8, AnthropicBlocks
  <1> QED BY <1>3, <1>6, <1>7, <1>8, <1>9

\* The system messages, and the others.
LEMMA SystemsAreOf ==
  ASSUME NEW ms \in Seq(ChatMessages)
  PROVE  /\ OfRoles({"system"}, ms) \in Seq(Systems)
         /\ OfRoles({"system"}, ms) \in Seq(ChatMessages)
         /\ OfRoles(Roles \ {"system"}, ms) \in Seq(Others)
         /\ OfRoles(Roles \ {"system"}, ms) \in Seq(ChatMessages)
         /\ FlatMap(PartsEach, OfRoles({"system"}, ms)) \in Seq(BlockSet(Says))
         /\ FlatMap(PartsEach, OfRoles({"system"}, ms)) = AllBlocks("chat", OfRoles({"system"}, ms))
         /\ AnthropicEach \in [Others -> AnthropicMessages]
  <1>1. MessagesOf("chat") = ChatMessages BY DEF MessagesOf
  <1>2. /\ OfRoles({"system"}, ms) \in Seq(Systems)
        /\ OfRoles({"system"}, ms) \in Seq(ChatMessages)
    BY <1>1, OfRolesIs DEF Systems
  <1>3. /\ OfRoles(Roles \ {"system"}, ms) \in Seq(Others)
        /\ OfRoles(Roles \ {"system"}, ms) \in Seq(ChatMessages)
    BY <1>1, OfRolesIs DEF Others
  <1>4. PartsEach \in [Systems -> Seq(BlockSet(Says))]
    BY DEF PartsEach, Systems, WithRoles, ChatMessages
  <1>5. FlatMap(PartsEach, OfRoles({"system"}, ms)) \in Seq(BlockSet(Says))
    BY <1>2, <1>4, FlatMapIn
  <1>6. ASSUME NEW m \in Systems PROVE PartsEach[m] = BlocksEach("chat")[m]
    <2>1. m \in ChatMessages /\ m.role = "system" BY DEF Systems, WithRoles
    <2>2. BlocksIn(m, "chat") = m.parts BY <2>1, ChatBlocks
    <2> QED BY <1>1, <2>1, <2>2 DEF PartsEach, BlocksEach
  <1>7. FlatMap(PartsEach, OfRoles({"system"}, ms)) = FlatMap(BlocksEach("chat"), OfRoles({"system"}, ms))
    BY <1>2, <1>6, FlatMapSame
  <1>8. AnthropicEach \in [Others -> AnthropicMessages] BY AnthropicOfIs DEF AnthropicEach
  <1> QED BY <1>2, <1>3, <1>5, <1>7, <1>8 DEF AllBlocks

\* The system messages are one that comes first.
LEMMA AnthropicFromChatIs ==
  ASSUME NEW ms \in Seq(ChatMessages)
  PROVE  /\ SystemPart(ms) \in Seq(AnthropicMessages) /\ OtherPart(ms) \in Seq(AnthropicMessages)
         /\ AnthropicFromChat(ms) = Joint(SystemPart(ms), OtherPart(ms))
         /\ AnthropicFromChat(ms) \in Seq(AnthropicMessages)
  <1>1. PICK systems, rest :
          systems = OfRoles({"system"}, ms) /\ rest = OfRoles(Roles \ {"system"}, ms)
    OBVIOUS
  <1>2. /\ systems \in Seq(Systems) /\ rest \in Seq(Others)
        /\ FlatMap(PartsEach, systems) \in Seq(BlockSet(Says))
        /\ AnthropicEach \in [Others -> AnthropicMessages]
    BY <1>1, SystemsAreOf
  <1>3. FlattenSeq([i \in DOMAIN systems |-> systems[i].parts]) = FlatMap(PartsEach, systems)
    <2>1. \A i \in DOMAIN systems : systems[i] \in Systems BY <1>2
    <2>2. Mapped(PartsEach, systems) = [i \in DOMAIN systems |-> systems[i].parts]
      BY <2>1 DEF Mapped, PartsEach
    <2> QED BY <2>2 DEF FlatMap
  <1>4. [i \in DOMAIN rest |-> AnthropicOf(rest[i])] = Mapped(AnthropicEach, rest)
    <2>1. \A i \in DOMAIN rest : rest[i] \in Others BY <1>2
    <2> QED BY <2>1 DEF Mapped, AnthropicEach
  <1>5. AnthropicFromChat(ms) = Joint(SystemPart(ms), OtherPart(ms))
    BY <1>1, <1>3, <1>4 DEF AnthropicFromChat, SystemPart, OtherPart, Joint
  <1>6. PICK bs : bs = FlatMap(PartsEach, systems) OBVIOUS
  <1>7. bs \in Seq(BlockSet(Says)) /\ bs \in Seq(BlockSet(Kinds))
    <2>1. Says \in SUBSET Kinds BY DEF Says, Kinds
    <2> QED BY <1>2, <1>6, <2>1, BlocksAreBlocks
  <1>8. AnthropicMessage("system", bs) \in AnthropicMessages
    BY <1>7 DEF AnthropicMessage, AnthropicMessages
  <1>9. SystemPart(ms) \in Seq(AnthropicMessages)
    <2>1. CASE systems = <<>> BY <1>1, <2>1 DEF SystemPart
    <2>2. CASE systems # <<>>
      <3>1. SystemPart(ms) = <<AnthropicMessage("system", bs)>> BY <1>1, <1>6, <2>2 DEF SystemPart
      <3> QED BY <1>8, <3>1
    <2> QED BY <2>1, <2>2
  <1>10. OtherPart(ms) \in Seq(AnthropicMessages)
    <2>1. IsMapped(Mapped(AnthropicEach, rest), AnthropicEach, rest, AnthropicMessages)
      BY <1>2, MappedAt
    <2> QED BY <1>1, <2>1 DEF IsMapped, OtherPart
  <1>11. Joint(SystemPart(ms), OtherPart(ms)) \in Seq(AnthropicMessages) BY <1>9, <1>10, JointIs
  <1> QED BY <1>5, <1>9, <1>10, <1>11

\* openai_request_to_anthropic() says what the chat says.
LEMMA AnthropicFromChatSays ==
  ASSUME NEW ms \in Seq(ChatMessages), NEW kind \in Kinds, NEW roles \in RoleSets
  PROVE  Said(AnthropicFromChat(ms), "anthropic", kind, roles) = Said(ms, "chat", kind, roles)
  <1>1. MessagesOf("chat") = ChatMessages /\ MessagesOf("anthropic") = AnthropicMessages
    BY DEF MessagesOf
  <1>2. PICK said, each : said = SaidIf("anthropic", kind, roles) /\ each = SaidEach("chat", kind)
    OBVIOUS
  <1>3. said \in [AnthropicMessages -> Seq(Nat)] /\ each \in [ChatMessages -> Seq(Nat)]
    <2>1. <<>> \in Seq(MessagesOf("chat")) /\ <<>> \in Seq(MessagesOf("anthropic")) OBVIOUS
    <2> QED BY <1>1, <1>2, <2>1, SaidIs
  <1>4. PICK first, second :
          first = SystemPart(ms) /\ second = OtherPart(ms)
    OBVIOUS
  <1>5. /\ first \in Seq(AnthropicMessages) /\ second \in Seq(AnthropicMessages)
        /\ AnthropicFromChat(ms) = Joint(first, second)
        /\ AnthropicFromChat(ms) \in Seq(AnthropicMessages)
    BY <1>4, AnthropicFromChatIs
  <1>6. Said(AnthropicFromChat(ms), "anthropic", kind, roles)
          = Joint(FlatMap(said, first), FlatMap(said, second))
    <2>1. PICK all \in Seq(AnthropicMessages) : all = AnthropicFromChat(ms) BY <1>5
    <2>2. Said(all, "anthropic", kind, roles) = FlatMap(said, all)
      <3>1. all \in Seq(MessagesOf("anthropic")) BY <1>1
      <3> QED BY <1>2, <3>1, SaidIs
    <2>3. FlatMapAdds(said, AnthropicMessages, Nat) BY <1>3, FlatMapIs
    <2>4. FlatMap(said, Joint(first, second)) = Joint(FlatMap(said, first), FlatMap(said, second))
      BY <1>5, <2>3 DEF FlatMapAdds
    <2> QED BY <1>5, <2>1, <2>2, <2>4
  <1>7. Said(ms, "chat", kind, roles) = FlatMap(each, OfRoles(roles, ms))
    <2>1. ms \in Seq(MessagesOf("chat")) BY <1>1
    <2> QED BY <1>2, <2>1, SaidIs
  <1>8. PICK systems, rest :
          systems = OfRoles({"system"}, ms) /\ rest = OfRoles(Roles \ {"system"}, ms)
    OBVIOUS
  <1>9. /\ systems \in Seq(Systems) /\ systems \in Seq(ChatMessages) /\ rest \in Seq(Others)
        /\ FlatMap(PartsEach, systems) \in Seq(BlockSet(Says))
        /\ FlatMap(PartsEach, systems) = AllBlocks("chat", systems)
        /\ AnthropicEach \in [Others -> AnthropicMessages]
    BY <1>8, SystemsAreOf
  <1>10. second = Mapped(AnthropicEach, rest) BY <1>4, <1>8 DEF OtherPart
  <1>11. PICK after : after = [m \in Others |-> said[AnthropicEach[m]]] OBVIOUS
  <1>12. FlatMap(said, second) = FlatMap(after, rest)
    <2>1. IsThrough(after, said, AnthropicEach, Others, AnthropicMessages, Seq(Nat))
      BY <1>3, <1>9, <1>11, ThroughIs
    <2> QED BY <1>9, <1>10, <2>1 DEF IsThrough
  <1>13. ASSUME NEW m \in Others
         PROVE  after[m] = IF "system" \notin roles THEN each[m] ELSE <<>>
    <2>1. PICK a \in AnthropicMessages : a = AnthropicOf(m) BY AnthropicOfIs
    <2>2. a.role # "system" /\ BlocksIn(a, "anthropic") = BlocksIn(m, "chat") BY <2>1, AnthropicOfIs
    <2>3. a.role \in {"user", "assistant"} BY <2>2 DEF AnthropicMessages
    <2>4. a.role \in roles <=> "system" \notin roles BY <2>3 DEF RoleSets, Roles
    <2>5. m \in ChatMessages BY DEF Others, WithRoles
    <2> QED BY <1>1, <1>2, <1>11, <2>1, <2>2, <2>4, <2>5 DEF SaidIf, SaidEach, AnthropicEach
  <1>14. PICK bs : bs = FlatMap(PartsEach, systems) OBVIOUS
  <1>15. bs \in Seq(BlockSet(Kinds))
    <2>1. Says \in SUBSET Kinds BY DEF Says, Kinds
    <2> QED BY <1>9, <1>14, <2>1, BlocksAreBlocks
  <1>16. FlatMap(said, first) = IF "system" \in roles THEN IdsOf(kind, bs) ELSE <<>>
    <2>1. CASE systems = <<>>
      <3>1. first = <<>> /\ bs = <<>> BY <1>4, <1>8, <1>14, <2>1, FlatMapNone DEF SystemPart
      <3> QED BY <3>1, FlatMapNone, IdsOfNone
    <2>2. CASE systems # <<>>
      <3>1. PICK a \in AnthropicMessages : a = AnthropicMessage("system", bs) /\ first = <<a>>
        <4>1. first = <<AnthropicMessage("system", bs)>> BY <1>4, <1>8, <1>14, <2>2 DEF SystemPart
        <4>2. AnthropicMessage("system", bs) \in AnthropicMessages
          BY <1>9, <1>14, <1>15 DEF AnthropicMessage, AnthropicMessages
        <4> QED BY <4>1, <4>2
      <3>2. a.role = "system" /\ a.blocks = bs BY <3>1 DEF AnthropicMessage
      <3>3. FlatMap(said, <<a>>) = said[a] BY <1>3, FlatMapOne
      <3>4. BlocksIn(a, "anthropic") = bs BY <3>2, AnthropicBlocks
      <3> QED BY <1>1, <1>2, <3>1, <3>2, <3>3, <3>4 DEF SaidIf
    <2> QED BY <2>1, <2>2
  <1>17. Joint(<<>>, <<>>) = <<>> /\ \A ids \in Seq(Nat) : Joint(ids, <<>>) = ids /\ Joint(<<>>, ids) = ids
    <2>1. <<>> \in Seq(Nat) OBVIOUS
    <2> QED BY <2>1, JointIs
  <1>18. CASE roles = {"system"}
    <2>1. FlatMap(said, second) = <<>>
      <3>1. \A m \in Others : after[m] = <<>> BY <1>13, <1>18
      <3> QED BY <1>9, <1>12, <3>1, FlatMapEmpty
    <2>2. FlatMap(each, systems) = IdsOf(kind, bs)
      <3>1. systems \in Seq(MessagesOf("chat")) BY <1>1, <1>9
      <3>2. IdsOf(kind, AllBlocks("chat", systems)) = FlatMap(SaidEach("chat", kind), systems)
        BY <3>1, SaidIs
      <3> QED BY <1>2, <1>9, <1>14, <3>2
    <2>3. IdsOf(kind, bs) \in Seq(Nat) BY <1>15, IdsOfIs
    <2> QED BY <1>6, <1>7, <1>8, <1>16, <1>17, <1>18, <2>1, <2>2, <2>3
  <1>19. CASE roles = Roles \ {"system"}
    <2>1. "system" \notin roles BY <1>19
    <2>2. FlatMap(said, second) = FlatMap(each, rest)
      <3>1. \A m \in Others : after[m] = each[m] BY <1>13, <2>1
      <3>2. FlatMap(after, rest) = FlatMap(each, rest) BY <1>9, <3>1, FlatMapSame
      <3> QED BY <1>12, <3>2
    <2>3. FlatMap(said, first) = <<>> BY <1>16, <2>1
    <2>4. FlatMap(said, second) \in Seq(Nat) BY <1>3, <1>5, FlatMapIn
    <2> QED BY <1>6, <1>7, <1>8, <1>17, <1>19, <2>2, <2>3, <2>4
  <1> QED BY <1>18, <1>19 DEF RoleSets

-----------------------------------------------------------------------------
(* A chat request of a Responses one.                                       *)

ItemEach == [m \in Items |-> ChatOfItem(m)]

\* An item converted has its blocks and, if it is an instruction, its role.
LEMMA ChatOfItemIs ==
  ASSUME NEW m \in Items
  PROVE  /\ ChatOfItem(m) \in ChatMessages
         /\ BlocksIn(ChatOfItem(m), "chat") = BlocksIn(m, "responses")
         /\ ChatOfItem(m).role = "system" <=> m.role = "system"
         /\ ChatOfItem(m).role = IF m.type = "message" THEN m.role
                                 ELSE IF m.type = "function_call" THEN "assistant" ELSE "tool"
  <1>1. /\ m.type \in {"message", "function_call", "function_call_output"}
        /\ m.parts \in Seq(BlockSet(Says)) /\ m.call \in Nat
        /\ m.role \in {"system", "user", "assistant", "none"}
        /\ m.type = "message" => m.role # "none"
        /\ m.type # "message" => m.role = "none" /\ m.parts = <<>>
    BY DEF Items
  <1>2. PICK c : c = ChatOfItem(m) OBVIOUS
  <1>3. CASE m.type = "message"
    <2>1. c = ChatMessage(m.role, m.parts, <<>>) BY <1>2, <1>3 DEF ChatOfItem
    <2>2. c.role = m.role /\ c.parts = m.parts /\ c.calls = <<>> BY <2>1 DEF ChatMessage
    <2>3. c \in ChatMessages BY <1>1, <1>3, <2>1 DEF ChatMessage, ChatMessages
    <2>4. BlocksIn(c, "chat") = Joint(m.parts, CallBlocks(<<>>)) BY <1>1, <1>3, <2>2, <2>3, ChatBlocks
    <2>5. CallBlocks(<<>>) = <<>> BY DEF CallBlocks
    <2>6. Joint(m.parts, <<>>) = m.parts
      <3>1. <<>> \in Seq(BlockSet(Says)) OBVIOUS
      <3> QED BY <1>1, <3>1, JointIs
    <2>7. BlocksIn(m, "responses") = m.parts BY <1>3, ItemBlocks
    <2> QED BY <1>2, <1>3, <2>2, <2>3, <2>4, <2>5, <2>6, <2>7
  <1>4. CASE m.type = "function_call"
    <2>1. c = ChatMessage("assistant", <<>>, <<m.call>>) BY <1>2, <1>4 DEF ChatOfItem
    <2>2. c.role = "assistant" /\ c.parts = <<>> /\ c.calls = <<m.call>> BY <2>1 DEF ChatMessage
    <2>3. c \in ChatMessages BY <1>1, <2>1 DEF ChatMessage, ChatMessages
    <2>4. BlocksIn(c, "chat") = Joint(<<>>, CallBlocks(<<m.call>>)) BY <2>2, <2>3, ChatBlocks
    <2>5. CallBlocks(<<m.call>>) = <<Block("call", m.call)>> BY DEF CallBlocks
    <2>6. Joint(<<>>, <<Block("call", m.call)>>) = <<Block("call", m.call)>>
      <3>1. PICK b : b = Block("call", m.call) OBVIOUS
      <3>2. <<>> \in Seq({b}) /\ <<b>> \in Seq({b}) OBVIOUS
      <3>3. Joint(<<>>, <<b>>) = <<b>> BY <3>2, JointIs
      <3> QED BY <3>1, <3>3
    <2>7. BlocksIn(m, "responses") = <<Block("call", m.call)>> BY <1>4, ItemBlocks
    <2> QED BY <1>1, <1>2, <1>4, <2>2, <2>3, <2>4, <2>5, <2>6, <2>7
  <1>5. CASE m.type = "function_call_output"
    <2>1. c = ToolMessage(m.call) BY <1>2, <1>5 DEF ChatOfItem
    <2>2. c.role = "tool" /\ c.answers = m.call BY <2>1 DEF ToolMessage
    <2>3. c \in ChatMessages BY <1>1, <2>1 DEF ToolMessage, ChatMessages
    <2>4. BlocksIn(c, "chat") = <<Block("result", m.call)>> BY <2>2, <2>3, ChatBlocks
    <2>5. BlocksIn(m, "responses") = <<Block("result", m.call)>> BY <1>5, ItemBlocks
    <2> QED BY <1>1, <1>2, <1>5, <2>2, <2>3, <2>4, <2>5
  <1> QED BY <1>1, <1>3, <1>4, <1>5

\* Items are converted one by one.
LEMMA ChatFromItemsIs ==
  ASSUME NEW ms \in Seq(Items)
  PROVE  /\ ItemEach \in [Items -> ChatMessages]
         /\ ChatFromItems(ms) = Mapped(ItemEach, ms) /\ ChatFromItems(ms) \in Seq(ChatMessages)
  <1>1. ItemEach \in [Items -> ChatMessages] BY ChatOfItemIs DEF ItemEach
  <1>2. \A i \in DOMAIN ms : ms[i] \in Items OBVIOUS
  <1>3. ChatFromItems(ms) = Mapped(ItemEach, ms) BY <1>2 DEF ChatFromItems, Mapped, ItemEach
  <1>4. IsMapped(Mapped(ItemEach, ms), ItemEach, ms, ChatMessages) BY <1>1, MappedAt
  <1> QED BY <1>1, <1>3, <1>4 DEF IsMapped

\* responses_to_chat() says what the items say.
LEMMA ChatFromItemsSays ==
  ASSUME NEW ms \in Seq(Items), NEW kind \in Kinds, NEW roles \in RoleSets
  PROVE  Said(ChatFromItems(ms), "chat", kind, roles) = Said(ms, "responses", kind, roles)
  <1>1. MessagesOf("chat") = ChatMessages /\ MessagesOf("responses") = Items
    BY DEF MessagesOf
  <1>2. PICK said, heard :
          said = SaidIf("chat", kind, roles) /\ heard = SaidIf("responses", kind, roles)
    OBVIOUS
  <1>3. said \in [ChatMessages -> Seq(Nat)] /\ Said(ms, "responses", kind, roles) = FlatMap(heard, ms)
    <2>1. <<>> \in Seq(MessagesOf("chat")) /\ ms \in Seq(MessagesOf("responses")) BY <1>1
    <2>2. SaidIf("chat", kind, roles) \in [MessagesOf("chat") -> Seq(Nat)] BY <2>1, SaidIs
    <2>3. Said(ms, "responses", kind, roles) = FlatMap(SaidIf("responses", kind, roles), ms)
      BY <2>1, SaidIs
    <2> QED BY <1>1, <1>2, <2>2, <2>3
  <1>4. PICK cs \in Seq(ChatMessages) : cs = ChatFromItems(ms) /\ cs = Mapped(ItemEach, ms)
    BY ChatFromItemsIs
  <1>5. Said(cs, "chat", kind, roles) = FlatMap(said, cs)
    <2>1. cs \in Seq(MessagesOf("chat")) BY <1>1
    <2> QED BY <1>2, <2>1, SaidIs
  <1>6. ASSUME NEW m \in Items
        PROVE  said[ItemEach[m]] = IF m.role \in roles THEN IdsOf(kind, BlocksIn(m, "responses")) ELSE <<>>
    <2>1. PICK c \in ChatMessages : c = ChatOfItem(m) BY ChatOfItemIs
    <2>2. /\ BlocksIn(c, "chat") = BlocksIn(m, "responses")
          /\ c.role = "system" <=> m.role = "system"
      BY <2>1, ChatOfItemIs
    <2>3. c.role \in Roles /\ m.role \in Roles BY ChatBlocks, ItemBlocks
    <2>4. c.role \in roles <=> m.role \in roles BY <2>2, <2>3 DEF RoleSets
    <2> QED BY <1>1, <1>2, <2>1, <2>2, <2>4 DEF SaidIf, ItemEach
  <1>7. heard = [m \in Items |-> said[ItemEach[m]]] BY <1>1, <1>2, <1>6 DEF SaidIf
  <1>8. ItemEach \in [Items -> ChatMessages] BY ChatFromItemsIs
  <1>9. IsThrough(heard, said, ItemEach, Items, ChatMessages, Seq(Nat)) BY <1>3, <1>7, <1>8, ThroughIs
  <1>10. FlatMap(said, Mapped(ItemEach, ms)) = FlatMap(heard, ms) BY <1>9 DEF IsThrough
  <1> QED BY <1>3, <1>4, <1>5, <1>10

-----------------------------------------------------------------------------
(* Results and their calls.                                                 *)

Followed(bs) ==
  \A i \in 1..Len(bs) : bs[i].kind = "result" =>
    \E k \in 1..(i - 1) : bs[k].kind = "call" /\ bs[k].ids = bs[i].ids

\* Results follow if those that are new answer earlier calls,
LEMMA FollowedAfter ==
  ASSUME NEW s \in Seq(BlockSet(Kinds)), NEW t \in Seq(BlockSet(Kinds)), Followed(s),
         \A b \in ToSet(t) : b.kind = "result" =>
           \E c \in ToSet(s) : c.kind = "call" /\ c.ids = b.ids
  PROVE  Followed(Joint(s, t))
  <1>1. PICK n \in Nat, m \in Nat : n = Len(s) /\ m = Len(t) /\ DOMAIN s = 1..n /\ DOMAIN t = 1..m
    OBVIOUS
  <1>2. PICK u : u = Joint(s, t) OBVIOUS
  <1>3. /\ u \in Seq(BlockSet(Kinds)) /\ Len(u) = n + m
        /\ \A k \in 1..n : u[k] = s[k]
        /\ \A k \in 1..m : u[n + k] = t[k]
    <2>1. IsJoint(u, s, t, BlockSet(Kinds)) BY <1>2, JointAt
    <2> QED BY <1>1, <2>1 DEF IsJoint
  <1>4. ASSUME NEW i \in 1..(n + m), u[i].kind = "result"
        PROVE  \E k \in 1..(i - 1) : u[k].kind = "call" /\ u[k].ids = u[i].ids
    <2>1. CASE i <= n
      <3>1. i \in 1..n BY <2>1
      <3>2. PICK k \in 1..(i - 1) : s[k].kind = "call" /\ s[k].ids = s[i].ids
        BY <1>1, <1>3, <1>4, <3>1 DEF Followed
      <3>3. k \in 1..n BY <3>1
      <3> QED BY <1>3, <3>1, <3>2, <3>3
    <2>2. CASE ~(i <= n)
      <3>1. PICK l \in 1..m : i = n + l
        <4>1. i - n \in 1..m /\ i = n + (i - n) BY <2>2
        <4> QED BY <4>1
      <3>2. u[i] = t[l] /\ t[l] \in ToSet(t) BY <1>1, <1>3, <3>1 DEF ToSet
      <3>3. PICK c \in ToSet(s) : c.kind = "call" /\ c.ids = t[l].ids BY <1>4, <3>2
      <3>4. PICK k \in 1..n : c = s[k] BY <1>1, <3>3 DEF ToSet
      <3>5. k \in 1..(i - 1) BY <3>1
      <3> QED BY <1>3, <3>2, <3>3, <3>4, <3>5
    <2> QED BY <2>1, <2>2
  <1> QED BY <1>2, <1>3, <1>4 DEF Followed

\* whatever is said before them all.
LEMMA FollowedBefore ==
  ASSUME NEW s \in Seq(BlockSet(Says)), NEW t \in Seq(BlockSet(Kinds)), Followed(t)
  PROVE  Followed(Joint(s, t))
  <1>1. PICK n \in Nat, m \in Nat : n = Len(s) /\ m = Len(t) OBVIOUS
  <1>2. PICK u : u = Joint(s, t) OBVIOUS
  <1>3. s \in Seq(BlockSet(Kinds))
    <2>1. Says \in SUBSET Kinds BY DEF Says, Kinds
    <2> QED BY <2>1, BlocksAreBlocks
  <1>4. /\ u \in Seq(BlockSet(Kinds)) /\ Len(u) = n + m
        /\ \A k \in 1..n : u[k] = s[k]
        /\ \A k \in 1..m : u[n + k] = t[k]
    <2>1. IsJoint(u, s, t, BlockSet(Kinds)) BY <1>2, <1>3, JointAt
    <2> QED BY <1>1, <2>1 DEF IsJoint
  <1>5. ASSUME NEW i \in 1..(n + m), u[i].kind = "result"
        PROVE  \E k \in 1..(i - 1) : u[k].kind = "call" /\ u[k].ids = u[i].ids
    <2>1. CASE i <= n
      <3>1. i \in 1..n /\ s[i] \in BlockSet(Says) BY <1>1, <2>1
      <3>2. s[i].kind # "result" BY <3>1 DEF BlockSet, Says
      <3> QED BY <1>4, <1>5, <3>1, <3>2
    <2>2. CASE ~(i <= n)
      <3>1. PICK l \in 1..m : i = n + l
        <4>1. i - n \in 1..m /\ i = n + (i - n) BY <2>2
        <4> QED BY <4>1
      <3>2. u[i] = t[l] BY <1>4, <3>1
      <3>3. PICK k \in 1..(l - 1) : t[k].kind = "call" /\ t[k].ids = t[l].ids
        BY <1>1, <1>5, <3>2 DEF Followed
      <3>4. k \in 1..m /\ n + k \in 1..(i - 1) BY <3>1
      <3>5. u[n + k] = t[k] BY <1>4, <3>4
      <3> QED BY <3>2, <3>3, <3>4, <3>5
    <2> QED BY <2>1, <2>2
  <1> QED BY <1>2, <1>4, <1>5 DEF Followed

\* The blocks of a chat dialogue, without the instructions or with them.
BlocksOfRoles(roles, cs) == AllBlocks("chat", OfRoles(roles, cs))
Scopes == {Roles, Roles \ {"system"}}
CallsMade(cs) == UNION {ToSet(c.calls) : c \in ToSet(cs)}

\* The blocks of a dialogue that goes on.
LEMMA BlocksOfRolesJoint ==
  ASSUME NEW cs \in Seq(ChatMessages), NEW xs \in Seq(ChatMessages), NEW roles
  PROVE  /\ BlocksOfRoles(roles, cs) \in Seq(BlockSet(Kinds))
         /\ BlocksOfRoles(roles, xs) \in Seq(BlockSet(Kinds))
         /\ BlocksOfRoles(roles, Joint(cs, xs)) = Joint(BlocksOfRoles(roles, cs), BlocksOfRoles(roles, xs))
  <1>1. MessagesOf("chat") = ChatMessages BY DEF MessagesOf
  <1>2. PICK some, blocksOf : some = RoleIf("chat", roles) /\ blocksOf = BlocksEach("chat") OBVIOUS
  <1>3. some \in [ChatMessages -> Seq(ChatMessages)]
    <2>1. cs \in Seq(MessagesOf("chat")) BY <1>1
    <2>2. some \in [MessagesOf("chat") -> Seq(MessagesOf("chat"))] BY <1>2, <2>1, OfRolesIs
    <2> QED BY <1>1, <2>2
  <1>4. blocksOf \in [ChatMessages -> Seq(BlockSet(Kinds))]
    <2>1. blocksOf \in [MessagesOf("chat") -> Seq(BlockSet(Kinds))] BY <1>2, BlocksEachIs
    <2> QED BY <1>1, <2>1
  <1>5. ASSUME NEW s \in Seq(ChatMessages)
        PROVE  OfRoles(roles, s) = FlatMap(some, s) /\ OfRoles(roles, s) \in Seq(ChatMessages)
    <2>1. s \in Seq(MessagesOf("chat")) BY <1>1
    <2>2. /\ OfRoles(roles, s) = FlatMap(some, s)
          /\ OfRoles(roles, s) \in Seq(MessagesOf("chat"))
      BY <1>2, <2>1, OfRolesIs
    <2> QED BY <1>1, <2>2
  <1>6. PICK u \in Seq(ChatMessages) : u = Joint(cs, xs)
    <2>1. Joint(cs, xs) \in Seq(ChatMessages) BY JointIs
    <2> QED BY <2>1
  <1>7. FlatMapAdds(some, ChatMessages, ChatMessages) BY <1>3, FlatMapIs
  <1>8. OfRoles(roles, u) = Joint(OfRoles(roles, cs), OfRoles(roles, xs))
    <2>1. FlatMap(some, Joint(cs, xs)) = Joint(FlatMap(some, cs), FlatMap(some, xs))
      BY <1>7 DEF FlatMapAdds
    <2> QED BY <1>5, <1>6, <2>1
  <1>9. FlatMapAdds(blocksOf, ChatMessages, BlockSet(Kinds)) BY <1>4, FlatMapIs
  <1>10. PICK a \in Seq(ChatMessages), b \in Seq(ChatMessages) :
           a = OfRoles(roles, cs) /\ b = OfRoles(roles, xs)
    BY <1>5
  <1>11. /\ FlatMap(blocksOf, a) \in Seq(BlockSet(Kinds)) /\ FlatMap(blocksOf, b) \in Seq(BlockSet(Kinds))
         /\ FlatMap(blocksOf, Joint(a, b)) = Joint(FlatMap(blocksOf, a), FlatMap(blocksOf, b))
    BY <1>9 DEF FlatMapAdds
  <1> QED BY <1>2, <1>6, <1>8, <1>10, <1>11 DEF BlocksOfRoles, AllBlocks

\* The blocks are those of the messages.
LEMMA BlocksOfRolesItems ==
  ASSUME NEW cs \in Seq(ChatMessages), NEW roles
  PROVE  ToSet(BlocksOfRoles(roles, cs))
           = UNION {ToSet(BlocksIn(c, "chat")) : c \in {d \in ToSet(cs) : d.role \in roles}}
  <1>1. MessagesOf("chat") = ChatMessages BY DEF MessagesOf
  <1>2. PICK some, blocksOf : some = RoleIf("chat", roles) /\ blocksOf = BlocksEach("chat") OBVIOUS
  <1>3. cs \in Seq(MessagesOf("chat")) BY <1>1
  <1>4. /\ some \in [ChatMessages -> Seq(ChatMessages)]
        /\ OfRoles(roles, cs) = FlatMap(some, cs) /\ OfRoles(roles, cs) \in Seq(ChatMessages)
    <2>1. some \in [MessagesOf("chat") -> Seq(MessagesOf("chat"))] BY <1>2, <1>3, OfRolesIs
    <2>2. /\ OfRoles(roles, cs) = FlatMap(some, cs)
          /\ OfRoles(roles, cs) \in Seq(MessagesOf("chat"))
      BY <1>2, <1>3, OfRolesIs
    <2> QED BY <1>1, <2>1, <2>2
  <1>5. blocksOf \in [ChatMessages -> Seq(BlockSet(Kinds))]
    <2>1. blocksOf \in [MessagesOf("chat") -> Seq(BlockSet(Kinds))] BY <1>2, BlocksEachIs
    <2> QED BY <1>1, <2>1
  <1>6. PICK mine \in Seq(ChatMessages) : mine = OfRoles(roles, cs) BY <1>4
  <1>7. ToSet(mine) = UNION {ToSet(some[c]) : c \in ToSet(cs)}
    <2>1. some \in [ChatMessages -> Seq(ChatMessages)] BY <1>4
    <2>2. ToSet(FlatMap(some, cs)) = UNION {ToSet(some[c]) : c \in ToSet(cs)}
      <3>1. HasItems(some, ChatMessages, ChatMessages) BY <2>1, FlatMapItems
      <3> QED BY <3>1 DEF HasItems
    <2> QED BY <1>4, <1>6, <2>2
  <1>8. ToSet(cs) \subseteq ChatMessages BY DEF ToSet
  <1>9. ASSUME NEW c \in ToSet(cs) PROVE ToSet(some[c]) = IF c.role \in roles THEN {c} ELSE {}
    <2>1. some[c] = IF c.role \in roles THEN <<c>> ELSE <<>> BY <1>1, <1>2, <1>8 DEF RoleIf
    <2>2. ToSet(<<c>>) = {c} /\ ToSet(<<>>) = {} BY DEF ToSet
    <2> QED BY <2>1, <2>2
  <1>10. ToSet(mine) = {d \in ToSet(cs) : d.role \in roles}
    <2>1. ASSUME NEW d PROVE d \in ToSet(mine) <=> d \in ToSet(cs) /\ d.role \in roles
      <3>1. d \in ToSet(mine) <=> \E c \in ToSet(cs) : d \in ToSet(some[c]) BY <1>7
      <3>2. ASSUME NEW c \in ToSet(cs) PROVE d \in ToSet(some[c]) <=> c.role \in roles /\ d = c
        <4>1. CASE c.role \in roles BY <1>9, <4>1
        <4>2. CASE c.role \notin roles BY <1>9, <4>2
        <4> QED BY <4>1, <4>2
      <3> QED BY <3>1, <3>2
    <2> QED BY <2>1
  <1>11. ToSet(FlatMap(blocksOf, mine)) = UNION {ToSet(blocksOf[c]) : c \in ToSet(mine)}
    <2>1. HasItems(blocksOf, ChatMessages, BlockSet(Kinds)) BY <1>5, FlatMapItems
    <2> QED BY <2>1 DEF HasItems
  <1>12. \A c \in ToSet(cs) : blocksOf[c] = BlocksIn(c, "chat") BY <1>1, <1>2, <1>8 DEF BlocksEach
  <1>13. BlocksOfRoles(roles, cs) = FlatMap(blocksOf, mine) BY <1>2, <1>6 DEF BlocksOfRoles, AllBlocks
  <1> QED BY <1>10, <1>11, <1>12, <1>13

\* A call that was made is among the blocks,
LEMMA CallsAreBlocks ==
  ASSUME NEW cs \in Seq(ChatMessages), NEW roles \in Scopes, NEW id \in CallsMade(cs)
  PROVE  Block("call", id) \in ToSet(BlocksOfRoles(roles, cs))
  <1>1. PICK c \in ToSet(cs) : id \in ToSet(c.calls) BY DEF CallsMade
  <1>2. c \in ChatMessages BY <1>1 DEF ToSet
  <1>3. /\ c.calls \in Seq(Nat) /\ c.role \in {"system", "user", "assistant", "tool"}
        /\ c.role = "system" => c.calls = <<>>
        /\ c.role = "tool" => c.calls = <<>>
    BY <1>2 DEF ChatMessages
  <1>4. c.role # "system" /\ c.role # "tool"
    <2>1. ToSet(<<>>) = {} BY DEF ToSet
    <2> QED BY <1>1, <1>3, <2>1
  <1>5. c.role \in roles BY <1>3, <1>4 DEF Scopes, Roles
  <1>6. PICK parts \in Seq(BlockSet(Kinds)), bs \in Seq(BlockSet(Kinds)) :
          parts = c.parts /\ bs = CallBlocks(c.calls)
    BY <1>2, ChatBlocks
  <1>7. BlocksIn(c, "chat") = Joint(parts, bs) BY <1>2, <1>4, <1>6, ChatBlocks
  <1>8. ToSet(Joint(parts, bs)) = ToSet(parts) \union ToSet(bs) BY JointItems
  <1>9. Block("call", id) \in ToSet(bs)
    <2>1. PICK i \in DOMAIN c.calls : id = c.calls[i] BY <1>1 DEF ToSet
    <2>2. DOMAIN bs = DOMAIN c.calls /\ bs[i] = Block("call", id) BY <1>6, <2>1 DEF CallBlocks
    <2> QED BY <2>1, <2>2 DEF ToSet
  <1>10. Block("call", id) \in ToSet(BlocksIn(c, "chat")) BY <1>7, <1>8, <1>9
  <1> QED BY <1>1, <1>5, <1>10, BlocksOfRolesItems

\* and a result there is some message's answer.
LEMMA ResultsAreAnswers ==
  ASSUME NEW cs \in Seq(ChatMessages), NEW roles, NEW b \in ToSet(BlocksOfRoles(roles, cs)),
         b.kind = "result"
  PROVE  \E c \in ToSet(cs) : c.role = "tool" /\ b = Block("result", c.answers)
  <1>1. PICK c \in ToSet(cs) : b \in ToSet(BlocksIn(c, "chat")) BY BlocksOfRolesItems
  <1>2. c \in ChatMessages BY <1>1 DEF ToSet
  <1>3. CASE c.role = "tool"
    <2>1. BlocksIn(c, "chat") = <<Block("result", c.answers)>> BY <1>2, <1>3, ChatBlocks
    <2>2. ToSet(<<Block("result", c.answers)>>) = {Block("result", c.answers)} BY DEF ToSet
    <2> QED BY <1>1, <1>3, <2>1, <2>2
  <1>4. CASE c.role # "tool"
    <2>1. PICK parts \in Seq(BlockSet(Kinds)), bs \in Seq(BlockSet(Kinds)) :
            parts = c.parts /\ bs = CallBlocks(c.calls)
      BY <1>2, ChatBlocks
    <2>2. BlocksIn(c, "chat") = Joint(parts, bs) BY <1>2, <1>4, <2>1, ChatBlocks
    <2>3. b \in ToSet(parts) \/ b \in ToSet(bs)
      <3>1. ToSet(Joint(parts, bs)) = ToSet(parts) \union ToSet(bs) BY JointItems
      <3> QED BY <1>1, <2>2, <3>1
    <2>4. parts \in Seq(BlockSet(Says)) BY <1>2, <2>1 DEF ChatMessages
    <2>5. bs \in Seq(BlockSet({"call"}))
      <3>1. c.calls \in Seq(Nat) BY <1>2 DEF ChatMessages
      <3> QED BY <2>1, <3>1, CallBlocksIs
    <2>6. ToSet(parts) \subseteq BlockSet(Says) /\ ToSet(bs) \subseteq BlockSet({"call"})
      BY <2>4, <2>5 DEF ToSet
    <2>7. b.kind # "result" BY <2>3, <2>6 DEF BlockSet, Says
    <2> QED BY <2>7
  <1> QED BY <1>3, <1>4

\* Answers to calls made are followed.
LEMMA FollowedOn ==
  ASSUME NEW cs \in Seq(ChatMessages), NEW xs \in Seq(ChatMessages), NEW roles \in Scopes,
         Followed(BlocksOfRoles(roles, cs)),
         \A c \in ToSet(xs) : c.role = "tool" => c.answers \in CallsMade(cs)
  PROVE  Followed(BlocksOfRoles(roles, Joint(cs, xs)))
  <1>1. PICK s, t : s = BlocksOfRoles(roles, cs) /\ t = BlocksOfRoles(roles, xs) OBVIOUS
  <1>2. /\ s \in Seq(BlockSet(Kinds)) /\ t \in Seq(BlockSet(Kinds))
        /\ BlocksOfRoles(roles, Joint(cs, xs)) = Joint(s, t)
    BY <1>1, BlocksOfRolesJoint
  <1>3. ASSUME NEW b \in ToSet(t), b.kind = "result"
        PROVE  \E c \in ToSet(s) : c.kind = "call" /\ c.ids = b.ids
    <2>1. PICK c \in ToSet(xs) : c.role = "tool" /\ b = Block("result", c.answers)
      BY <1>1, <1>3, ResultsAreAnswers
    <2>2. Block("call", c.answers) \in ToSet(s) BY <1>1, <2>1, CallsAreBlocks
    <2> QED BY <2>1, <2>2 DEF Block
  <1>4. Followed(s) BY <1>1
  <1> QED BY <1>2, <1>3, <1>4, FollowedAfter

\* Calls are made before or after.
LEMMA CallsMadeJoint ==
  ASSUME NEW cs \in Seq(ChatMessages), NEW xs \in Seq(ChatMessages)
  PROVE  CallsMade(Joint(cs, xs)) = CallsMade(cs) \union CallsMade(xs)
  <1>1. ToSet(Joint(cs, xs)) = ToSet(cs) \union ToSet(xs) BY JointItems
  <1> QED BY <1>1 DEF CallsMade

\* Blocks sorted out: all of them, none, those of each part.
LEMMA BlocksOfAll ==
  ASSUME NEW kinds \in SUBSET Kinds, NEW bs \in Seq(BlockSet(kinds))
  PROVE  BlocksOf(kinds, bs) = bs
  <1>1. bs \in Seq(BlockSet(Kinds)) BY BlocksAreBlocks
  <1>2. BlocksOf(kinds, bs) = FlatMap(IfOf(kinds), bs) BY <1>1, BlocksOfIs
  <1>3. PICK self : self = [b \in BlockSet(kinds) |-> <<b>>] OBVIOUS
  <1>4. self \in [BlockSet(kinds) -> Seq(BlockSet(kinds))] /\ \A b \in BlockSet(kinds) : self[b] = <<b>>
    BY <1>3
  <1>5. \A b \in BlockSet(kinds) : IfOf(kinds)[b] = self[b] BY <1>3 DEF IfOf, BlockSet
  <1>6. FlatMap(IfOf(kinds), bs) = FlatMap(self, bs) BY <1>5, FlatMapSame
  <1>7. FlatMap(self, bs) = bs BY <1>4, FlatMapSelf
  <1> QED BY <1>2, <1>6, <1>7

\* Blocks of other kinds only.
LEMMA BlocksOfOther ==
  ASSUME NEW kinds \in SUBSET Kinds, NEW bs \in Seq(BlockSet(kinds)),
         NEW others \in SUBSET Kinds, others \cap kinds = {}
  PROVE  BlocksOf(others, bs) = <<>>
  <1>1. bs \in Seq(BlockSet(Kinds)) BY BlocksAreBlocks
  <1>2. BlocksOf(others, bs) = FlatMap(IfOf(others), bs) BY <1>1, BlocksOfIs
  <1>3. \A b \in BlockSet(kinds) : IfOf(others)[b] = <<>> BY DEF IfOf, BlockSet
  <1> QED BY <1>2, <1>3, FlatMapEmpty

\* Blocks of two parts.
LEMMA BlocksOfJoint ==
  ASSUME NEW kinds \in SUBSET Kinds, NEW s \in Seq(BlockSet(Kinds)), NEW t \in Seq(BlockSet(Kinds))
  PROVE  BlocksOf(kinds, Joint(s, t)) = Joint(BlocksOf(kinds, s), BlocksOf(kinds, t))
  <1>1. PICK u \in Seq(BlockSet(Kinds)) : u = Joint(s, t)
    <2>1. Joint(s, t) \in Seq(BlockSet(Kinds)) BY JointIs
    <2> QED BY <2>1
  <1>2. IfOf(kinds) \in [BlockSet(Kinds) -> Seq(BlockSet(Kinds))] BY <1>1, BlocksOfIs
  <1>3. FlatMapAdds(IfOf(kinds), BlockSet(Kinds), BlockSet(Kinds)) BY <1>2, FlatMapIs
  <1>4. FlatMap(IfOf(kinds), Joint(s, t)) = Joint(FlatMap(IfOf(kinds), s), FlatMap(IfOf(kinds), t))
    BY <1>3 DEF FlatMapAdds
  <1>5. /\ BlocksOf(kinds, u) = FlatMap(IfOf(kinds), u)
        /\ BlocksOf(kinds, s) = FlatMap(IfOf(kinds), s)
        /\ BlocksOf(kinds, t) = FlatMap(IfOf(kinds), t)
    BY BlocksOfIs
  <1> QED BY <1>1, <1>4, <1>5

-----------------------------------------------------------------------------
(* Results right after their calls.                                         *)

\* The last message's calls, of those that the client has to answer.
Adjacent(cs, open) ==
  /\ ResultsAdjacent(cs)
  /\ \/ cs = <<>> /\ open = <<>>
     \/ cs # <<>> /\ cs[Len(cs)].calls = open

\* Another message, when no call waits for its result.
LEMMA AdjacentOne ==
  ASSUME NEW cs \in Seq(ChatMessages), NEW c \in ChatMessages, Adjacent(cs, <<>>)
  PROVE  Adjacent(Joint(cs, <<c>>), c.calls)
  <1>1. PICK n \in Nat : n = Len(cs) OBVIOUS
  <1>2. PICK t : t = <<c>> OBVIOUS
  <1>3. t \in Seq(ChatMessages) /\ Len(t) = 1 /\ t[1] = c BY <1>2
  <1>4. PICK u : u = Joint(cs, t) OBVIOUS
  <1>5. u \in Seq(ChatMessages) /\ Len(u) = n + 1 /\ (\A i \in 1..n : u[i] = cs[i]) /\ u[n + 1] = c
    <2>1. IsJoint(u, cs, t, ChatMessages) BY <1>3, <1>4, JointAt
    <2>2. 1 \in 1..1 OBVIOUS
    <2> QED BY <1>1, <1>3, <2>1, <2>2 DEF IsJoint
  <1>6. ASSUME NEW i \in 1..n, NEW k \in 1..2, k <= Len(u[i].calls)
        PROVE  i + k <= n + 1 /\ u[i + k].answers = u[i].calls[k]
    <2>1. u[i] = cs[i] BY <1>5
    <2>2. i # n
      <3>1. SUFFICES ASSUME i = n PROVE FALSE OBVIOUS
      <3>2. cs # <<>> BY <1>1, <3>1
      <3>3. cs[i].calls = <<>> BY <1>1, <3>1, <3>2 DEF Adjacent
      <3>4. Len(u[i].calls) = 0 BY <2>1, <3>3
      <3> QED BY <1>6, <3>4
    <2>3. i \in 1..(n - 1) BY <2>2
    <2>4. i + k <= n /\ cs[i + k].answers = cs[i].calls[k]
      BY <1>1, <1>6, <2>1, <2>3 DEF Adjacent, ResultsAdjacent
    <2>5. i + k \in 1..n BY <2>4
    <2> QED BY <1>5, <2>1, <2>4, <2>5
  <1>7. ResultsAdjacent(u)
    <2>1. Len(u) - 1 = n BY <1>5
    <2> QED BY <1>5, <1>6, <2>1 DEF ResultsAdjacent
  <1>8. u # <<>> /\ u[Len(u)].calls = c.calls BY <1>5
  <1> QED BY <1>2, <1>4, <1>7, <1>8 DEF Adjacent

\* The results of the calls that wait.
LEMMA AdjacentAnswers ==
  ASSUME NEW cs \in Seq(ChatMessages), NEW ids \in Seq(Nat), Adjacent(cs, ids)
  PROVE  Adjacent(Joint(cs, Mapped(ToolOf, ids)), <<>>)
  <1>1. PICK n \in Nat, m \in Nat : n = Len(cs) /\ m = Len(ids) OBVIOUS
  <1>2. PICK t : t = Mapped(ToolOf, ids) OBVIOUS
  <1>3. /\ t \in Seq(ChatMessages) /\ Len(t) = m
        /\ \A k \in 1..m : t[k].answers = ids[k] /\ t[k].calls = <<>>
    <2>1. IsMapped(t, ToolOf, ids, ChatMessages) /\ t \in Seq(ChatMessages) BY <1>2, ToolOfIs
    <2>2. \A k \in 1..m : ids[k] \in Nat /\ t[k] = ToolOf[ids[k]] BY <1>1, <2>1 DEF IsMapped
    <2>3. \A k \in 1..m : t[k] = ToolMessage(ids[k]) BY <2>2 DEF ToolOf
    <2>4. \A k \in 1..m : t[k].answers = ids[k] /\ t[k].calls = <<>>
      <3> SUFFICES ASSUME NEW k \in 1..m PROVE t[k].answers = ids[k] /\ t[k].calls = <<>>
        OBVIOUS
      <3>1. t[k] = ToolMessage(ids[k]) BY <2>3
      <3> QED BY <3>1 DEF ToolMessage
    <2>5. Len(t) = m BY <1>1, <2>1 DEF IsMapped
    <2> QED BY <2>1, <2>4, <2>5
  <1>4. PICK u : u = Joint(cs, t) OBVIOUS
  <1>5. /\ u \in Seq(ChatMessages) /\ Len(u) = n + m
        /\ \A i \in 1..n : u[i] = cs[i]
        /\ \A i \in 1..m : u[n + i] = t[i]
    <2>1. IsJoint(u, cs, t, ChatMessages) BY <1>3, <1>4, JointAt
    <2> QED BY <1>1, <1>3, <2>1 DEF IsJoint
  <1>6. ASSUME NEW i \in 1..(n + m - 1), NEW k \in 1..2, k <= Len(u[i].calls)
        PROVE  i + k <= n + m /\ u[i + k].answers = u[i].calls[k]
    <2>1. CASE i < n
      <3>1. i \in 1..(n - 1) /\ i \in 1..n BY <2>1
      <3>2. u[i] = cs[i] BY <1>5, <3>1
      <3>3. i + k <= n /\ cs[i + k].answers = cs[i].calls[k]
        BY <1>1, <1>6, <3>1, <3>2 DEF Adjacent, ResultsAdjacent
      <3>4. i + k \in 1..n BY <3>3
      <3> QED BY <1>5, <3>2, <3>3, <3>4
    <2>2. CASE i = n
      <3>1. u[i] = cs[i] /\ cs # <<>> BY <1>1, <1>5, <2>2
      <3>2. cs[i].calls = ids BY <1>1, <2>2, <3>1 DEF Adjacent
      <3>3. k \in 1..m BY <1>1, <1>6, <3>1, <3>2
      <3>4. u[n + k] = t[k] /\ t[k].answers = ids[k] BY <1>3, <1>5, <3>3
      <3> QED BY <2>2, <3>1, <3>2, <3>3, <3>4
    <2>3. CASE i > n
      <3>1. PICK l \in 1..m : i = n + l
        <4>1. i - n \in 1..m /\ i = n + (i - n) BY <2>3
        <4> QED BY <4>1
      <3>2. u[i].calls = <<>> BY <1>3, <1>5, <3>1
      <3>3. Len(u[i].calls) = 0 BY <3>2
      <3> QED BY <1>6, <3>3
    <2> QED BY <2>1, <2>2, <2>3
  <1>7. ResultsAdjacent(u)
    <2>1. Len(u) - 1 = n + m - 1 BY <1>5
    <2> QED BY <1>5, <1>6, <2>1 DEF ResultsAdjacent
  <1>8. \/ u = <<>>
        \/ u # <<>> /\ u[Len(u)].calls = <<>>
    <2>1. CASE m = 0
      <3>1. ids = <<>>
        <4>1. Len(ids) = 0 BY <1>1, <2>1
        <4> QED BY <4>1
      <3>2. CASE n = 0
        <4>1. Len(u) = 0 BY <1>5, <2>1, <3>2
        <4> QED BY <1>5, <4>1
      <3>3. CASE n # 0
        <4>1. cs # <<>> /\ n \in 1..n /\ Len(u) = n BY <1>1, <1>5, <2>1, <3>3
        <4>2. cs[n].calls = <<>> BY <1>1, <3>1, <4>1 DEF Adjacent
        <4>3. u[n] = cs[n] BY <1>5, <4>1
        <4> QED BY <3>3, <4>1, <4>2, <4>3
      <3> QED BY <3>2, <3>3
    <2>2. CASE m # 0
      <3>1. m \in 1..m /\ n + m # 0 BY <2>2
      <3>2. u[n + m].calls = <<>> BY <1>3, <1>5, <3>1
      <3> QED BY <1>5, <3>1, <3>2
    <2> QED BY <2>1, <2>2
  <1> QED BY <1>2, <1>4, <1>7, <1>8 DEF Adjacent

-----------------------------------------------------------------------------
(* The dialogue as a chat, and what a step adds to it.                      *)

ChatsOf(api, ms) == CASE api = "anthropic" -> ChatFromAnthropic(ms)
                      [] api = "chat" -> ms
                      [] api = "responses" -> ChatFromItems(ms)

ChatsAdd(api) ==
  \A ms, xs \in Seq(MessagesOf(api)) :
    /\ Joint(ms, xs) \in Seq(MessagesOf(api))
    /\ ChatsOf(api, ms) \in Seq(ChatMessages) /\ ChatsOf(api, xs) \in Seq(ChatMessages)
    /\ ChatsOf(api, Joint(ms, xs)) = Joint(ChatsOf(api, ms), ChatsOf(api, xs))

\* A dialogue that goes on is converted part by part.
LEMMA ChatsOfJoint ==
  ASSUME NEW api \in {"anthropic", "chat", "responses"}
  PROVE  ChatsAdd(api)
  <1> SUFFICES ASSUME NEW ms \in Seq(MessagesOf(api)), NEW xs \in Seq(MessagesOf(api))
               PROVE  /\ Joint(ms, xs) \in Seq(MessagesOf(api))
                      /\ ChatsOf(api, ms) \in Seq(ChatMessages) /\ ChatsOf(api, xs) \in Seq(ChatMessages)
                      /\ ChatsOf(api, Joint(ms, xs)) = Joint(ChatsOf(api, ms), ChatsOf(api, xs))
    BY DEF ChatsAdd
  <1>1. PICK u \in Seq(MessagesOf(api)) : u = Joint(ms, xs)
    <2>1. Joint(ms, xs) \in Seq(MessagesOf(api)) BY JointIs
    <2> QED BY <2>1
  <1>2. CASE api = "anthropic"
    <2>1. MessagesOf(api) = AnthropicMessages BY <1>2 DEF MessagesOf
    <2>2. ASSUME NEW s \in Seq(AnthropicMessages)
          PROVE  ChatsOf(api, s) = FlatMap(ChatEach, s) /\ ChatsOf(api, s) \in Seq(ChatMessages)
      BY <1>2, ChatFromAnthropicIs DEF ChatsOf
    <2>3. ChatEach \in [AnthropicMessages -> Seq(ChatMessages)] BY <1>1, <2>1, ChatFromAnthropicIs
    <2>4. FlatMapAdds(ChatEach, AnthropicMessages, ChatMessages) BY <2>3, FlatMapIs
    <2>5. FlatMap(ChatEach, Joint(ms, xs)) = Joint(FlatMap(ChatEach, ms), FlatMap(ChatEach, xs))
      BY <2>1, <2>4 DEF FlatMapAdds
    <2> QED BY <1>1, <2>1, <2>2, <2>5
  <1>3. CASE api = "chat"
    <2>1. MessagesOf(api) = ChatMessages BY <1>3 DEF MessagesOf
    <2>2. \A s : ChatsOf(api, s) = s BY <1>3 DEF ChatsOf
    <2> QED BY <1>1, <2>1, <2>2
  <1>4. CASE api = "responses"
    <2>1. MessagesOf(api) = Items BY <1>4 DEF MessagesOf
    <2>2. ASSUME NEW s \in Seq(Items)
          PROVE  ChatsOf(api, s) = Mapped(ItemEach, s) /\ ChatsOf(api, s) \in Seq(ChatMessages)
      BY <1>4, ChatFromItemsIs DEF ChatsOf
    <2>3. ItemEach \in [Items -> ChatMessages] BY <1>1, <2>1, ChatFromItemsIs
    <2>4. MapAdds(ItemEach, Items, ChatMessages) BY <2>3, MappedJoined
    <2>5. Mapped(ItemEach, Joint(ms, xs)) = Joint(Mapped(ItemEach, ms), Mapped(ItemEach, xs))
      BY <2>1, <2>4 DEF MapAdds
    <2> QED BY <1>1, <2>1, <2>2, <2>5
  <1> QED BY <1>2, <1>3, <1>4

\* An Anthropic message of texts and images, of results too, or of an answer.
LEMMA ChatOfPlain ==
  ASSUME NEW role \in {"system", "user", "assistant"}, NEW said \in Seq(BlockSet(Says)), said # <<>>
  PROVE  /\ AnthropicMessage(role, said) \in AnthropicMessages
         /\ ChatMessage(role, said, <<>>) \in ChatMessages
         /\ ChatOf(AnthropicMessage(role, said)) = <<ChatMessage(role, said, <<>>)>>
  <1>1. Says \in SUBSET Kinds /\ "call" \in Kinds /\ "result" \in Kinds
        /\ "call" \notin Says /\ "result" \notin Says
    BY DEF Says, Kinds
  <1>2. said \in Seq(BlockSet(Kinds)) BY <1>1, BlocksAreBlocks
  <1>3. PICK m : m = AnthropicMessage(role, said) OBVIOUS
  <1>4. m.role = role /\ m.blocks = said BY <1>3 DEF AnthropicMessage
  <1>5. m \in AnthropicMessages BY <1>2, <1>3, <1>4 DEF AnthropicMessage, AnthropicMessages
  <1>6. PartsOf(m) = said BY <1>1, <1>4, BlocksOfAll DEF PartsOf
  <1>7. IdsOf("call", m.blocks) = <<>> /\ IdsOf("result", m.blocks) = <<>>
    BY <1>1, <1>4, IdsOfOther
  <1>8. PICK c : c = ChatMessage(role, said, <<>>) OBVIOUS
  <1>9. c \in ChatMessages /\ SaidFirst(m) = <<c>> BY <1>4, <1>5, <1>6, <1>7, <1>8, ChatOfIs
  <1>10. Mapped(ToolOf, <<>>) = <<>> BY DEF Mapped
  <1>11. ChatOf(m) = Joint(<<c>>, <<>>) BY <1>5, <1>7, <1>9, <1>10, ChatOfIs
  <1>12. Joint(<<c>>, <<>>) = <<c>>
    <2>1. <<c>> \in Seq({c}) /\ <<>> \in Seq({c}) OBVIOUS
    <2>2. PICK s \in Seq({c}), none \in Seq({c}) : s = <<c>> /\ none = <<>> BY <2>1
    <2>3. Joint(s, <<>>) = s BY <2>2, JointIs
    <2> QED BY <2>2, <2>3
  <1> QED BY <1>3, <1>5, <1>8, <1>9, <1>11, <1>12

\* What is said besides, if anything.
More(said) == IF said = <<>> THEN <<>> ELSE <<ChatMessage("user", said, <<>>)>>

\* It is of the user and calls nothing.
LEMMA MoreIs ==
  ASSUME NEW said \in Seq(BlockSet(Says))
  PROVE  More(said) \in Seq(ChatMessages) /\ \A c \in ToSet(More(said)) : c.role = "user" /\ c.calls = <<>>
  <1>1. PICK c : c = ChatMessage("user", said, <<>>) OBVIOUS
  <1>2. c \in ChatMessages BY <1>1 DEF ChatMessage, ChatMessages
  <1>3. ToSet(<<>>) = {} /\ ToSet(<<c>>) = {c} BY DEF ToSet
  <1>4. c.role = "user" /\ c.calls = <<>> BY <1>1 DEF ChatMessage
  <1>5. CASE said = <<>>
    <2>1. More(said) = <<>> BY <1>5 DEF More
    <2> QED BY <1>3, <2>1
  <1>6. CASE said # <<>>
    <2>1. More(said) = <<c>> BY <1>1, <1>6 DEF More
    <2>2. <<c>> \in Seq(ChatMessages) BY <1>2
    <2> QED BY <1>3, <1>4, <2>1, <2>2
  <1> QED BY <1>5, <1>6

\* Results and more in one Anthropic message: the more comes first.
LEMMA ChatOfResults ==
  ASSUME NEW ids \in Seq(Nat), NEW more \in Seq(BlockSet(Says)), NEW bs,
         bs = Joint(Mapped(BlockFor("result"), ids), more)
  PROVE  /\ AnthropicMessage("user", bs) \in AnthropicMessages
         /\ ChatOf(AnthropicMessage("user", bs)) = Joint(More(more), Mapped(ToolOf, ids))
  <1>1. /\ Says \in SUBSET Kinds /\ {"result"} \in SUBSET Kinds /\ {"call"} \in SUBSET Kinds
        /\ "result" \in Kinds /\ "call" \in Kinds /\ "call" \notin Says /\ "result" \notin Says
        /\ Says \cap {"result"} = {} /\ "call" \notin {"result"}
    BY DEF Says, Kinds
  <1>2. PICK rs : rs = Mapped(BlockFor("result"), ids) OBVIOUS
  <1>3. /\ rs \in Seq(BlockSet({"result"})) /\ rs \in Seq(BlockSet(Kinds))
        /\ IdsOf("result", rs) = ids
    BY <1>1, <1>2, BlocksForIs
  <1>4. more \in Seq(BlockSet(Kinds)) BY <1>1, BlocksAreBlocks
  <1>5. bs \in Seq(BlockSet(Kinds)) BY <1>2, <1>3, <1>4, JointIs
  <1>6. PICK m : m = AnthropicMessage("user", bs) OBVIOUS
  <1>7. m.role = "user" /\ m.blocks = bs BY <1>6 DEF AnthropicMessage
  <1>8. m \in AnthropicMessages BY <1>5, <1>6, <1>7 DEF AnthropicMessage, AnthropicMessages
  <1>9. <<>> \in Seq(BlockSet(Says)) /\ <<>> \in Seq(Nat) OBVIOUS
  <1>10. PartsOf(m) = more
    <2>1. BlocksOf(Says, rs) = <<>> BY <1>1, <1>3, BlocksOfOther
    <2>2. BlocksOf(Says, more) = more BY <1>1, BlocksOfAll
    <2>3. BlocksOf(Says, Joint(rs, more)) = Joint(BlocksOf(Says, rs), BlocksOf(Says, more))
      BY <1>1, <1>3, <1>4, BlocksOfJoint
    <2>4. Joint(<<>>, more) = more BY <1>9, JointIs
    <2> QED BY <1>2, <1>7, <2>1, <2>2, <2>3, <2>4 DEF PartsOf
  <1>11. IdsOf("result", m.blocks) = ids
    <2>1. IdsOf("result", more) = <<>> BY <1>1, IdsOfOther
    <2>2. IdsOf("result", Joint(rs, more)) = Joint(IdsOf("result", rs), IdsOf("result", more))
      BY <1>1, <1>3, <1>4, IdsOfJoint
    <2>3. Joint(ids, <<>>) = ids BY <1>9, JointIs
    <2> QED BY <1>2, <1>3, <1>7, <2>1, <2>2, <2>3
  <1>12. IdsOf("call", m.blocks) = <<>>
    <2>1. IdsOf("call", more) = <<>> BY <1>1, IdsOfOther
    <2>2. IdsOf("call", rs) = <<>> BY <1>1, <1>3, IdsOfOther
    <2>3. IdsOf("call", Joint(rs, more)) = Joint(IdsOf("call", rs), IdsOf("call", more))
      BY <1>1, <1>3, <1>4, IdsOfJoint
    <2>4. Joint(<<>>, <<>>) = <<>> BY <1>9, JointIs
    <2> QED BY <1>2, <1>7, <2>1, <2>2, <2>3, <2>4
  <1>13. SaidFirst(m) = More(more)
    BY <1>7, <1>10, <1>12 DEF SaidFirst, More
  <1>14. ChatOf(m) = Joint(SaidFirst(m), Mapped(ToolOf, ids)) BY <1>8, <1>11, ChatOfIs
  <1> QED BY <1>6, <1>8, <1>13, <1>14

Apis == {"anthropic", "chat", "responses"}

\* One item, one message.
LEMMA OneItem ==
  ASSUME NEW m
  PROVE  ChatFromItems(<<m>>) = <<ChatOfItem(m)>> /\ ChatFromItems(<<>>) = <<>>
  BY DEF ChatFromItems

\* One Anthropic message.
LEMMA OneAnthropic ==
  ASSUME NEW m \in AnthropicMessages
  PROVE  ChatFromAnthropic(<<m>>) = ChatOf(m)
  <1>1. PICK ms \in Seq(AnthropicMessages) : ms = <<m>>
    <2>1. <<m>> \in Seq(AnthropicMessages) OBVIOUS
    <2> QED BY <2>1
  <1>2. ChatFromAnthropic(ms) = FlatMap(ChatEach, ms) /\ ChatEach \in [AnthropicMessages -> Seq(ChatMessages)]
    BY ChatFromAnthropicIs
  <1>3. FlatMap(ChatEach, <<m>>) = ChatEach[m] BY <1>2, FlatMapOne
  <1> QED BY <1>1, <1>2, <1>3 DEF ChatEach

\* A message of the client's own.
LEMMA OwnIs ==
  ASSUME clientApi \in Apis, NEW role \in {"system", "user", "assistant"},
         NEW said \in Seq(BlockSet(Says)), said # <<>>
  PROVE  /\ OwnMessage(role, said) \in Seq(MessagesOf(clientApi))
         /\ ChatMessage(role, said, <<>>) \in ChatMessages
         /\ ChatsOf(clientApi, OwnMessage(role, said)) = <<ChatMessage(role, said, <<>>)>>
  <1>1. PICK c \in ChatMessages : c = ChatMessage(role, said, <<>>) BY ChatOfPlain
  <1>2. CASE clientApi = "anthropic"
    <2>1. PICK m \in AnthropicMessages : m = AnthropicMessage(role, said) BY ChatOfPlain
    <2>2. OwnMessage(role, said) = <<m>> BY <1>2, <2>1 DEF OwnMessage
    <2>3. ChatOf(m) = <<c>> BY <1>1, <2>1, ChatOfPlain
    <2>4. ChatFromAnthropic(<<m>>) = <<c>> BY <2>3, OneAnthropic
    <2>5. MessagesOf(clientApi) = AnthropicMessages /\ \A s : ChatsOf(clientApi, s) = ChatFromAnthropic(s)
      BY <1>2 DEF MessagesOf, ChatsOf
    <2> QED BY <1>1, <2>2, <2>4, <2>5
  <1>3. CASE clientApi = "chat"
    <2>1. OwnMessage(role, said) = <<c>> BY <1>1, <1>3 DEF OwnMessage
    <2>2. MessagesOf(clientApi) = ChatMessages /\ \A s : ChatsOf(clientApi, s) = s
      BY <1>3 DEF MessagesOf, ChatsOf
    <2> QED BY <1>1, <2>1, <2>2
  <1>4. CASE clientApi = "responses"
    <2>1. PICK m : m = MessageItem(role, said) OBVIOUS
    <2>2. m \in Items BY <2>1 DEF MessageItem, Items
    <2>3. ChatOfItem(m) = c BY <1>1, <2>1 DEF ChatOfItem, MessageItem
    <2>4. OwnMessage(role, said) = <<m>> BY <1>4, <2>1 DEF OwnMessage
    <2>5. MessagesOf(clientApi) = Items /\ \A s : ChatsOf(clientApi, s) = ChatFromItems(s)
      BY <1>4 DEF MessagesOf, ChatsOf
    <2>6. ChatFromItems(<<m>>) = <<c>> BY <2>3, OneItem
    <2> QED BY <1>1, <2>2, <2>4, <2>5, <2>6
  <1> QED BY <1>2, <1>3, <1>4 DEF Apis

\* What the client says after its results, if anything.
LEMMA MoreOwnIs ==
  ASSUME clientApi \in Apis, NEW more \in Seq(BlockSet(Says)),
         NEW own, own = IF more = <<>> THEN <<>> ELSE OwnMessage("user", more)
  PROVE  own \in Seq(MessagesOf(clientApi)) /\ ChatsOf(clientApi, own) = More(more)
  <1>1. CASE more = <<>>
    <2>1. own = <<>> /\ More(more) = <<>> BY <1>1 DEF More
    <2>2. ChatsOf(clientApi, <<>>) = <<>>
      <3>1. ChatFromAnthropic(<<>>) = <<>>
        <4>1. PICK none \in Seq(AnthropicMessages) : none = <<>>
          <5>1. <<>> \in Seq(AnthropicMessages) OBVIOUS
          <5> QED BY <5>1
        <4>2. ChatFromAnthropic(none) = FlatMap(ChatEach, none) BY ChatFromAnthropicIs
        <4> QED BY <4>1, <4>2, FlatMapNone
      <3>2. ChatFromItems(<<>>) = <<>> BY OneItem
      <3> QED BY <3>1, <3>2 DEF ChatsOf, Apis
    <2>3. <<>> \in Seq(MessagesOf(clientApi)) OBVIOUS
    <2> QED BY <2>1, <2>2, <2>3
  <1>2. CASE more # <<>>
    <2>1. own = OwnMessage("user", more) /\ More(more) = <<ChatMessage("user", more, <<>>)>>
      BY <1>2 DEF More
    <2> QED BY <1>2, <2>1, OwnIs
  <1> QED BY <1>1, <1>2

\* The results of calls.
LEMMA ResultsAre ==
  ASSUME clientApi \in Apis, NEW ids \in Seq(Nat), NEW more \in Seq(BlockSet(Says))
  PROVE  /\ ResultMessages(ids, more) \in Seq(MessagesOf(clientApi))
         /\ ChatsOf(clientApi, ResultMessages(ids, more))
              = IF clientApi = "anthropic" THEN Joint(More(more), Mapped(ToolOf, ids))
                ELSE Joint(Mapped(ToolOf, ids), More(more))
  <1>1. PICK own : own = IF more = <<>> THEN <<>> ELSE OwnMessage("user", more) OBVIOUS
  <1>2. own \in Seq(MessagesOf(clientApi)) /\ ChatsOf(clientApi, own) = More(more)
    BY <1>1, MoreOwnIs
  <1>3. ChatsAdd(clientApi) BY ChatsOfJoint DEF Apis
  <1>4. \A i \in DOMAIN ids : ids[i] \in Nat OBVIOUS
  <1>5. CASE clientApi = "anthropic"
    <2>1. "result" \in Kinds BY DEF Kinds
    <2>2. PICK bs : bs = Joint(Mapped(BlockFor("result"), ids), more) OBVIOUS
    <2>3. [i \in DOMAIN ids |-> Block("result", ids[i])] = Mapped(BlockFor("result"), ids)
      BY <2>1, BlocksForIs
    <2>4. PICK m \in AnthropicMessages : m = AnthropicMessage("user", bs) BY <2>2, ChatOfResults
    <2>5. ResultMessages(ids, more) = <<m>> BY <1>5, <2>2, <2>3, <2>4 DEF ResultMessages, Joint
    <2>6. ChatOf(m) = Joint(More(more), Mapped(ToolOf, ids)) BY <2>2, <2>4, ChatOfResults
    <2>7. ChatFromAnthropic(<<m>>) = ChatOf(m) BY OneAnthropic
    <2>8. MessagesOf(clientApi) = AnthropicMessages /\ \A s : ChatsOf(clientApi, s) = ChatFromAnthropic(s)
      BY <1>5 DEF MessagesOf, ChatsOf
    <2> QED BY <1>5, <2>5, <2>6, <2>7, <2>8
  <1>6. CASE clientApi = "chat"
    <2>1. MessagesOf(clientApi) = ChatMessages /\ \A s : ChatsOf(clientApi, s) = s
      BY <1>6 DEF MessagesOf, ChatsOf
    <2>2. PICK tools \in Seq(ChatMessages) : tools = Mapped(ToolOf, ids) BY ToolOfIs
    <2>3. [i \in DOMAIN ids |-> ToolMessage(ids[i])] = tools BY <2>2, ToolOfIs
    <2>4. ResultMessages(ids, more) = Joint(tools, own)
      BY <1>1, <1>6, <2>3 DEF ResultMessages, Joint
    <2>5. own = More(more) BY <1>2, <2>1
    <2>6. Joint(tools, own) \in Seq(ChatMessages) BY <1>2, <2>1, JointIs
    <2> QED BY <1>6, <2>1, <2>2, <2>4, <2>5, <2>6
  <1>7. CASE clientApi = "responses"
    <2>1. MessagesOf(clientApi) = Items /\ \A s : ChatsOf(clientApi, s) = ChatFromItems(s)
      BY <1>7 DEF MessagesOf, ChatsOf
    <2>2. PICK outs : outs = [i \in DOMAIN ids |-> CallItem("function_call_output", ids[i])] OBVIOUS
    <2>3. PICK item : item = [id \in Nat |-> CallItem("function_call_output", id)] OBVIOUS
    <2>4. item \in [Nat -> Items]
      <3>1. \A id \in Nat : CallItem("function_call_output", id) \in Items BY DEF CallItem, Items
      <3> QED BY <2>3, <3>1
    <2>5. outs = Mapped(item, ids) BY <1>4, <2>2, <2>3 DEF Mapped
    <2>6. outs \in Seq(Items)
      <3>1. IsMapped(Mapped(item, ids), item, ids, Items) BY <2>4, MappedAt
      <3> QED BY <2>5, <3>1 DEF IsMapped
    <2>7. ChatFromItems(outs) = Mapped(ToolOf, ids)
      <3>1. DOMAIN outs = DOMAIN ids BY <2>2
      <3>2. ASSUME NEW i \in DOMAIN ids PROVE ChatOfItem(outs[i]) = ToolOf[ids[i]]
        <4>1. outs[i] = CallItem("function_call_output", ids[i]) /\ ids[i] \in Nat BY <1>4, <2>2
        <4>2. outs[i].type = "function_call_output" /\ outs[i].call = ids[i] BY <4>1 DEF CallItem
        <4> QED BY <4>1, <4>2 DEF ChatOfItem, ToolOf
      <3> QED BY <3>1, <3>2 DEF ChatFromItems, Mapped
    <2>8. ResultMessages(ids, more) = Joint(outs, own)
      BY <1>1, <1>7, <2>2 DEF ResultMessages, Joint
    <2>9. /\ Joint(outs, own) \in Seq(MessagesOf(clientApi))
          /\ ChatsOf(clientApi, Joint(outs, own)) = Joint(ChatsOf(clientApi, outs), ChatsOf(clientApi, own))
      BY <1>2, <1>3, <2>1, <2>6 DEF ChatsAdd
    <2> QED BY <1>2, <1>7, <2>1, <2>7, <2>8, <2>9
  <1> QED BY <1>5, <1>6, <1>7 DEF Apis

\* An answer as it is kept.
AnswerBlocks == Seq(BlockSet({"text", "call"}))
CallChatOf == [id \in Nat |-> ChatMessage("assistant", <<>>, <<id>>)]
TextOf(texts) == IF texts = <<>> THEN <<>> ELSE <<ChatMessage("assistant", texts, <<>>)>>

\* The texts and the calls of an answer.
LEMMA AnswerIs ==
  ASSUME NEW bs \in AnswerBlocks
  PROVE  /\ bs \in Seq(BlockSet(Kinds))
         /\ BlocksOf({"text"}, bs) \in Seq(BlockSet(Says))
         /\ BlocksOf({"text"}, bs) \in Seq(BlockSet({"text"}))
         /\ BlocksOf({"call"}, bs) \in Seq(BlockSet({"call"}))
         /\ IdsOf("call", bs) \in Seq(Nat) /\ IdsOf("text", bs) \in Seq(Nat)
         /\ IdsOf("result", bs) = <<>>
  <1>1. /\ {"text", "call"} \in SUBSET Kinds /\ {"text"} \in SUBSET Kinds /\ {"call"} \in SUBSET Kinds
        /\ "call" \in Kinds /\ "text" \in Kinds /\ "result" \in Kinds
        /\ "result" \notin {"text", "call"}
    BY DEF Kinds
  <1>2. bs \in Seq(BlockSet({"text", "call"})) BY DEF AnswerBlocks
  <1>3. bs \in Seq(BlockSet(Kinds)) BY <1>1, <1>2, BlocksAreBlocks
  <1>4. PICK texts : texts = BlocksOf({"text"}, bs) OBVIOUS
  <1>5. texts \in Seq(BlockSet({"text"})) BY <1>1, <1>3, <1>4, BlocksOfIs
  <1>6. texts \in Seq(BlockSet(Says))
    <2>1. {"text"} \subseteq Says BY DEF Says
    <2> QED BY <1>5, <2>1, BlocksWiden
  <1>7. BlocksOf({"call"}, bs) \in Seq(BlockSet({"call"})) BY <1>1, <1>3, BlocksOfIs
  <1>8. IdsOf("call", bs) \in Seq(Nat) /\ IdsOf("text", bs) \in Seq(Nat) BY <1>1, <1>3, IdsOfIs
  <1>9. IdsOf("result", bs) = <<>> BY <1>1, <1>2, IdsOfOther
  <1> QED BY <1>3, <1>4, <1>5, <1>6, <1>7, <1>8, <1>9

CallItemOf == [id \in Nat |-> CallItem("function_call", id)]

\* Calls as items of their own.
LEMMA CallItemsAre ==
  ASSUME NEW ids \in Seq(Nat)
  PROVE  /\ [i \in DOMAIN ids |-> CallItem("function_call", ids[i])] = Mapped(CallItemOf, ids)
         /\ Mapped(CallItemOf, ids) \in Seq(Items)
         /\ ChatFromItems(Mapped(CallItemOf, ids)) = Mapped(CallChatOf, ids)
         /\ CallChatOf \in [Nat -> ChatMessages] /\ CallItemOf \in [Nat -> Items]
         /\ Mapped(CallChatOf, ids) \in Seq(ChatMessages)
  <1>1. \A i \in DOMAIN ids : ids[i] \in Nat OBVIOUS
  <1>2. PICK items : items = Mapped(CallItemOf, ids) OBVIOUS
  <1>3. [i \in DOMAIN ids |-> CallItem("function_call", ids[i])] = items
    BY <1>1, <1>2 DEF Mapped, CallItemOf
  <1>4. CallItemOf \in [Nat -> Items]
    <2>1. \A id \in Nat : CallItem("function_call", id) \in Items BY DEF CallItem, Items
    <2> QED BY <2>1 DEF CallItemOf
  <1>5. CallChatOf \in [Nat -> ChatMessages]
    <2>1. ASSUME NEW id \in Nat PROVE ChatMessage("assistant", <<>>, <<id>>) \in ChatMessages
      BY DEF ChatMessage, ChatMessages
    <2> QED BY <2>1 DEF CallChatOf
  <1>6. items \in Seq(Items)
    <2>1. IsMapped(items, CallItemOf, ids, Items) BY <1>2, <1>4, MappedAt
    <2> QED BY <2>1 DEF IsMapped
  <1>7. Mapped(CallChatOf, ids) \in Seq(ChatMessages)
    <2>1. IsMapped(Mapped(CallChatOf, ids), CallChatOf, ids, ChatMessages) BY <1>5, MappedAt
    <2> QED BY <2>1 DEF IsMapped
  <1>8. ChatFromItems(items) = Mapped(CallChatOf, ids)
    <2>1. DOMAIN items = DOMAIN ids BY <1>3
    <2>2. ASSUME NEW i \in DOMAIN ids PROVE ChatOfItem(items[i]) = CallChatOf[ids[i]]
      <3>1. items[i] = CallItem("function_call", ids[i]) /\ ids[i] \in Nat BY <1>1, <1>3
      <3>2. items[i].type = "function_call" /\ items[i].call = ids[i] BY <3>1 DEF CallItem
      <3> QED BY <3>1, <3>2 DEF ChatOfItem, CallChatOf
    <2> QED BY <2>1, <2>2 DEF ChatFromItems, Mapped
  <1> QED BY <1>2, <1>3, <1>4, <1>5, <1>6, <1>7, <1>8

\* The messages that an answer becomes, by protocol.
LEMMA KeptIs ==
  ASSUME clientApi \in Apis, NEW answer, answer.blocks \in AnswerBlocks,
         NEW texts, texts = BlocksOf({"text"}, answer.blocks),
         NEW calls, calls = IdsOf("call", answer.blocks)
  PROVE  /\ Kept(answer) \in Seq(MessagesOf(clientApi))
         /\ clientApi = "anthropic" =>
              \/ calls = <<>> /\ ChatsOf(clientApi, Kept(answer)) = <<>>
              \/ \E c \in ChatMessages : /\ ChatsOf(clientApi, Kept(answer)) = <<c>>
                                         /\ c.role = "assistant" /\ c.calls = calls
         /\ clientApi = "chat" =>
              \E c \in ChatMessages : /\ ChatsOf(clientApi, Kept(answer)) = <<c>>
                                      /\ c.role = "assistant" /\ c.calls = calls
         /\ clientApi = "responses" =>
              \E said \in Seq(Items) :
                /\ Kept(answer) = Joint(said, Mapped(CallItemOf, calls))
                /\ ChatsOf(clientApi, Kept(answer)) = Joint(TextOf(texts), Mapped(CallChatOf, calls))
  <1>1. /\ answer.blocks \in Seq(BlockSet(Kinds)) /\ texts \in Seq(BlockSet(Says))
        /\ calls \in Seq(Nat) /\ IdsOf("result", answer.blocks) = <<>>
    BY AnswerIs
  <1>2. calls = Originals(BlocksOf({"call"}, answer.blocks)) BY DEF IdsOf
  <1>3. CASE clientApi = "anthropic"
    <2>1. PICK m : m = AnthropicMessage("assistant", answer.blocks) OBVIOUS
    <2>2. m.role = "assistant" /\ m.blocks = answer.blocks BY <2>1 DEF AnthropicMessage
    <2>3. m \in AnthropicMessages
      BY <1>1, <2>1, <2>2 DEF AnthropicMessage, AnthropicMessages
    <2>4. Kept(answer) = <<m>> BY <1>3, <2>1 DEF Kept
    <2>5. Mapped(ToolOf, <<>>) = <<>> BY DEF Mapped
    <2>6. ChatOf(m) = Joint(SaidFirst(m), <<>>) /\ SaidFirst(m) \in Seq(ChatMessages)
      BY <1>1, <2>2, <2>3, <2>5, ChatOfIs
    <2>7. ChatOf(m) = SaidFirst(m)
      <3>1. <<>> \in Seq(ChatMessages) OBVIOUS
      <3> QED BY <2>6, <3>1, JointIs
    <2>8. MessagesOf(clientApi) = AnthropicMessages /\ \A s : ChatsOf(clientApi, s) = ChatFromAnthropic(s)
      BY <1>3 DEF MessagesOf, ChatsOf
    <2>9. ChatsOf(clientApi, Kept(answer)) = SaidFirst(m) BY <2>3, <2>4, <2>7, <2>8, OneAnthropic
    <2>10. CASE PartsOf(m) # <<>> \/ calls # <<>>
      <3>1. PICK c \in ChatMessages : c = ChatMessage("assistant", PartsOf(m), calls) /\ SaidFirst(m) = <<c>>
        BY <2>2, <2>3, <2>10, ChatOfIs
      <3>2. c.role = "assistant" /\ c.calls = calls BY <3>1 DEF ChatMessage
      <3> QED BY <1>3, <2>3, <2>4, <2>8, <2>9, <3>1, <3>2
    <2>11. CASE PartsOf(m) = <<>> /\ calls = <<>>
      <3>1. SaidFirst(m) = <<>> BY <2>2, <2>11 DEF SaidFirst
      <3> QED BY <1>3, <2>3, <2>4, <2>8, <2>9, <2>11, <3>1
    <2> QED BY <2>10, <2>11
  <1>4. CASE clientApi = "chat"
    <2>1. PICK c : c = ChatMessage("assistant", texts, calls) OBVIOUS
    <2>2. c.role = "assistant" /\ c.calls = calls BY <2>1 DEF ChatMessage
    <2>3. c \in ChatMessages BY <1>1, <2>1 DEF ChatMessage, ChatMessages
    <2>4. Kept(answer) = <<c>> BY <1>2, <1>4, <2>1 DEF Kept
    <2>5. MessagesOf(clientApi) = ChatMessages /\ \A s : ChatsOf(clientApi, s) = s
      BY <1>4 DEF MessagesOf, ChatsOf
    <2> QED BY <1>4, <2>2, <2>3, <2>4, <2>5
  <1>5. CASE clientApi = "responses"
    <2>1. MessagesOf(clientApi) = Items /\ \A s : ChatsOf(clientApi, s) = ChatFromItems(s)
      BY <1>5 DEF MessagesOf, ChatsOf
    <2>2. PICK said : said = IF texts = <<>> THEN <<>> ELSE <<MessageItem("assistant", texts)>> OBVIOUS
    <2>3. said \in Seq(Items) /\ ChatFromItems(said) = TextOf(texts)
      <3>1. CASE texts = <<>> BY <2>2, <3>1, OneItem DEF TextOf
      <3>2. CASE texts # <<>>
        <4>1. PICK m : m = MessageItem("assistant", texts) OBVIOUS
        <4>2. m \in Items BY <1>1, <4>1 DEF MessageItem, Items
        <4>3. ChatOfItem(m) = ChatMessage("assistant", texts, <<>>)
          BY <4>1 DEF ChatOfItem, MessageItem
        <4>4. said = <<m>> BY <2>2, <3>2, <4>1
        <4>5. ChatFromItems(<<m>>) = <<ChatMessage("assistant", texts, <<>>)>> BY <4>3, OneItem
        <4> QED BY <3>2, <4>2, <4>4, <4>5 DEF TextOf
      <3> QED BY <3>1, <3>2
    <2>4. PICK items \in Seq(Items) : items = Mapped(CallItemOf, calls) BY <1>1, CallItemsAre
    <2>5. ChatFromItems(items) = Mapped(CallChatOf, calls) BY <1>1, <2>4, CallItemsAre
    <2>6. [i \in DOMAIN calls |-> CallItem("function_call", calls[i])] = items
      BY <1>1, <2>4, CallItemsAre
    <2>7. Kept(answer) = Joint(said, items)
      BY <1>2, <1>5, <2>2, <2>6 DEF Kept, Joint
    <2>8. ChatsAdd(clientApi) BY ChatsOfJoint DEF Apis
    <2>9. /\ Joint(said, items) \in Seq(MessagesOf(clientApi))
          /\ ChatsOf(clientApi, Joint(said, items)) = Joint(ChatsOf(clientApi, said), ChatsOf(clientApi, items))
      BY <2>1, <2>3, <2>4, <2>8 DEF ChatsAdd
    <2> QED BY <1>5, <2>1, <2>3, <2>4, <2>5, <2>7, <2>9
  <1> QED BY <1>3, <1>4, <1>5 DEF Apis

\* Its texts are a message that calls nothing, if there are any.
LEMMA TextOfIs ==
  ASSUME NEW texts \in Seq(BlockSet(Says))
  PROVE  \/ TextOf(texts) = <<>>
         \/ \E c \in ChatMessages : TextOf(texts) = <<c>> /\ c.role = "assistant" /\ c.calls = <<>>
  <1>1. PICK c : c = ChatMessage("assistant", texts, <<>>) OBVIOUS
  <1>2. c \in ChatMessages BY <1>1 DEF ChatMessage, ChatMessages
  <1>3. c.role = "assistant" /\ c.calls = <<>> BY <1>1 DEF ChatMessage
  <1> QED BY <1>1, <1>2, <1>3 DEF TextOf

\* No answer is a result, and all its calls are made.
LEMMA KeptCalls ==
  ASSUME clientApi \in Apis, NEW answer, answer.blocks \in AnswerBlocks,
         NEW xs, xs = ChatsOf(clientApi, Kept(answer))
  PROVE  /\ \A c \in ToSet(xs) : c.role = "assistant"
         /\ ToSet(IdsOf("call", answer.blocks)) \subseteq CallsMade(xs)
  <1>1. PICK texts, calls : texts = BlocksOf({"text"}, answer.blocks) /\ calls = IdsOf("call", answer.blocks)
    OBVIOUS
  <1>2. texts \in Seq(BlockSet(Says)) /\ calls \in Seq(Nat) BY <1>1, AnswerIs
  <1>3. ToSet(<<>>) = {} /\ \A c : ToSet(<<c>>) = {c} BY DEF ToSet
  <1>4. CASE calls = <<>> /\ xs = <<>> BY <1>1, <1>3, <1>4
  <1>5. CASE \E c \in ChatMessages : xs = <<c>> /\ c.role = "assistant" /\ c.calls = calls
    <2>1. PICK c \in ChatMessages : xs = <<c>> /\ c.role = "assistant" /\ c.calls = calls BY <1>5
    <2>2. ToSet(xs) = {c} BY <1>3, <2>1
    <2> QED BY <1>1, <2>1, <2>2 DEF CallsMade
  <1>6. CASE clientApi = "responses"
    <2>1. xs = Joint(TextOf(texts), Mapped(CallChatOf, calls)) BY <1>1, <1>6, KeptIs
    <2>2. PICK ys \in Seq(ChatMessages) : ys = Mapped(CallChatOf, calls) BY <1>2, CallItemsAre
    <2>3. CallChatOf \in [Nat -> ChatMessages] BY <1>2, CallItemsAre
    <2>4. DOMAIN ys = DOMAIN calls /\ \A i \in DOMAIN calls : ys[i] = CallChatOf[calls[i]] /\ calls[i] \in Nat
      BY <1>2, <2>2 DEF Mapped
    <2>5. ASSUME NEW i \in DOMAIN calls
          PROVE  ys[i].role = "assistant" /\ ys[i].calls = <<calls[i]>>
      <3>1. ys[i] = ChatMessage("assistant", <<>>, <<calls[i]>>) BY <2>4 DEF CallChatOf
      <3> QED BY <3>1 DEF ChatMessage
    <2>6. PICK ts \in Seq(ChatMessages) : ts = TextOf(texts) /\ \A c \in ToSet(ts) : c.role = "assistant"
      <3>1. <<>> \in Seq(ChatMessages) OBVIOUS
      <3>2. CASE TextOf(texts) = <<>> BY <1>3, <3>1, <3>2
      <3>3. CASE \E c \in ChatMessages : TextOf(texts) = <<c>> /\ c.role = "assistant"
        <4>1. PICK c \in ChatMessages : TextOf(texts) = <<c>> /\ c.role = "assistant" BY <3>3
        <4>2. <<c>> \in Seq(ChatMessages) OBVIOUS
        <4> QED BY <1>3, <4>1, <4>2
      <3> QED BY <1>2, <3>2, <3>3, TextOfIs
    <2>7. ToSet(xs) = ToSet(ts) \union ToSet(ys)
      <3>1. ToSet(Joint(ts, ys)) = ToSet(ts) \union ToSet(ys) BY JointItems
      <3> QED BY <2>1, <2>2, <2>6, <3>1
    <2>8. \A c \in ToSet(ys) : c.role = "assistant" BY <2>4, <2>5 DEF ToSet
    <2>9. ASSUME NEW id \in ToSet(calls) PROVE id \in CallsMade(xs)
      <3>1. PICK i \in DOMAIN calls : id = calls[i] BY DEF ToSet
      <3>2. ys[i] \in ToSet(ys) BY <2>4 DEF ToSet
      <3>3. ToSet(ys[i].calls) = {id} BY <1>3, <2>5, <3>1
      <3> QED BY <2>7, <3>2, <3>3 DEF CallsMade
    <2> QED BY <1>1, <2>6, <2>7, <2>8, <2>9
  <1>7. CASE clientApi = "anthropic"
    <2>1. \/ calls = <<>> /\ xs = <<>>
          \/ \E c \in ChatMessages : xs = <<c>> /\ c.role = "assistant" /\ c.calls = calls
      BY <1>1, <1>7, KeptIs
    <2> QED BY <1>4, <1>5, <2>1
  <1>8. CASE clientApi = "chat"
    <2>1. \E c \in ChatMessages : xs = <<c>> /\ c.role = "assistant" /\ c.calls = calls
      BY <1>1, <1>8, KeptIs
    <2> QED BY <1>5, <2>1
  <1> QED BY <1>6, <1>7, <1>8 DEF Apis

-----------------------------------------------------------------------------
(* Dialogues whose results the client kept apart.                           *)

Separate(api, ms) ==
  \A i \in DOMAIN ms :
    /\ api = "anthropic" =>
         LET kinds == {b.kind : b \in ToSet(ms[i].blocks)}
         IN "result" \in kinds => kinds = {"result"}
    /\ api = "responses" /\ i > 1 =>
         ~(ms[i].type = "function_call" /\ ms[i - 1].type = "function_call")

\* What was kept apart at the end was so before.
LEMMA SeparateBefore ==
  ASSUME NEW api, NEW M, NEW ms \in Seq(M), NEW xs \in Seq(M), Separate(api, Joint(ms, xs))
  PROVE  Separate(api, ms)
  <1>1. PICK n \in Nat, m \in Nat : n = Len(ms) /\ m = Len(xs) OBVIOUS
  <1>2. PICK u : u = Joint(ms, xs) OBVIOUS
  <1>3. u \in Seq(M) /\ Len(u) = n + m /\ \A i \in 1..n : u[i] = ms[i]
    <2>1. IsJoint(u, ms, xs, M) BY <1>2, JointAt
    <2> QED BY <1>1, <2>1 DEF IsJoint
  <1>4. DOMAIN ms = 1..n /\ DOMAIN u = 1..(n + m) BY <1>1, <1>3
  <1>5. ASSUME NEW i \in 1..n
        PROVE  /\ i \in DOMAIN u /\ u[i] = ms[i]
               /\ i > 1 => u[i - 1] = ms[i - 1]
    <2>1. i > 1 => i - 1 \in 1..n OBVIOUS
    <2> QED BY <1>3, <1>4, <2>1
  <1>6. Separate(api, u) BY <1>2
  <1> SUFFICES ASSUME NEW i \in 1..n
               PROVE  /\ api = "anthropic" =>
                           LET kinds == {b.kind : b \in ToSet(ms[i].blocks)}
                           IN "result" \in kinds => kinds = {"result"}
                      /\ api = "responses" /\ i > 1 =>
                           ~(ms[i].type = "function_call" /\ ms[i - 1].type = "function_call")
    BY <1>4 DEF Separate
  <1>7. CASE api = "anthropic"
    <2>1. LET kinds == {b.kind : b \in ToSet(u[i].blocks)}
          IN "result" \in kinds => kinds = {"result"}
      BY <1>5, <1>6, <1>7 DEF Separate
    <2> QED BY <1>5, <1>7, <2>1
  <1>8. CASE api = "responses"
    <2>1. i > 1 => ~(u[i].type = "function_call" /\ u[i - 1].type = "function_call")
      BY <1>5, <1>6, <1>8 DEF Separate
    <2> QED BY <1>5, <1>8, <2>1
  <1> QED BY <1>7, <1>8

\* An Anthropic client that keeps results apart says no more with them.
LEMMA SeparateMore ==
  ASSUME NEW ms \in Seq(AnthropicMessages), NEW ids \in Seq(Nat), ids # <<>>,
         NEW more \in Seq(BlockSet(Says)), clientApi = "anthropic",
         Separate("anthropic", Joint(ms, ResultMessages(ids, more)))
  PROVE  more = <<>>
  <1>1. PICK bs : bs = Joint(Mapped(BlockFor("result"), ids), more) OBVIOUS
  <1>2. "result" \in Kinds /\ Says \in SUBSET Kinds BY DEF Kinds, Says
  <1>3. PICK rs \in Seq(BlockSet(Kinds)) : rs = Mapped(BlockFor("result"), ids)
    BY <1>2, BlocksForIs
  <1>4. [i \in DOMAIN ids |-> Block("result", ids[i])] = rs BY <1>2, <1>3, BlocksForIs
  <1>5. PICK m \in AnthropicMessages : m = AnthropicMessage("user", bs) BY <1>1, ChatOfResults
  <1>6. ResultMessages(ids, more) = <<m>>
    BY <1>1, <1>3, <1>4, <1>5 DEF ResultMessages, Joint
  <1>7. PICK xs \in Seq(AnthropicMessages) : xs = <<m>>
    <2>1. <<m>> \in Seq(AnthropicMessages) OBVIOUS
    <2> QED BY <2>1
  <1>8. PICK n \in Nat : n = Len(ms) OBVIOUS
  <1>9. PICK u : u = Joint(ms, xs) OBVIOUS
  <1>10. n + 1 \in DOMAIN u /\ u[n + 1] = m
    <2>1. IsJoint(u, ms, xs, AnthropicMessages) BY <1>9, JointAt
    <2>2. Len(xs) = 1 /\ xs[1] = m /\ 1 \in 1..1 BY <1>7
    <2>3. u \in Seq(AnthropicMessages) /\ Len(u) = n + 1 /\ u[n + 1] = xs[1]
      BY <1>8, <2>1, <2>2 DEF IsJoint
    <2> QED BY <2>2, <2>3
  <1>11. "result" \in {b.kind : b \in ToSet(m.blocks)} =>
           {b.kind : b \in ToSet(m.blocks)} = {"result"}
    BY <1>6, <1>7, <1>9, <1>10 DEF Separate
  <1>12. more \in Seq(BlockSet(Kinds)) BY <1>2, BlocksAreBlocks
  <1>13. ToSet(m.blocks) = ToSet(rs) \union ToSet(more)
    <2>1. ToSet(Joint(rs, more)) = ToSet(rs) \union ToSet(more) BY <1>12, JointItems
    <2> QED BY <1>1, <1>3, <1>5, <2>1 DEF AnthropicMessage
  <1>14. \E b \in ToSet(m.blocks) : b.kind = "result"
    <2>1. 1 \in DOMAIN ids
      <3>1. PICK k \in Nat : k = Len(ids) /\ DOMAIN ids = 1..k OBVIOUS
      <3>2. k # 0
        <4>1. SUFFICES ASSUME k = 0 PROVE FALSE OBVIOUS
        <4>2. Len(ids) = 0 BY <3>1, <4>1
        <4> QED BY <4>2
      <3> QED BY <3>1, <3>2
    <2>2. 1 \in DOMAIN rs /\ rs[1] = Block("result", ids[1]) BY <1>4, <2>1
    <2>3. rs[1] \in ToSet(rs) /\ rs[1].kind = "result" BY <2>2 DEF ToSet, Block
    <2> QED BY <1>13, <2>3
  <1>15. SUFFICES ASSUME more # <<>> PROVE FALSE OBVIOUS
  <1>16. \E b \in ToSet(more) : b.kind \in Says
    <2>1. PICK k \in Nat : k = Len(more) /\ DOMAIN more = 1..k OBVIOUS
    <2>2. k # 0
      <3>1. SUFFICES ASSUME k = 0 PROVE FALSE OBVIOUS
      <3>2. Len(more) = 0 BY <2>1, <3>1
      <3> QED BY <1>15, <3>2
    <2>3. 1 \in DOMAIN more /\ more[1] \in BlockSet(Says) BY <2>1, <2>2
    <2>4. more[1] \in ToSet(more) /\ more[1].kind \in Says BY <2>3 DEF ToSet, BlockSet
    <2> QED BY <2>4
  <1>17. PICK b \in ToSet(m.blocks) : b.kind \in Says BY <1>13, <1>16
  <1>18. b.kind = "result"
    <2>1. "result" \in {c.kind : c \in ToSet(m.blocks)} BY <1>14
    <2> QED BY <1>11, <1>17, <2>1
  <1> QED BY <1>17, <1>18 DEF Says

\* Calls that do not come together come one at a time.
LEMMA SeparateCalls ==
  ASSUME NEW ms \in Seq(Items), NEW said \in Seq(Items), NEW calls \in Seq(Nat),
         Separate("responses", Joint(ms, Joint(said, Mapped(CallItemOf, calls))))
  PROVE  Len(calls) <= 1
  <1>1. PICK items \in Seq(Items) : items = Mapped(CallItemOf, calls) BY CallItemsAre
  <1>2. PICK n \in Nat : n = Len(calls) /\ DOMAIN calls = 1..n OBVIOUS
  <1>3. Len(items) = n /\ \A i \in 1..n : items[i].type = "function_call"
    <2>1. [i \in DOMAIN calls |-> CallItem("function_call", calls[i])] = items BY <1>1, CallItemsAre
    <2>2. DOMAIN items = 1..n BY <1>2, <2>1
    <2>3. \A i \in 1..n : items[i] = CallItem("function_call", calls[i]) BY <1>2, <2>1
    <2>4. ASSUME NEW i \in 1..n PROVE items[i].type = "function_call"
      <3>1. items[i] = CallItem("function_call", calls[i]) BY <2>3
      <3> QED BY <3>1 DEF CallItem
    <2> QED BY <2>2, <2>4
  <1>4. PICK v \in Seq(Items) : v = Joint(ms, said)
    <2>1. Joint(ms, said) \in Seq(Items) BY JointIs
    <2> QED BY <2>1
  <1>5. PICK u : u = Joint(v, items) OBVIOUS
  <1>6. Separate("responses", u)
    <2>1. Joint(Joint(ms, said), items) = Joint(ms, Joint(said, items)) BY JointThree
    <2> QED BY <1>1, <1>4, <1>5, <2>1
  <1>7. PICK l \in Nat : l = Len(v) OBVIOUS
  <1>8. u \in Seq(Items) /\ Len(u) = l + n /\ \A i \in 1..n : u[l + i] = items[i]
    <2>1. IsJoint(u, v, items, Items) BY <1>5, JointAt
    <2> QED BY <1>3, <1>7, <2>1 DEF IsJoint
  <1>9. SUFFICES ASSUME ~(n <= 1) PROVE FALSE BY <1>2
  <1>10. 1 \in 1..n /\ 2 \in 1..n /\ l + 2 \in 1..(l + n) /\ l + 2 > 1 /\ (l + 2) - 1 = l + 1 BY <1>9
  <1>11. l + 2 \in DOMAIN u BY <1>8, <1>10
  <1>12. u[l + 2].type = "function_call" /\ u[l + 1].type = "function_call"
    <2>1. u[l + 1] = items[1] /\ u[l + 2] = items[2] BY <1>8, <1>10
    <2>2. items[1].type = "function_call" /\ items[2].type = "function_call" BY <1>3, <1>10
    <2> QED BY <2>1, <2>2
  <1> QED BY <1>6, <1>10, <1>11, <1>12 DEF Separate

-----------------------------------------------------------------------------
(* What an answer says, and what its conversion does.                       *)

LEMMA OriginalsNone == Originals(<<>>) = <<>>
  <1>1. PICK none \in Seq(BlockSet(Kinds)) : none = <<>>
    <2>1. <<>> \in Seq(BlockSet(Kinds)) OBVIOUS
    <2> QED BY <2>1
  <1>2. Originals(none) = FlatMap(IdsEach, none) BY OriginalsIs
  <1> QED BY <1>1, <1>2, FlatMapNone

\* Texts, then calls.
LEMMA TextsThenCalls ==
  ASSUME NEW first \in Seq(BlockSet({"text"})), NEW then \in Seq(BlockSet({"call"})),
         NEW bs, bs = Joint(first, then)
  PROVE  /\ bs \in AnswerBlocks
         /\ IdsOf("text", bs) = IdsOf("text", first) /\ IdsOf("call", bs) = IdsOf("call", then)
  <1>1. /\ {"text"} \in SUBSET Kinds /\ {"call"} \in SUBSET Kinds /\ "text" \in Kinds /\ "call" \in Kinds
        /\ "call" \notin {"text"} /\ "text" \notin {"call"}
        /\ {"text"} \subseteq {"text", "call"} /\ {"call"} \subseteq {"text", "call"}
    BY DEF Kinds
  <1>2. first \in Seq(BlockSet({"text", "call"})) /\ then \in Seq(BlockSet({"text", "call"}))
    BY <1>1, BlocksWiden
  <1>3. bs \in AnswerBlocks BY <1>2, JointIs DEF AnswerBlocks
  <1>4. first \in Seq(BlockSet(Kinds)) /\ then \in Seq(BlockSet(Kinds)) BY <1>1, BlocksAreBlocks
  <1>5. IdsOf("text", bs) = Joint(IdsOf("text", first), IdsOf("text", then))
    BY <1>1, <1>4, IdsOfJoint
  <1>6. IdsOf("call", bs) = Joint(IdsOf("call", first), IdsOf("call", then))
    BY <1>1, <1>4, IdsOfJoint
  <1>7. IdsOf("text", then) = <<>> /\ IdsOf("call", first) = <<>> BY <1>1, IdsOfOther
  <1>8. PICK a \in Seq(Nat), b \in Seq(Nat) : a = IdsOf("text", first) /\ b = IdsOf("call", then)
    BY <1>1, <1>4, IdsOfIs
  <1>9. Joint(a, <<>>) = a /\ Joint(<<>>, b) = b
    <2>1. <<>> \in Seq(Nat) OBVIOUS
    <2> QED BY <2>1, JointIs
  <1> QED BY <1>3, <1>5, <1>6, <1>7, <1>8, <1>9

SameSaid(a, b) == IdsOf("text", a) = IdsOf("text", b) /\ IdsOf("call", a) = IdsOf("call", b)

\* _anthropic_to_openai_response() keeps texts and calls.
LEMMA ChatAnswerIs ==
  ASSUME NEW answer, answer.blocks \in AnswerBlocks
  PROVE  /\ ChatAnswer(answer).blocks \in AnswerBlocks
         /\ SameSaid(answer.blocks, ChatAnswer(answer).blocks)
         /\ ChatAnswer(answer).reason = IF BlocksOf({"call"}, answer.blocks) # <<>> THEN "tool_calls"
                                        ELSE IF answer.reason = "max_tokens" THEN "length" ELSE "stop"
  <1>1. PICK bs, texts, calls :
          /\ bs = answer.blocks /\ texts = BlocksOf({"text"}, bs) /\ calls = BlocksOf({"call"}, bs)
    OBVIOUS
  <1>2. /\ bs \in Seq(BlockSet(Kinds)) /\ texts \in Seq(BlockSet({"text"}))
        /\ calls \in Seq(BlockSet({"call"})) /\ IdsOf("text", bs) \in Seq(Nat)
    BY <1>1, AnswerIs
  <1>3. /\ {"text"} \in SUBSET Kinds /\ {"call"} \in SUBSET Kinds /\ "text" \in Kinds /\ "call" \in Kinds
        /\ "text" \in {"text"} /\ "call" \in {"call"}
    BY DEF Kinds
  <1>4. Originals(texts) = IdsOf("text", bs) BY <1>1 DEF IdsOf
  <1>5. PICK first : first = IF texts = <<>> THEN <<>> ELSE <<[kind |-> "text", ids |-> Originals(texts)]>>
    OBVIOUS
  <1>6. first \in Seq(BlockSet({"text"})) /\ IdsOf("text", first) = IdsOf("text", bs)
    <2>1. CASE texts = <<>>
      <3>1. first = <<>> /\ IdsOf("text", bs) = <<>> BY <1>4, <1>5, <2>1, OriginalsNone
      <3> QED BY <1>3, <3>1, IdsOfNone
    <2>2. CASE texts # <<>>
      <3>1. PICK b : b = [kind |-> "text", ids |-> Originals(texts)] OBVIOUS
      <3>2. b \in BlockSet({"text"}) /\ b \in BlockSet(Kinds) BY <1>2, <1>3, <1>4, <3>1 DEF BlockSet
      <3>3. IdsOf("text", <<b>>) = IF b.kind = "text" THEN b.ids ELSE <<>> BY <1>3, <3>2, IdsOfOne
      <3>4. first = <<b>> /\ b.kind = "text" /\ b.ids = Originals(texts) BY <1>5, <2>2, <3>1
      <3> QED BY <1>4, <3>2, <3>3, <3>4
    <2> QED BY <2>1, <2>2
  <1>7. IdsOf("call", calls) = IdsOf("call", bs) BY <1>1, <1>2, <1>3, IdsOfSome
  <1>8. ChatAnswer(answer).blocks = Joint(first, calls)
    BY <1>1, <1>5 DEF ChatAnswer, Joint
  <1>9. PICK all : all = Joint(first, calls) OBVIOUS
  <1>10. /\ all \in AnswerBlocks
         /\ IdsOf("text", all) = IdsOf("text", first) /\ IdsOf("call", all) = IdsOf("call", calls)
    BY <1>2, <1>6, <1>9, TextsThenCalls
  <1>11. ChatAnswer(answer).reason = IF BlocksOf({"call"}, answer.blocks) # <<>> THEN "tool_calls"
                                     ELSE IF answer.reason = "max_tokens" THEN "length" ELSE "stop"
    BY DEF ChatAnswer
  <1> QED BY <1>1, <1>6, <1>7, <1>8, <1>9, <1>10, <1>11 DEF SameSaid

\* chat_to_responses() does too.
LEMMA ResponsesAnswerIs ==
  ASSUME NEW answer, answer.blocks \in AnswerBlocks
  PROVE  /\ ResponsesAnswer(answer).blocks \in AnswerBlocks
         /\ SameSaid(answer.blocks, ResponsesAnswer(answer).blocks)
  <1>1. PICK bs, texts, calls :
          /\ bs = answer.blocks /\ texts = BlocksOf({"text"}, bs) /\ calls = BlocksOf({"call"}, bs)
    OBVIOUS
  <1>2. /\ bs \in Seq(BlockSet(Kinds)) /\ texts \in Seq(BlockSet({"text"}))
        /\ calls \in Seq(BlockSet({"call"}))
    BY <1>1, AnswerIs
  <1>3. {"text"} \in SUBSET Kinds /\ {"call"} \in SUBSET Kinds /\ "text" \in {"text"} /\ "call" \in {"call"}
    BY DEF Kinds
  <1>4. IdsOf("text", texts) = IdsOf("text", bs) /\ IdsOf("call", calls) = IdsOf("call", bs)
    BY <1>1, <1>2, <1>3, IdsOfSome
  <1>5. PICK all : all = Joint(texts, calls) OBVIOUS
  <1>6. ResponsesAnswer(answer).blocks = all BY <1>1, <1>5 DEF ResponsesAnswer, Joint
  <1>7. /\ all \in AnswerBlocks
        /\ IdsOf("text", all) = IdsOf("text", texts) /\ IdsOf("call", all) = IdsOf("call", calls)
    BY <1>2, <1>5, TextsThenCalls
  <1> QED BY <1>1, <1>4, <1>6, <1>7 DEF SameSaid

\* Whether there are calls.
LEMMA CallsThere ==
  ASSUME NEW bs \in AnswerBlocks, \A b \in ToSet(bs) : b.ids # <<>>
  PROVE  /\ BlocksOf({"call"}, bs) # <<>> <=> \E b \in ToSet(bs) : b.kind = "call"
         /\ BlocksOf({"call"}, bs) # <<>> => IdsOf("call", bs) # <<>>
  <1>1. bs \in Seq(BlockSet(Kinds)) BY AnswerIs
  <1>2. {"call"} \in SUBSET Kinds /\ "call" \in Kinds BY DEF Kinds
  <1>3. ToSet(bs) \subseteq BlockSet(Kinds) BY <1>1 DEF ToSet
  <1>4. PICK calls : calls = BlocksOf({"call"}, bs) OBVIOUS
  <1>5. /\ calls \in Seq(BlockSet(Kinds)) /\ calls = FlatMap(IfOf({"call"}), bs)
        /\ IfOf({"call"}) \in [BlockSet(Kinds) -> Seq(BlockSet(Kinds))]
    BY <1>1, <1>2, <1>4, BlocksOfIs
  <1>6. ToSet(calls) = UNION {ToSet(IfOf({"call"})[b]) : b \in ToSet(bs)}
    <2>1. HasItems(IfOf({"call"}), BlockSet(Kinds), BlockSet(Kinds)) BY <1>5, FlatMapItems
    <2> QED BY <1>1, <1>5, <2>1 DEF HasItems
  <1>7. PICK ids : ids = IdsOf("call", bs) OBVIOUS
  <1>8. /\ ids \in Seq(Nat) /\ ids = FlatMap(IdsIf("call"), bs)
        /\ IdsIf("call") \in [BlockSet(Kinds) -> Seq(Nat)]
    BY <1>1, <1>2, <1>7, IdsOfIs
  <1>9. ToSet(ids) = UNION {ToSet(IdsIf("call")[b]) : b \in ToSet(bs)}
    <2>1. HasItems(IdsIf("call"), BlockSet(Kinds), Nat) BY <1>8, FlatMapItems
    <2> QED BY <1>1, <1>8, <2>1 DEF HasItems
  <1>10. ToSet(<<>>) = {} /\ \A b : ToSet(<<b>>) = {b} BY DEF ToSet
  <1>11. ASSUME NEW S, NEW s \in Seq(S), s # <<>> PROVE ToSet(s) # {}
    <2>1. PICK k \in Nat : k = Len(s) /\ DOMAIN s = 1..k OBVIOUS
    <2>2. k # 0
      <3>1. SUFFICES ASSUME k = 0 PROVE FALSE OBVIOUS
      <3>2. Len(s) = 0 BY <2>1, <3>1
      <3> QED BY <1>11, <3>2
    <2>3. 1 \in DOMAIN s BY <2>1, <2>2
    <2> QED BY <2>3 DEF ToSet
  <1>12. ASSUME calls # <<>> PROVE \E b \in ToSet(bs) : b.kind = "call"
    <2>1. PICK x : x \in ToSet(calls) BY <1>5, <1>11, <1>12
    <2>2. PICK b \in ToSet(bs) : x \in ToSet(IfOf({"call"})[b]) BY <1>6, <2>1
    <2>3. b.kind # "call" => IfOf({"call"})[b] = <<>> BY <1>3 DEF IfOf
    <2> QED BY <1>10, <2>2, <2>3
  <1>13. ASSUME NEW b \in ToSet(bs), b.kind = "call" PROVE calls # <<>> /\ ids # <<>>
    <2>1. IfOf({"call"})[b] = <<b>> /\ IdsIf("call")[b] = b.ids BY <1>3, <1>13 DEF IfOf, IdsIf
    <2>2. b \in ToSet(IfOf({"call"})[b]) BY <1>10, <2>1
    <2>2a. b \in ToSet(calls) BY <1>6, <2>2
    <2>3. b.ids \in Seq(Nat) /\ b.ids # <<>> BY <1>3 DEF BlockSet
    <2>4. ToSet(b.ids) # {} BY <1>11, <2>3
    <2>5. ToSet(ids) # {} BY <1>9, <2>1, <2>4
    <2> QED BY <1>10, <2>2a, <2>5
  <1> QED BY <1>4, <1>7, <1>12, <1>13

\* What the client is told of an answer.
Told(client, gave, got) ==
  /\ SameSaid(gave.blocks, got.blocks)
  /\ gave.reason \in {"tool_calls", "tool_use"} /\ client # "responses" =>
       got.reason \in {"tool_calls", "tool_use"}
  /\ got.reason \in {"tool_calls", "tool_use"} /\ client # "responses" =>
       IdsOf("call", got.blocks) # <<>>
  /\ gave.reason \in {"length", "max_tokens"} /\ client # "responses" =>
       \/ got.reason \in {"length", "max_tokens"}
       \/ client = "chat" /\ got.reason = "tool_calls"

\* Providers speak for themselves.
Speaks(provider, answer) ==
  /\ answer.blocks \in AnswerBlocks /\ \A b \in ToSet(answer.blocks) : b.ids # <<>>
  /\ provider = "chat" => answer.reason \in {"length", "tool_calls", "stop"}
  /\ provider = "anthropic" => answer.reason \in {"max_tokens", "tool_use", "end_turn"}
  /\ answer.reason \in {"tool_calls", "tool_use"} =>
       \E b \in ToSet(answer.blocks) : b.kind = "call"

ApiPairs ==
  \/ clientApi = "anthropic" /\ providerApi = "chat"
  \/ clientApi = "chat" /\ providerApi = "anthropic"
  \/ clientApi = "responses" /\ providerApi \in {"chat", "anthropic"}

\* Answers do so.
LEMMA AnswersSpeak ==
  ASSUME blocks \in Nat, ApiPairs, NEW answer \in Answers
  PROVE  Speaks(providerApi, answer)
  <1>1. PICK shape :
          /\ shape \in {<<"text">>, <<"call">>, <<"text", "call">>, <<"call", "call">>, <<"text", "call", "text">>}
          /\ answer.blocks = [i \in DOMAIN shape |-> Block(shape[i], blocks + i)]
          /\ providerApi = "chat" => answer.reason \in {"length", "tool_calls", "stop"}
          /\ providerApi = "anthropic" => answer.reason \in {"max_tokens", "tool_use", "end_turn"}
          /\ answer.reason \in {"tool_calls", "tool_use"} => "call" \in ToSet(shape)
    <2> DEFINE Shapes == {<<"text">>, <<"call">>, <<"text", "call">>, <<"call", "call">>}
                           \union (IF providerApi = "chat" THEN {} ELSE {<<"text", "call", "text">>})
               BlocksFor(shape) == [i \in DOMAIN shape |-> Block(shape[i], blocks + i)]
               Reason(shape, cut) ==
                 IF providerApi = "chat"
                 THEN IF cut THEN "length" ELSE IF "call" \in ToSet(shape) THEN "tool_calls" ELSE "stop"
                 ELSE IF cut THEN "max_tokens" ELSE IF "call" \in ToSet(shape) THEN "tool_use" ELSE "end_turn"
               AnswerOf(shape, cut) == [blocks |-> BlocksFor(shape), reason |-> Reason(shape, cut)]
    <2>1. Answers = {AnswerOf(shape, cut) : shape \in Shapes, cut \in BOOLEAN} BY DEF Answers
    <2> HIDE DEF Shapes, BlocksFor, Reason, AnswerOf
    <2>2. PICK shape \in Shapes, cut \in BOOLEAN : answer = AnswerOf(shape, cut) BY <2>1, SMT
    <2>3. PICK bs, r : bs = BlocksFor(shape) /\ r = Reason(shape, cut) OBVIOUS
    <2>4. answer = [blocks |-> bs, reason |-> r] BY <2>2, <2>3, Zenon DEF AnswerOf
    <2>5. answer.blocks = bs /\ answer.reason = r BY <2>4
    <2>6. r = IF providerApi = "chat"
              THEN IF cut THEN "length" ELSE IF "call" \in ToSet(shape) THEN "tool_calls" ELSE "stop"
              ELSE IF cut THEN "max_tokens" ELSE IF "call" \in ToSet(shape) THEN "tool_use" ELSE "end_turn"
      BY <2>3, Zenon DEF Reason
    <2>7. shape \in {<<"text">>, <<"call">>, <<"text", "call">>, <<"call", "call">>, <<"text", "call", "text">>}
      BY <2>2, Zenon DEF Shapes
    <2>8. bs = [i \in DOMAIN shape |-> Block(shape[i], blocks + i)] BY <2>3, Zenon DEF BlocksFor
    <2> QED BY <2>5, <2>6, <2>7, <2>8
  <1>2. shape \in Seq({"text", "call"})
    <2>1. CASE shape = <<"text">> BY <2>1
    <2>2. CASE shape = <<"call">> BY <2>2
    <2>3. CASE shape = <<"text", "call">> BY <2>3
    <2>4. CASE shape = <<"call", "call">> BY <2>4
    <2>5. CASE shape = <<"text", "call", "text">> BY <2>5
    <2> QED BY <1>1, <2>1, <2>2, <2>3, <2>4, <2>5
  <1>3. PICK n \in Nat : n = Len(shape) /\ DOMAIN shape = 1..n BY <1>2
  <1>4. PICK bs : bs = answer.blocks OBVIOUS
  <1>5. ASSUME NEW i \in 1..n
        PROVE  /\ bs[i] \in BlockSet({"text", "call"}) /\ bs[i].ids # <<>>
               /\ bs[i].kind = shape[i]
    <2>1. bs[i] = [kind |-> shape[i], ids |-> <<blocks + i>>] BY <1>1, <1>3, <1>4 DEF Block
    <2>2. shape[i] \in {"text", "call"} /\ blocks + i \in Nat BY <1>2, <1>3
    <2> QED BY <2>1, <2>2 DEF BlockSet
  <1>6. DOMAIN bs = 1..n /\ bs = [i \in 1..n |-> bs[i]] BY <1>1, <1>3, <1>4
  <1>7. bs \in AnswerBlocks
    <2>1. bs \in [1..n -> BlockSet({"text", "call"})] BY <1>5, <1>6
    <2> QED BY <2>1 DEF AnswerBlocks
  <1>8. \A b \in ToSet(bs) : b.ids # <<>> BY <1>5, <1>6 DEF ToSet
  <1>9. "call" \in ToSet(shape) => \E b \in ToSet(bs) : b.kind = "call"
    BY <1>3, <1>5, <1>6 DEF ToSet
  <1> QED BY <1>1, <1>4, <1>7, <1>8, <1>9 DEF Speaks

\* Whatever the protocols, the client is told.
LEMMA ConvertedTold ==
  ASSUME ApiPairs, NEW gave, Speaks(providerApi, gave)
  PROVE  /\ ConvertedAnswer(gave).blocks \in AnswerBlocks
         /\ Told(clientApi, gave, ConvertedAnswer(gave))
  <1>1. gave.blocks \in AnswerBlocks /\ \A b \in ToSet(gave.blocks) : b.ids # <<>> BY DEF Speaks
  <1>2. CASE clientApi = "anthropic" /\ providerApi = "chat"
    <2>1. PICK got : got = AnthropicAnswer(gave) OBVIOUS
    <2>2. ConvertedAnswer(gave) = got BY <1>2, <2>1 DEF ConvertedAnswer
    <2>3. /\ got.blocks = gave.blocks
          /\ got.reason = CASE gave.reason = "tool_calls" -> "tool_use"
                            [] gave.reason = "length" -> "max_tokens"
                            [] OTHER -> "end_turn"
      BY <2>1 DEF AnthropicAnswer
    <2>4. gave.reason \in {"length", "tool_calls", "stop"} BY <1>2 DEF Speaks
    <2>5. gave.reason = "tool_calls" => got.reason = "tool_use" BY <2>3
    <2>6. gave.reason = "length" => got.reason = "max_tokens" BY <2>3
    <2>7. got.reason = "tool_use" => gave.reason = "tool_calls" BY <2>3
    <2>8. got.reason # "tool_calls" BY <2>3
    <2>9. gave.reason = "tool_calls" => BlocksOf({"call"}, gave.blocks) # <<>>
                                          /\ IdsOf("call", gave.blocks) # <<>>
      BY <1>1, CallsThere DEF Speaks
    <2> QED BY <1>1, <2>2, <2>3, <2>4, <2>5, <2>6, <2>7, <2>8, <2>9 DEF Told, SameSaid
  <1>3. CASE clientApi = "chat" /\ providerApi = "anthropic"
    <2>1. PICK got : got = ChatAnswer(gave) OBVIOUS
    <2>2. ConvertedAnswer(gave) = got BY <1>3, <2>1 DEF ConvertedAnswer
    <2>3. /\ got.blocks \in AnswerBlocks /\ SameSaid(gave.blocks, got.blocks)
          /\ got.reason = IF BlocksOf({"call"}, gave.blocks) # <<>> THEN "tool_calls"
                          ELSE IF gave.reason = "max_tokens" THEN "length" ELSE "stop"
      BY <1>1, <2>1, ChatAnswerIs
    <2>4. /\ gave.reason \in {"max_tokens", "tool_use", "end_turn"}
          /\ gave.reason = "tool_use" => \E b \in ToSet(gave.blocks) : b.kind = "call"
      BY <1>3, Zenon DEF Speaks
    <2>5. /\ BlocksOf({"call"}, gave.blocks) # <<>> <=> \E b \in ToSet(gave.blocks) : b.kind = "call"
          /\ BlocksOf({"call"}, gave.blocks) # <<>> => IdsOf("call", gave.blocks) # <<>>
      BY <1>1, CallsThere
    <2>6. IdsOf("call", got.blocks) = IdsOf("call", gave.blocks) BY <2>3 DEF SameSaid
    <2> QED BY <1>3, <2>2, <2>3, <2>4, <2>5, <2>6 DEF Told
  <1>4. CASE clientApi = "responses" /\ providerApi \in {"chat", "anthropic"}
    <2>1. PICK mid : mid = IF providerApi = "chat" THEN gave ELSE ChatAnswer(gave) OBVIOUS
    <2>2. mid.blocks \in AnswerBlocks /\ SameSaid(gave.blocks, mid.blocks)
      <3>1. CASE providerApi = "chat" BY <1>1, <2>1, <3>1 DEF SameSaid
      <3>2. CASE providerApi # "chat" BY <1>1, <2>1, <3>2, ChatAnswerIs
      <3> QED BY <3>1, <3>2
    <2>3. PICK got : got = ResponsesAnswer(mid) OBVIOUS
    <2>4. ConvertedAnswer(gave) = got BY <1>4, <2>1, <2>3 DEF ConvertedAnswer
    <2>5. got.blocks \in AnswerBlocks /\ SameSaid(mid.blocks, got.blocks)
      BY <2>2, <2>3, ResponsesAnswerIs
    <2> QED BY <1>4, <2>2, <2>4, <2>5 DEF Told, SameSaid
  <1> QED BY <1>2, <1>3, <1>4 DEF ApiPairs

-----------------------------------------------------------------------------
(* What a dialogue has to be for its requests to be in order, at turn t and  *)
(* with calls in its last answer.                                            *)
Sound(client, provider, d, t, calls) ==
  /\ d \in Seq(MessagesOf(client))
  /\ \A roles \in Scopes : Followed(BlocksOfRoles(roles, ChatsOf(client, d)))
  /\ t = "client" => ToSet(calls) \subseteq CallsMade(ChatsOf(client, d))
  /\ provider = "chat" /\ Separate(client, d) =>
       Adjacent(ChatsOf(client, d), IF t = "client" THEN calls ELSE <<>>)

\* No dialogue is no chat.
LEMMA ChatsOfNone ==
  ASSUME NEW client \in Apis
  PROVE  ChatsOf(client, <<>>) = <<>>
  <1>1. ChatFromAnthropic(<<>>) = <<>>
    <2>1. PICK none \in Seq(AnthropicMessages) : none = <<>>
      <3>1. <<>> \in Seq(AnthropicMessages) OBVIOUS
      <3> QED BY <3>1
    <2>2. ChatFromAnthropic(none) = FlatMap(ChatEach, none) BY ChatFromAnthropicIs
    <2> QED BY <2>1, <2>2, FlatMapNone
  <1>2. ChatFromItems(<<>>) = <<>> BY OneItem
  <1> QED BY <1>1, <1>2 DEF ChatsOf, Apis

\* So is the empty one.
LEMMA SoundAtFirst ==
  ASSUME NEW client \in Apis, NEW provider
  PROVE  Sound(client, provider, <<>>, "client", <<>>)
  <1>1. PICK none : none = <<>> /\ none \in Seq(MessagesOf(client)) /\ none \in Seq(ChatMessages)
    <2>1. <<>> \in Seq(MessagesOf(client)) /\ <<>> \in Seq(ChatMessages) OBVIOUS
    <2> QED BY <2>1
  <1>2. ChatsOf(client, none) = none BY <1>1, ChatsOfNone
  <1>3. ASSUME NEW roles PROVE Followed(BlocksOfRoles(roles, none))
    <2>1. PICK bs \in Seq(BlockSet(Kinds)) : bs = BlocksOfRoles(roles, none)
      BY <1>1, BlocksOfRolesJoint
    <2>2. none \in Seq(MessagesOf("chat")) BY <1>1 DEF MessagesOf
    <2>3. OfRoles(roles, none) = none BY <1>1, <2>2, OfRolesIs, FlatMapNone
    <2>4. bs = <<>> BY <1>1, <2>1, <2>3, FlatMapNone DEF BlocksOfRoles, AllBlocks
    <2>5. Len(bs) = 0 BY <2>4
    <2> QED BY <2>1, <2>5 DEF Followed
  <1>4. ResultsAdjacent(none)
    <2>1. Len(none) = 0 BY <1>1
    <2> QED BY <2>1 DEF ResultsAdjacent
  <1>5. ToSet(<<>>) = {} BY DEF ToSet
  <1>6. Adjacent(none, <<>>) BY <1>1, <1>4 DEF Adjacent
  <1> QED BY <1>1, <1>2, <1>3, <1>5, <1>6 DEF Sound

\* It stays so if new messages answer calls made, and right after them.
LEMMA SoundOn ==
  ASSUME NEW client \in Apis, NEW provider, NEW d, NEW t, NEW calls,
         Sound(client, provider, d, t, calls),
         NEW xs \in Seq(MessagesOf(client)), NEW cs, NEW ys,
         cs = ChatsOf(client, d), ys = ChatsOf(client, xs),
         \A c \in ToSet(ys) : c.role = "tool" => c.answers \in CallsMade(cs),
         NEW t2, NEW calls2,
         t2 = "client" => ToSet(calls2) \subseteq CallsMade(ys),
         provider = "chat" /\ Separate(client, d) /\ Separate(client, Joint(d, xs)) =>
           Adjacent(Joint(cs, ys), IF t2 = "client" THEN calls2 ELSE <<>>)
  PROVE  Sound(client, provider, Joint(d, xs), t2, calls2)
  <1>1. d \in Seq(MessagesOf(client)) BY DEF Sound
  <1>2. ChatsAdd(client) BY ChatsOfJoint DEF Apis
  <1>3. /\ Joint(d, xs) \in Seq(MessagesOf(client))
        /\ cs \in Seq(ChatMessages) /\ ys \in Seq(ChatMessages)
        /\ ChatsOf(client, Joint(d, xs)) = Joint(cs, ys)
    BY <1>1, <1>2 DEF ChatsAdd
  <1>4. \A roles \in Scopes : Followed(BlocksOfRoles(roles, cs)) BY DEF Sound
  <1>5. \A roles \in Scopes : Followed(BlocksOfRoles(roles, Joint(cs, ys)))
    BY <1>3, <1>4, FollowedOn
  <1>6. CallsMade(Joint(cs, ys)) = CallsMade(cs) \union CallsMade(ys) BY <1>3, CallsMadeJoint
  <1>7. Separate(client, Joint(d, xs)) => Separate(client, d) BY <1>1, SeparateBefore
  <1> QED BY <1>3, <1>5, <1>6, <1>7 DEF Sound

\* A message of the client's own, when no calls wait for their results.
LEMMA OwnKeeps ==
  ASSUME clientApi \in Apis, NEW provider, NEW d, Sound(clientApi, provider, d, "client", <<>>),
         NEW role \in {"system", "user", "assistant"}, NEW said \in Seq(BlockSet(Says)), said # <<>>,
         NEW t
  PROVE  Sound(clientApi, provider, Joint(d, OwnMessage(role, said)), t, <<>>)
  <1>1. PICK xs : xs = OwnMessage(role, said) OBVIOUS
  <1>2. PICK c : c = ChatMessage(role, said, <<>>) OBVIOUS
  <1>3. xs \in Seq(MessagesOf(clientApi)) /\ c \in ChatMessages /\ ChatsOf(clientApi, xs) = <<c>>
    BY <1>1, <1>2, OwnIs
  <1>4. c.role = role /\ c.calls = <<>> BY <1>2 DEF ChatMessage
  <1>5. PICK cs : cs = ChatsOf(clientApi, d) OBVIOUS
  <1>6. cs \in Seq(ChatMessages)
    <2>1. ChatsAdd(clientApi) BY ChatsOfJoint DEF Apis
    <2> QED BY <1>5, <2>1 DEF ChatsAdd, Sound
  <1>7. PICK ys : ys = <<c>> OBVIOUS
  <1>8. \A e \in ToSet(ys) : e.role = "tool" => e.answers \in CallsMade(cs)
    <2>1. ToSet(ys) = {c} BY <1>7 DEF ToSet
    <2> QED BY <1>4, <2>1
  <1>9. provider = "chat" /\ Separate(clientApi, d) => Adjacent(Joint(cs, ys), <<>>)
    <2>1. provider = "chat" /\ Separate(clientApi, d) => Adjacent(cs, <<>>) BY <1>5 DEF Sound
    <2> QED BY <1>3, <1>4, <1>6, <1>7, <2>1, AdjacentOne
  <1>10. ToSet(<<>>) = {} BY DEF ToSet
  <1>12. (IF t = "client" THEN <<>> ELSE <<>>) = <<>> OBVIOUS
  <1> QED BY <1>1, <1>3, <1>5, <1>7, <1>8, <1>9, <1>10, <1>12, SoundOn

\* The messages of results answer the calls they are for.
LEMMA ToolsAnswer ==
  ASSUME NEW ids \in Seq(Nat), NEW c \in ToSet(Mapped(ToolOf, ids))
  PROVE  c.answers \in ToSet(ids)
  <1>1. PICK i \in DOMAIN ids : c = ToolOf[ids[i]] BY DEF Mapped, ToSet
  <1>2. c = ToolMessage(ids[i]) BY <1>1 DEF ToolOf
  <1>3. c.answers = ids[i] BY <1>2 DEF ToolMessage
  <1> QED BY <1>1, <1>3 DEF ToSet

\* The results of all the calls that wait, and what the client says with them.
LEMMA ResultsKeep ==
  ASSUME clientApi \in Apis, NEW provider, NEW d, NEW ids \in Seq(Nat), ids # <<>>,
         Sound(clientApi, provider, d, "client", ids), NEW more \in Seq(BlockSet(Says))
  PROVE  Sound(clientApi, provider, Joint(d, ResultMessages(ids, more)), "provider", ids)
  <1>1. PICK xs : xs = ResultMessages(ids, more) OBVIOUS
  <1>2. PICK tools \in Seq(ChatMessages), rest \in Seq(ChatMessages) :
          tools = Mapped(ToolOf, ids) /\ rest = More(more)
    <2>1. Mapped(ToolOf, ids) \in Seq(ChatMessages) BY ToolOfIs
    <2>2. More(more) \in Seq(ChatMessages) BY MoreIs
    <2> QED BY <2>1, <2>2
  <1>3. PICK ys : ys = ChatsOf(clientApi, xs) OBVIOUS
  <1>4. xs \in Seq(MessagesOf(clientApi)) /\ ys = IF clientApi = "anthropic" THEN Joint(rest, tools) ELSE Joint(tools, rest)
    BY <1>1, <1>2, <1>3, ResultsAre
  <1>5. PICK cs : cs = ChatsOf(clientApi, d) OBVIOUS
  <1>6. d \in Seq(MessagesOf(clientApi)) BY DEF Sound
  <1>7. cs \in Seq(ChatMessages)
    <2>1. ChatsAdd(clientApi) BY ChatsOfJoint DEF Apis
    <2> QED BY <1>5, <1>6, <2>1 DEF ChatsAdd
  <1>8. \A c \in ToSet(ys) : c.role = "tool" => c.answers \in CallsMade(cs)
    <2>1. ToSet(ids) \subseteq CallsMade(cs) BY <1>5 DEF Sound
    <2>2. ToSet(Joint(rest, tools)) = ToSet(rest) \union ToSet(tools) BY JointItems
    <2>3. ToSet(Joint(tools, rest)) = ToSet(tools) \union ToSet(rest) BY JointItems
    <2>4. ToSet(ys) = ToSet(rest) \union ToSet(tools)
      <3>1. CASE clientApi = "anthropic" BY <1>4, <2>2, <3>1
      <3>2. CASE clientApi # "anthropic" BY <1>4, <2>3, <3>2
      <3> QED BY <3>1, <3>2
    <2>5. \A c \in ToSet(rest) : c.role = "user" BY <1>2, MoreIs
    <2>6. \A c \in ToSet(tools) : c.answers \in ToSet(ids) BY <1>2, ToolsAnswer
    <2> QED BY <2>1, <2>4, <2>5, <2>6
  <1>9. ASSUME provider = "chat", Separate(clientApi, d), Separate(clientApi, Joint(d, xs))
        PROVE  Adjacent(Joint(cs, ys), <<>>)
    <2>1. Adjacent(cs, ids) BY <1>5, <1>9 DEF Sound
    <2>2. Adjacent(Joint(cs, tools), <<>>) BY <1>2, <1>7, <2>1, AdjacentAnswers
    <2>3. PICK before \in Seq(ChatMessages) : before = Joint(cs, tools)
      <3>1. Joint(cs, tools) \in Seq(ChatMessages) BY <1>7, JointIs
      <3> QED BY <3>1
    <2>4. CASE more = <<>>
      <3>1. rest = <<>> BY <1>2, <2>4 DEF More
      <3>2. Joint(rest, tools) = tools /\ Joint(tools, rest) = tools BY <3>1, JointIs
      <3>3. ys = tools BY <1>4, <3>2
      <3> QED BY <2>2, <3>3
    <2>5. CASE more # <<>>
      <3>1. clientApi # "anthropic"
        <4>1. SUFFICES ASSUME clientApi = "anthropic" PROVE FALSE OBVIOUS
        <4>2. d \in Seq(AnthropicMessages) BY <1>6, <4>1 DEF MessagesOf
        <4>3. Separate("anthropic", Joint(d, ResultMessages(ids, more))) BY <1>1, <1>9, <4>1
        <4> QED BY <2>5, <4>1, <4>2, <4>3, SeparateMore
      <3>2. ys = Joint(tools, rest) BY <1>4, <3>1
      <3>3. Joint(cs, ys) = Joint(before, rest) BY <1>7, <2>3, <3>2, JointThree
      <3>4. PICK c \in ChatMessages : c = ChatMessage("user", more, <<>>) BY <2>5, ChatOfPlain
      <3>5. rest = <<c>> /\ c.calls = <<>> BY <1>2, <2>5, <3>4 DEF More, ChatMessage
      <3> QED BY <2>2, <2>3, <3>3, <3>5, AdjacentOne
    <2> QED BY <2>4, <2>5
  <1> QED BY <1>1, <1>3, <1>4, <1>5, <1>8, <1>9, SoundOn

\* An answer, of whatever texts and calls.
LEMMA ServeKeeps ==
  ASSUME clientApi \in Apis, NEW provider, NEW d, NEW any, Sound(clientApi, provider, d, "provider", any),
         NEW answer, answer.blocks \in AnswerBlocks
  PROVE  Sound(clientApi, provider, Joint(d, Kept(answer)), "client", IdsOf("call", answer.blocks))
  <1>1. PICK texts, calls : texts = BlocksOf({"text"}, answer.blocks) /\ calls = IdsOf("call", answer.blocks)
    OBVIOUS
  <1>2. texts \in Seq(BlockSet(Says)) /\ calls \in Seq(Nat) BY <1>1, AnswerIs
  <1>3. PICK xs : xs = Kept(answer) OBVIOUS
  <1>4. PICK ys : ys = ChatsOf(clientApi, xs) OBVIOUS
  <1>5. xs \in Seq(MessagesOf(clientApi)) BY <1>1, <1>3, KeptIs
  <1>6. PICK cs : cs = ChatsOf(clientApi, d) OBVIOUS
  <1>7. d \in Seq(MessagesOf(clientApi)) BY DEF Sound
  <1>8. cs \in Seq(ChatMessages)
    <2>1. ChatsAdd(clientApi) BY ChatsOfJoint DEF Apis
    <2> QED BY <1>6, <1>7, <2>1 DEF ChatsAdd
  <1>9. (\A c \in ToSet(ys) : c.role = "assistant") /\ ToSet(calls) \subseteq CallsMade(ys)
    BY <1>1, <1>3, <1>4, KeptCalls
  <1>10. ASSUME provider = "chat", Separate(clientApi, d), Separate(clientApi, Joint(d, xs))
         PROVE  Adjacent(Joint(cs, ys), calls)
    <2>1. Adjacent(cs, <<>>) BY <1>6, <1>10 DEF Sound
    <2>2. CASE calls = <<>> /\ ys = <<>>
      <3>1. Joint(cs, <<>>) = cs
        <4>1. <<>> \in Seq(ChatMessages) OBVIOUS
        <4> QED BY <1>8, <4>1, JointIs
      <3> QED BY <2>1, <2>2, <3>1
    <2>3. CASE \E c \in ChatMessages : ys = <<c>> /\ c.role = "assistant" /\ c.calls = calls
      BY <1>8, <2>1, <2>3, AdjacentOne
    <2>4. CASE clientApi = "responses"
      <3>1. ys = Joint(TextOf(texts), Mapped(CallChatOf, calls)) BY <1>1, <1>3, <1>4, <2>4, KeptIs
      <3>2. PICK said \in Seq(Items) : xs = Joint(said, Mapped(CallItemOf, calls))
        BY <1>1, <1>3, <2>4, KeptIs
      <3>3. d \in Seq(Items) BY <1>7, <2>4 DEF MessagesOf
      <3>4. Len(calls) <= 1
        <4>1. Separate("responses", Joint(d, Joint(said, Mapped(CallItemOf, calls))))
          BY <1>10, <2>4, <3>2
        <4> QED BY <1>2, <3>3, <4>1, SeparateCalls
      <3>5. PICK ts \in Seq(ChatMessages) : ts = TextOf(texts) /\ Adjacent(Joint(cs, ts), <<>>)
        <4>1. CASE TextOf(texts) = <<>>
          <5>1. PICK none \in Seq(ChatMessages) : none = <<>>
            <6>1. <<>> \in Seq(ChatMessages) OBVIOUS
            <6> QED BY <6>1
          <5>2. Joint(cs, none) = cs BY <1>8, <5>1, JointIs
          <5> QED BY <2>1, <4>1, <5>1, <5>2
        <4>2. CASE \E c \in ChatMessages : TextOf(texts) = <<c>> /\ c.calls = <<>>
          <5>1. PICK c \in ChatMessages : TextOf(texts) = <<c>> /\ c.calls = <<>> BY <4>2
          <5>2. Adjacent(Joint(cs, <<c>>), <<>>) BY <1>8, <2>1, <5>1, AdjacentOne
          <5>3. <<c>> \in Seq(ChatMessages) OBVIOUS
          <5> QED BY <5>1, <5>2, <5>3
        <4> QED BY <1>2, <4>1, <4>2, TextOfIs
      <3>6. PICK before \in Seq(ChatMessages) : before = Joint(cs, ts)
        <4>1. Joint(cs, ts) \in Seq(ChatMessages) BY <1>8, JointIs
        <4> QED BY <4>1
      <3>7. PICK made \in Seq(ChatMessages) : made = Mapped(CallChatOf, calls) BY <1>2, CallItemsAre
      <3>8. Joint(cs, ys) = Joint(before, made) BY <1>8, <3>1, <3>5, <3>6, <3>7, JointThree
      <3>9. CASE calls = <<>>
        <4>1. made = <<>> BY <3>7, <3>9 DEF Mapped
        <4>2. Joint(before, made) = before BY <4>1, JointIs
        <4> QED BY <3>5, <3>6, <3>8, <3>9, <4>2
      <3>10. CASE calls # <<>>
        <4>1. PICK n \in Nat : n = Len(calls) /\ DOMAIN calls = 1..n BY <1>2
        <4>2. n = 1
          <5>1. n # 0 BY <1>2, <3>10, <4>1
          <5> QED BY <3>4, <4>1, <5>1
        <4>3. PICK id \in Nat : id = calls[1]
          <5>1. 1 \in DOMAIN calls BY <4>1, <4>2
          <5>2. calls[1] \in Nat BY <1>2, <5>1
          <5> QED BY <5>2
        <4>4. calls = <<id>> BY <1>2, <4>1, <4>2, <4>3
        <4>5. CallChatOf \in [Nat -> ChatMessages] BY <1>2, CallItemsAre
        <4>6. PICK c \in ChatMessages : c = CallChatOf[id] BY <4>5
        <4>7. c = ChatMessage("assistant", <<>>, <<id>>) BY <4>6 DEF CallChatOf
        <4>8. c.calls = calls BY <4>4, <4>7 DEF ChatMessage
        <4>9. made = <<c>> BY <3>7, <4>4, <4>6 DEF Mapped
        <4> QED BY <3>5, <3>6, <3>8, <4>8, <4>9, AdjacentOne
      <3> QED BY <3>9, <3>10
    <2>5. CASE clientApi = "anthropic"
      <3>1. \/ calls = <<>> /\ ys = <<>>
            \/ \E c \in ChatMessages : ys = <<c>> /\ c.role = "assistant" /\ c.calls = calls
        BY <1>1, <1>3, <1>4, <2>5, KeptIs
      <3> QED BY <2>2, <2>3, <3>1
    <2>6. CASE clientApi = "chat"
      <3>1. \E c \in ChatMessages : ys = <<c>> /\ c.role = "assistant" /\ c.calls = calls
        BY <1>1, <1>3, <1>4, <2>6, KeptIs
      <3> QED BY <2>3, <3>1
    <2> QED BY <2>4, <2>5, <2>6 DEF Apis
  <1> QED BY <1>1, <1>3, <1>4, <1>5, <1>6, <1>9, <1>10, SoundOn

-----------------------------------------------------------------------------
(* The request that a sound dialogue makes.                                 *)

LEMMA FollowIs ==
  ASSUME NEW api \in Apis, NEW ms \in Seq(MessagesOf(api)), Followed(AllBlocks(api, ms))
  PROVE  ResultsFollow(ms, api)
  <1>1. PICK all \in Seq(BlockSet(Kinds)) : all = AllBlocks(api, ms) BY AllBlocksIs DEF Apis
  <1>2. FlattenSeq([i \in DOMAIN ms |-> BlocksIn(ms[i], api)]) = all BY <1>1, AllBlocksIs DEF Apis
  <1>3. Followed(all) BY <1>1
  <1>4. DOMAIN all = 1..Len(all) BY <1>1
  <1> QED BY <1>2, <1>3, <1>4 DEF ResultsFollow, Followed

\* A sound chat has its results after their calls.
LEMMA ChatFollows ==
  ASSUME NEW cs \in Seq(ChatMessages), Followed(BlocksOfRoles(Roles, cs))
  PROVE  ResultsFollow(cs, "chat")
  <1>1. MessagesOf("chat") = ChatMessages BY DEF MessagesOf
  <1>2. PICK some : some = RoleIf("chat", Roles) OBVIOUS
  <1>3. some \in [ChatMessages -> Seq(ChatMessages)] /\ OfRoles(Roles, cs) = FlatMap(some, cs)
    <2>1. cs \in Seq(MessagesOf("chat")) BY <1>1
    <2>2. some \in [MessagesOf("chat") -> Seq(MessagesOf("chat"))] BY <1>2, <2>1, OfRolesIs
    <2>3. OfRoles(Roles, cs) = FlatMap(some, cs) BY <1>2, <2>1, OfRolesIs
    <2> QED BY <1>1, <2>2, <2>3
  <1>4. \A c \in ChatMessages : some[c] = <<c>> BY <1>1, <1>2 DEF RoleIf, ChatMessages, Roles
  <1>5. OfRoles(Roles, cs) = cs BY <1>3, <1>4, FlatMapSelf
  <1>6. Followed(AllBlocks("chat", cs)) BY <1>5 DEF BlocksOfRoles
  <1>7. cs \in Seq(MessagesOf("chat")) BY <1>1
  <1> QED BY <1>6, <1>7, FollowIs DEF Apis

\* Instructions, which are no calls, come before all else.
LEMMA AnthropicFollows ==
  ASSUME NEW cs \in Seq(ChatMessages), Followed(BlocksOfRoles(Roles \ {"system"}, cs))
  PROVE  ResultsFollow(AnthropicFromChat(cs), "anthropic")
  <1>1. MessagesOf("chat") = ChatMessages /\ MessagesOf("anthropic") = AnthropicMessages
    BY DEF MessagesOf
  <1>2. PICK each, chatEach : each = BlocksEach("anthropic") /\ chatEach = BlocksEach("chat") OBVIOUS
  <1>3. each \in [AnthropicMessages -> Seq(BlockSet(Kinds))]
    <2>1. each \in [MessagesOf("anthropic") -> Seq(BlockSet(Kinds))] BY <1>2, BlocksEachIs
    <2> QED BY <1>1, <2>1
  <1>4. PICK first \in Seq(AnthropicMessages), second \in Seq(AnthropicMessages) :
          first = SystemPart(cs) /\ second = OtherPart(cs)
    BY AnthropicFromChatIs
  <1>5. PICK all \in Seq(AnthropicMessages) : all = AnthropicFromChat(cs) /\ all = Joint(first, second)
    BY <1>4, AnthropicFromChatIs
  <1>6. PICK systems, rest :
          systems = OfRoles({"system"}, cs) /\ rest = OfRoles(Roles \ {"system"}, cs)
    OBVIOUS
  <1>7. /\ rest \in Seq(Others) /\ FlatMap(PartsEach, systems) \in Seq(BlockSet(Says))
        /\ AnthropicEach \in [Others -> AnthropicMessages]
    BY <1>6, SystemsAreOf
  <1>8. FlatMap(each, second) = FlatMap(chatEach, rest)
    <2>1. PICK after : after = [m \in Others |-> each[AnthropicEach[m]]] OBVIOUS
    <2>2. IsThrough(after, each, AnthropicEach, Others, AnthropicMessages, Seq(BlockSet(Kinds)))
      BY <1>3, <1>7, <2>1, ThroughIs
    <2>3. second = Mapped(AnthropicEach, rest) BY <1>4, <1>6 DEF OtherPart
    <2>4. FlatMap(each, second) = FlatMap(after, rest) BY <1>7, <2>2, <2>3 DEF IsThrough
    <2>5. ASSUME NEW m \in Others PROVE after[m] = chatEach[m]
      <3>1. PICK a \in AnthropicMessages : a = AnthropicOf(m) BY AnthropicOfIs
      <3>2. BlocksIn(a, "anthropic") = BlocksIn(m, "chat") BY <3>1, AnthropicOfIs
      <3>3. m \in ChatMessages BY DEF Others, WithRoles
      <3> QED BY <1>1, <1>2, <2>1, <3>1, <3>2, <3>3 DEF BlocksEach, AnthropicEach
    <2>6. FlatMap(after, rest) = FlatMap(chatEach, rest) BY <1>7, <2>5, FlatMapSame
    <2> QED BY <2>4, <2>6
  <1>9. FlatMap(each, first) \in Seq(BlockSet(Says))
    <2>1. CASE systems = <<>>
      <3>1. FlatMap(each, first) = <<>> BY <1>4, <1>6, <2>1, FlatMapNone DEF SystemPart
      <3>2. <<>> \in Seq(BlockSet(Says)) OBVIOUS
      <3> QED BY <3>1, <3>2
    <2>2. CASE systems # <<>>
      <3>1. PICK bs : bs = FlatMap(PartsEach, systems) OBVIOUS
      <3>2. bs \in Seq(BlockSet(Kinds))
        <4>1. Says \in SUBSET Kinds BY DEF Says, Kinds
        <4> QED BY <1>7, <3>1, <4>1, BlocksAreBlocks
      <3>3. PICK a \in AnthropicMessages : a = AnthropicMessage("system", bs) /\ first = <<a>>
        <4>1. first = <<AnthropicMessage("system", bs)>> BY <1>4, <1>6, <2>2, <3>1 DEF SystemPart
        <4>2. AnthropicMessage("system", bs) \in AnthropicMessages
          BY <1>7, <3>1, <3>2 DEF AnthropicMessage, AnthropicMessages
        <4> QED BY <4>1, <4>2
      <3>4. BlocksIn(a, "anthropic") = bs BY <3>3, AnthropicBlocks DEF AnthropicMessage
      <3>5. FlatMap(each, <<a>>) = each[a] BY <1>3, FlatMapOne
      <3> QED BY <1>1, <1>2, <1>7, <3>1, <3>3, <3>4, <3>5 DEF BlocksEach
    <2> QED BY <2>1, <2>2
  <1>10. PICK texts \in Seq(BlockSet(Says)), others \in Seq(BlockSet(Kinds)) :
           texts = FlatMap(each, first) /\ others = FlatMap(each, second)
    <2>1. FlatMap(each, second) \in Seq(BlockSet(Kinds)) BY <1>3, FlatMapIn
    <2> QED BY <1>9, <2>1
  <1>11. Followed(others)
    <2>1. others = BlocksOfRoles(Roles \ {"system"}, cs)
      BY <1>2, <1>6, <1>8, <1>10 DEF BlocksOfRoles, AllBlocks
    <2> QED BY <2>1
  <1>12. FlatMap(each, all) = Joint(texts, others)
    <2>1. FlatMapAdds(each, AnthropicMessages, BlockSet(Kinds)) BY <1>3, FlatMapIs
    <2>2. FlatMap(each, Joint(first, second)) = Joint(FlatMap(each, first), FlatMap(each, second))
      BY <2>1 DEF FlatMapAdds
    <2> QED BY <1>5, <1>10, <2>2
  <1>13. Followed(AllBlocks("anthropic", all))
    <2>1. Followed(Joint(texts, others)) BY <1>11, FollowedBefore
    <2> QED BY <1>2, <1>12, <2>1 DEF AllBlocks
  <1>14. all \in Seq(MessagesOf("anthropic")) BY <1>1
  <1> QED BY <1>5, <1>13, <1>14, FollowIs DEF Apis

\* The dialogue as a chat says what the client said.
LEMMA ChatsSay ==
  ASSUME NEW api \in Apis, NEW ms \in Seq(MessagesOf(api)), NEW kind \in Kinds, NEW roles \in RoleSets
  PROVE  Said(ChatsOf(api, ms), "chat", kind, roles) = Said(ms, api, kind, roles)
  <1>1. CASE api = "anthropic"
    <2>1. ms \in Seq(AnthropicMessages) /\ ChatsOf(api, ms) = ChatFromAnthropic(ms)
      BY <1>1 DEF MessagesOf, ChatsOf
    <2> QED BY <1>1, <2>1, ChatFromAnthropicSays
  <1>2. CASE api = "chat" BY <1>2 DEF ChatsOf
  <1>3. CASE api = "responses"
    <2>1. ms \in Seq(Items) /\ ChatsOf(api, ms) = ChatFromItems(ms)
      BY <1>3 DEF MessagesOf, ChatsOf
    <2> QED BY <1>3, <2>1, ChatFromItemsSays
  <1> QED BY <1>1, <1>2, <1>3 DEF Apis

\* The request is the dialogue as a chat, converted again for Anthropic.
LEMMA ConvertedIs ==
  ASSUME ApiPairs
  PROVE  /\ clientApi \in Apis /\ providerApi \in {"chat", "anthropic"}
         /\ Converted = IF providerApi = "chat" THEN ChatsOf(clientApi, dialogue)
                        ELSE AnthropicFromChat(ChatsOf(clientApi, dialogue))
  BY DEF ApiPairs, Apis, Converted, ChatsOf

-----------------------------------------------------------------------------
(* The dialogue, turn after turn.                                           *)

\* A dialogue that is sound, and an answer told to the client as it was given.
DialogueInv ==
  /\ ApiPairs /\ blocks \in Nat /\ turn \in {"client", "provider"}
  /\ exchange.got.blocks \in AnswerBlocks
  /\ Told(clientApi, exchange.gave, exchange.got)
  /\ Sound(clientApi, providerApi, dialogue, turn, IdsOf("call", exchange.got.blocks))

\* It holds at first.
LEMMA DialogueInvInit == ConversionInit => DialogueInv
  <1> SUFFICES ASSUME ConversionInit PROVE DialogueInv OBVIOUS
  <1>1. ApiPairs BY DEF ConversionInit, ApiPairs
  <1>2. clientApi \in Apis BY <1>1, ConvertedIs
  <1>3. blocks \in Nat /\ turn = "client" /\ dialogue = <<>> BY DEF ConversionInit
  <1>4. PICK nothing : nothing = [blocks |-> <<>>, reason |-> "none"] OBVIOUS
  <1>5. exchange.gave = nothing /\ exchange.got = nothing BY <1>4 DEF ConversionInit
  <1>6. nothing.blocks = <<>> /\ nothing.reason = "none" BY <1>4
  <1>7. nothing.blocks \in AnswerBlocks
    <2>1. <<>> \in Seq(BlockSet({"text", "call"})) OBVIOUS
    <2> QED BY <1>6, <2>1 DEF AnswerBlocks
  <1>8. IdsOf("call", nothing.blocks) = <<>> BY <1>6, IdsOfNone DEF Kinds
  <1>9. Told(clientApi, nothing, nothing) BY <1>6 DEF Told, SameSaid
  <1>10. Sound(clientApi, providerApi, dialogue, turn, IdsOf("call", nothing.blocks))
    BY <1>2, <1>3, <1>8, SoundAtFirst
  <1> QED BY <1>1, <1>3, <1>5, <1>7, <1>9, <1>10 DEF DialogueInv

\* A text or an image of the client's.
LEMMA SaidIsSaid ==
  ASSUME blocks \in Nat, NEW kind \in {"text", "image"}
  PROVE  <<Block(kind, blocks + 1)>> \in Seq(BlockSet(Says)) /\ <<Block(kind, blocks + 1)>> # <<>>
  <1>1. Block(kind, blocks + 1) \in BlockSet(Says) BY DEF Block, BlockSet, Says
  <1> QED BY <1>1

\* What a step keeps, if the dialogue stays sound.
LEMMA DialogueInvKept ==
  ASSUME DialogueInv, UNCHANGED <<clientApi, providerApi, exchange>>, blocks' \in Nat,
         turn' \in {"client", "provider"},
         Sound(clientApi, providerApi, dialogue', turn', IdsOf("call", exchange.got.blocks))
  PROVE  DialogueInv'
  <1>1. ApiPairs' BY DEF DialogueInv, ApiPairs
  <1>2. exchange'.got.blocks \in AnswerBlocks /\ Told(clientApi', exchange'.gave, exchange'.got)
    BY DEF DialogueInv
  <1>3. Sound(clientApi', providerApi', dialogue', turn', IdsOf("call", exchange'.got.blocks))
    OBVIOUS
  <1> QED BY <1>1, <1>2, <1>3 DEF DialogueInv

\* The client's turn keeps it,
LEMMA SpeakKeeps ==
  ASSUME DialogueInv, Speak
  PROVE  DialogueInv'
  <1>1. PICK ids : ids = IdsOf("call", exchange.got.blocks) OBVIOUS
  <1>2. ids = CallsOf(exchange.got) BY <1>1 DEF IdsOf, CallsOf
  <1>3. /\ clientApi \in Apis /\ blocks \in Nat /\ turn = "client" /\ ids \in Seq(Nat)
        /\ Sound(clientApi, providerApi, dialogue, "client", ids)
    <2>1. ApiPairs /\ blocks \in Nat /\ exchange.got.blocks \in AnswerBlocks BY DEF DialogueInv
    <2>2. clientApi \in Apis BY <2>1, ConvertedIs
    <2>3. turn = "client" BY DEF Speak
    <2>4. Sound(clientApi, providerApi, dialogue, "client", ids) BY <1>1, <2>3 DEF DialogueInv
    <2>5. ids \in Seq(Nat) BY <1>1, <2>1, AnswerIs
    <2> QED BY <2>1, <2>2, <2>3, <2>4, <2>5
  <1>4. turn' = "provider" /\ UNCHANGED <<clientApi, providerApi, exchange>> BY DEF Speak
  <1>5. PICK kind, said :
          /\ kind \in {"text", "image"} /\ said = <<Block(kind, blocks + 1)>>
          /\ \/ /\ ids = <<>> /\ dialogue' = dialogue \o OwnMessage("user", said)
                /\ blocks' = blocks + 1
             \/ /\ ids # <<>> /\ dialogue' = dialogue \o ResultMessages(ids, said)
                /\ blocks' = blocks + 1
             \/ /\ ids # <<>> /\ dialogue' = dialogue \o ResultMessages(ids, <<>>)
                /\ blocks' = blocks
    BY <1>2 DEF Speak
  <1>6. said \in Seq(BlockSet(Says)) /\ said # <<>> BY <1>3, <1>5, SaidIsSaid
  <1>7. blocks' \in Nat BY <1>3, <1>5
  <1>8. Sound(clientApi, providerApi, dialogue', "provider", ids)
    <2>1. CASE ids = <<>> /\ dialogue' = dialogue \o OwnMessage("user", said)
      <3>1. Sound(clientApi, providerApi, Joint(dialogue, OwnMessage("user", said)), "provider", <<>>)
        BY <1>3, <1>6, <2>1, OwnKeeps
      <3> QED BY <2>1, <3>1 DEF Joint
    <2>2. CASE ids # <<>> /\ dialogue' = dialogue \o ResultMessages(ids, said)
      <3>1. Sound(clientApi, providerApi, Joint(dialogue, ResultMessages(ids, said)), "provider", ids)
        BY <1>3, <1>6, <2>2, ResultsKeep
      <3> QED BY <2>2, <3>1 DEF Joint
    <2>3. CASE ids # <<>> /\ dialogue' = dialogue \o ResultMessages(ids, <<>>)
      <3>1. PICK none \in Seq(BlockSet(Says)) : none = <<>>
        <4>1. <<>> \in Seq(BlockSet(Says)) OBVIOUS
        <4> QED BY <4>1
      <3>2. Sound(clientApi, providerApi, Joint(dialogue, ResultMessages(ids, none)), "provider", ids)
        BY <1>3, <2>3, ResultsKeep
      <3> QED BY <2>3, <3>1, <3>2 DEF Joint
    <2> QED BY <1>5, <2>1, <2>2, <2>3
  <1> QED BY <1>1, <1>4, <1>7, <1>8, DialogueInvKept

\* so does an instruction
LEMMA InstructKeeps ==
  ASSUME DialogueInv, Instruct
  PROVE  DialogueInv'
  <1>1. IdsOf("call", exchange.got.blocks) = <<>> BY DEF Instruct, IdsOf, CallsOf
  <1>2. ApiPairs /\ blocks \in Nat /\ turn = "client" BY DEF DialogueInv, Instruct
  <1>3. clientApi \in Apis BY <1>2, ConvertedIs
  <1>4. Sound(clientApi, providerApi, dialogue, "client", <<>>) BY <1>1, <1>2 DEF DialogueInv
  <1>5. PICK said : said = <<Block("text", blocks + 1)>> OBVIOUS
  <1>6. said \in Seq(BlockSet(Says)) /\ said # <<>> BY <1>2, <1>5, SaidIsSaid
  <1>7. /\ dialogue' = Joint(dialogue, OwnMessage("system", said)) /\ blocks' = blocks + 1
        /\ UNCHANGED <<clientApi, providerApi, exchange>> /\ turn' = "client"
    BY <1>2, <1>5 DEF Instruct, Joint
  <1>8. Sound(clientApi, providerApi, Joint(dialogue, OwnMessage("system", said)), "client", <<>>)
    BY <1>3, <1>4, <1>6, OwnKeeps
  <1>9. blocks' \in Nat BY <1>2, <1>7
  <1> QED BY <1>1, <1>7, <1>8, <1>9, DialogueInvKept

\* and the provider's turn.
LEMMA ServeTurnKeeps ==
  ASSUME DialogueInv, ServeTurn
  PROVE  DialogueInv'
  <1>1. ApiPairs /\ blocks \in Nat /\ turn = "provider" BY DEF DialogueInv, ServeTurn
  <1>2. clientApi \in Apis BY <1>1, ConvertedIs
  <1>3. PICK gave, got :
          /\ gave \in Answers /\ got = ConvertedAnswer(gave) /\ exchange' = [gave |-> gave, got |-> got]
          /\ blocks' = blocks + Len(gave.blocks) /\ dialogue' = Joint(dialogue, Kept(got))
    BY DEF ServeTurn, Joint
  <1>4. Speaks(providerApi, gave) BY <1>1, <1>3, AnswersSpeak
  <1>5. got.blocks \in AnswerBlocks /\ Told(clientApi, gave, got) BY <1>1, <1>3, <1>4, ConvertedTold
  <1>6. blocks' \in Nat
    <2>1. gave.blocks \in AnswerBlocks BY <1>4 DEF Speaks
    <2>2. Len(gave.blocks) \in Nat BY <2>1 DEF AnswerBlocks
    <2> QED BY <1>1, <1>3, <2>2
  <1>7. PICK any : Sound(clientApi, providerApi, dialogue, "provider", any)
    BY <1>1 DEF DialogueInv
  <1>8. Sound(clientApi, providerApi, Joint(dialogue, Kept(got)), "client", IdsOf("call", got.blocks))
    BY <1>2, <1>5, <1>7, ServeKeeps
  <1>9. UNCHANGED <<clientApi, providerApi>> /\ turn' = "client" BY DEF ServeTurn
  <1>10. exchange'.gave = gave /\ exchange'.got = got BY <1>3
  <1>11. ApiPairs' BY <1>1, <1>9 DEF ApiPairs
  <1>12. exchange'.got.blocks \in AnswerBlocks /\ Told(clientApi', exchange'.gave, exchange'.got)
    BY <1>5, <1>9, <1>10
  <1>13. Sound(clientApi', providerApi', dialogue', turn', IdsOf("call", exchange'.got.blocks))
    BY <1>3, <1>8, <1>9, <1>10
  <1> QED BY <1>6, <1>9, <1>11, <1>12, <1>13 DEF DialogueInv

\* Every step keeps it.
LEMMA DialogueInvNext == DialogueInv /\ [ConversionNext]_conversionVars => DialogueInv'
  <1> SUFFICES ASSUME DialogueInv, [ConversionNext]_conversionVars PROVE DialogueInv' OBVIOUS
  <1>1. CASE Speak BY <1>1, SpeakKeeps
  <1>2. CASE Instruct BY <1>2, InstructKeeps
  <1>3. CASE ServeTurn BY <1>3, ServeTurnKeeps
  <1>4. CASE UNCHANGED conversionVars
    <2>1. /\ UNCHANGED <<clientApi, providerApi, exchange>> /\ blocks' = blocks /\ turn' = turn
          /\ dialogue' = dialogue
      BY <1>4 DEF conversionVars
    <2>2. /\ blocks \in Nat /\ turn \in {"client", "provider"}
          /\ Sound(clientApi, providerApi, dialogue, turn, IdsOf("call", exchange.got.blocks))
      BY DEF DialogueInv
    <2> QED BY <2>1, <2>2, DialogueInvKept
  <1> QED BY <1>1, <1>2, <1>3, <1>4 DEF ConversionNext

\* A sound dialogue is kept.
LEMMA DialogueInvIsKept == DialogueInv => DialogueKept
  <1> SUFFICES ASSUME DialogueInv PROVE DialogueKept OBVIOUS
  <1>1. ApiPairs /\ dialogue \in Seq(MessagesOf(clientApi)) BY DEF DialogueInv, Sound
  <1>2. clientApi \in Apis /\ providerApi \in {"chat", "anthropic"} BY <1>1, ConvertedIs
  <1>3. PICK cs : cs = ChatsOf(clientApi, dialogue) OBVIOUS
  <1>4. cs \in Seq(ChatMessages)
    <2>1. ChatsAdd(clientApi) BY <1>2, ChatsOfJoint DEF Apis
    <2> QED BY <1>1, <1>3, <2>1 DEF ChatsAdd
  <1>5. Converted = IF providerApi = "chat" THEN cs ELSE AnthropicFromChat(cs)
    BY <1>1, <1>3, ConvertedIs
  <1>6. ASSUME NEW kind \in {"text", "image", "call", "result"},
               NEW roles \in {{"system"}, Roles \ {"system"}}
        PROVE  Said(Converted, providerApi, kind, roles) = Said(dialogue, clientApi, kind, roles)
    <2>1. kind \in Kinds /\ roles \in RoleSets BY DEF Kinds, RoleSets
    <2>2. Said(cs, "chat", kind, roles) = Said(dialogue, clientApi, kind, roles)
      BY <1>1, <1>2, <1>3, <2>1, ChatsSay
    <2>3. Said(AnthropicFromChat(cs), "anthropic", kind, roles) = Said(cs, "chat", kind, roles)
      BY <1>4, <2>1, AnthropicFromChatSays
    <2>4. CASE providerApi = "chat" BY <1>5, <2>2, <2>4
    <2>5. CASE providerApi = "anthropic"
      <3>1. Converted = AnthropicFromChat(cs) BY <1>5, <2>5
      <3> QED BY <2>2, <2>3, <2>5, <3>1
    <2> QED BY <1>2, <2>4, <2>5
  <1>7. ResultsFollow(Converted, providerApi)
    <2>1. \A roles \in Scopes : Followed(BlocksOfRoles(roles, cs)) BY <1>3 DEF DialogueInv, Sound
    <2>2. CASE providerApi = "chat"
      <3>1. Followed(BlocksOfRoles(Roles, cs)) BY <2>1 DEF Scopes
      <3>2. ResultsFollow(cs, "chat") BY <1>4, <3>1, ChatFollows
      <3> QED BY <1>5, <2>2, <3>2
    <2>3. CASE providerApi = "anthropic"
      <3>1. Followed(BlocksOfRoles(Roles \ {"system"}, cs)) BY <2>1 DEF Scopes
      <3>2. ResultsFollow(AnthropicFromChat(cs), "anthropic") BY <1>4, <3>1, AnthropicFollows
      <3>3. Converted = AnthropicFromChat(cs) BY <1>5, <2>3
      <3> QED BY <2>3, <3>2, <3>3
    <2> QED BY <1>2, <2>2, <2>3
  <1>8. ASSUME providerApi = "chat", SeparateResults PROVE ResultsAdjacent(Converted)
    <2>1. Separate(clientApi, dialogue) BY <1>8 DEF Separate, SeparateResults
    <2>2. Adjacent(cs, IF turn = "client" THEN IdsOf("call", exchange.got.blocks) ELSE <<>>)
      BY <1>3, <1>8, <2>1 DEF DialogueInv, Sound
    <2> QED BY <1>5, <1>8, <2>2 DEF Adjacent
  <1>9. PICK gave, got : gave = exchange.gave /\ got = exchange.got OBVIOUS
  <1>10. Told(clientApi, gave, got) BY <1>9 DEF DialogueInv
  <1>11. /\ \A kind \in {"text", "call"} :
              Originals(BlocksOf({kind}, gave.blocks)) = Originals(BlocksOf({kind}, got.blocks))
         /\ gave.reason \in {"tool_calls", "tool_use"} /\ clientApi # "responses" =>
              got.reason \in {"tool_calls", "tool_use"}
         /\ got.reason \in {"tool_calls", "tool_use"} /\ clientApi # "responses" =>
              CallsOf(got) # <<>>
         /\ gave.reason \in {"length", "max_tokens"} /\ clientApi # "responses" =>
              \/ got.reason \in {"length", "max_tokens"}
              \/ clientApi = "chat" /\ got.reason = "tool_calls"
    BY <1>10 DEF Told, SameSaid, IdsOf, CallsOf
  <1> QED BY <1>6, <1>7, <1>8, <1>9, <1>11 DEF DialogueKept

\* Whatever is said, for however long and between whichever protocols, the conversions
\* of normalize.py keep it: every text, image, call and result of the dialogue reaches the
\* provider once and in order, results after their calls (right after them only where
\* SeparateResults holds); the client gets every text and call of the answer; and a client
\* that does not speak Responses is told to run tools when the provider said so, never
\* without a call, and of an answer that was cut that it was, or to run its calls.
THEOREM DialoguesAreKept == ConversionSpec => []DialogueKept
  <1>1. ConversionInit => DialogueInv BY DialogueInvInit
  <1>2. DialogueInv /\ [ConversionNext]_conversionVars => DialogueInv' BY DialogueInvNext
  <1>3. DialogueInv => DialogueKept BY DialogueInvIsKept
  <1> QED BY <1>1, <1>2, <1>3, PTL DEF ConversionSpec

=============================================================================
