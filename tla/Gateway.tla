------------------------------- MODULE Gateway -------------------------------
(***************************************************************************)
(* The request boundary of the gateway (main.py), its concurrency limiter  *)
(* and the router's fallback: a request takes a slot, is admitted by the   *)
(* rate limiter, tries the targets of its route in order, and is answered  *)
(* whole or as a stream, which keeps the slot until it ends.               *)
(*                                                                         *)
(* A step is what runs between two awaits on one event loop.  The server   *)
(* may cancel a request's task at any of them.  The semaphore is that of   *)
(* asyncio in Python 3.12, the version of the images: first come, first    *)
(* served.  A provider call is one step with an outcome; what retries and  *)
(* the breaker make of it is in Resilience.                                *)
(***************************************************************************)
EXTENDS Integers, Sequences, FiniteSets

CONSTANTS
  Requests,
  Limit,    \* settings.max_concurrent_requests, not zero
  Targets   \* the length of a route: a primary and its fallbacks, numbered in order

ASSUME GatewayAssumption ==
  IsFiniteSet(Requests) /\ Limit \in Nat \ {0} /\ Targets \in Nat \ {0}

VARIABLES
  pc,      \* request -> where its task is
  free,    \* the semaphore's value
  queue,   \* those the semaphore may wake, in order of arrival
  active,  \* RequestConcurrencyLimiter._active
  gauge,   \* zeaz_http_requests_in_flight
  target,  \* request -> the target it tries, 0 before the first
  voices,  \* request -> the targets whose output its client has got
  audit    \* request -> the audit lines finalize() has written for it

vars == <<pc, free, queue, active, gauge, target, voices, audit>>

Served   == {"admitted", "calling", "open", "streaming"}
Places   == {"idle", "waiting", "granted", "leaving", "done", "gone", "abandoned"} \cup Served

In(places) == {r \in Requests : pc[r] \in places}

Init ==
  /\ pc = [r \in Requests |-> "idle"] /\ free = Limit /\ queue = <<>> /\ active = 0 /\ gauge = 0
  /\ target = [r \in Requests |-> 0] /\ voices = [r \in Requests |-> {}]
  /\ audit = [r \in Requests |-> 0]

Go(r, place) == pc' = [pc EXCEPT ![r] = place]

-----------------------------------------------------------------------------
(* RequestConcurrencyLimiter.                                               *)

\* asyncio.Semaphore.locked(): also while one that was given a slot has not yet run.
Locked == free = 0 \/ queue # <<>> \/ In({"granted"}) # {}

\* try_acquire() does not return False: it waits for the semaphore.
Arrive(r) ==
  /\ pc[r] = "idle" /\ gauge' = gauge + 1
  /\ \/ /\ ~Locked /\ free' = free - 1
        /\ active' = active + 1 /\ Go(r, "admitted") /\ UNCHANGED queue
     \/ /\ Locked /\ queue' = Append(queue, r)
        /\ Go(r, "waiting") /\ UNCHANGED <<free, active>>
  /\ UNCHANGED <<target, voices, audit>>

First(n) == {queue[i] : i \in 1..n}

\* r goes its way, and the first n waiters are given one each of the slots.
Wake(n, slots, r, place) ==
  /\ free' = slots - n /\ queue' = SubSeq(queue, n + 1, Len(queue))
  /\ pc' = [s \in Requests |-> IF s \in First(n) THEN "granted"
                               ELSE IF s = r THEN place ELSE pc[s]]

\* acquire(), when it is resumed: as many are woken as there are slots.
WakeAll(slots, r, place) ==
  Wake(IF slots <= Len(queue) THEN slots ELSE Len(queue), slots, r, place)

Resume(r) ==
  /\ pc[r] = "granted" /\ active' = active + 1 /\ WakeAll(free, r, "admitted")
  /\ UNCHANGED <<gauge, target, voices, audit>>

\* Mutation: release() counts down and leaves the semaphore alone.
CountDown(r, place) == Go(r, place) /\ UNCHANGED <<free, queue>>

\* Semaphore.release() wakes one, however many slots are free.
Release(r, place) == Wake(IF queue = <<>> THEN 0 ELSE 1, free + 1, r, place)

\* The queue without its i-th waiter.
Without(i) == SubSeq(queue, 1, i - 1) \o SubSeq(queue, i + 1, Len(queue))

\* A waiter's task is cancelled: the semaphore passes it over ...
Withdraw(r) ==
  /\ pc[r] = "waiting" /\ Go(r, "leaving")
  /\ \E i \in 1..Len(queue) : queue[i] = r /\ queue' = Without(i)
  /\ UNCHANGED <<free, active, gauge, target, voices, audit>>

\* ... and CancelledError leaves try_acquire(), which request_boundary calls outside its try:
\* nothing is finalized.  A slot already given is passed on.
GiveUp(r) ==
  /\ \/ pc[r] = "leaving" /\ WakeAll(free, r, "gone")
     \/ pc[r] = "granted" /\ WakeAll(free + 1, r, "gone")
  /\ UNCHANGED <<active, gauge, target, voices, audit>>

-----------------------------------------------------------------------------
(* request_boundary.                                                        *)

\* finalize(): the gauge, the audit line, and release() for a request that has a slot.
Finalize(r) ==
  /\ gauge' = gauge - 1 /\ audit' = [audit EXCEPT ![r] = @ + 1]
  /\ active' = active - 1 /\ Release(r, "done")

\* The rate limiter says no, or cannot be asked.
Deny(r) ==
  /\ pc[r] = "admitted" /\ Finalize(r)
  /\ UNCHANGED <<target, voices>>

Allow(r) ==
  /\ pc[r] = "admitted" /\ Go(r, "calling")
  /\ UNCHANGED <<free, queue, active, gauge, target, voices, audit>>

\* The key, the body, the model or the conversion is refused.
Refuse(r) ==
  /\ pc[r] = "calling" /\ target[r] = 0 /\ Finalize(r)
  /\ UNCHANGED <<target, voices>>

\* ProviderRouter.execute: a target answers, be it too long for the client.
Answer(r) ==
  /\ pc[r] = "calling" /\ target[r] < Targets
  /\ target' = [target EXCEPT ![r] = @ + 1]
  /\ voices' = [voices EXCEPT ![r] = @ \cup {target[r] + 1}]
  /\ Finalize(r)

\* It is not configured, or fails in a way that allows another, while there is another.
FallBack(r) ==
  /\ pc[r] = "calling" /\ target[r] + 1 < Targets
  /\ target' = [target EXCEPT ![r] = @ + 1]
  /\ UNCHANGED <<pc, free, queue, active, gauge, voices, audit>>

\* It fails for good, or was the last.
Fail(r) ==
  /\ pc[r] = "calling" /\ target[r] < Targets
  /\ target' = [target EXCEPT ![r] = @ + 1]
  /\ Finalize(r)
  /\ UNCHANGED voices

\* A stream is answered as soon as its first target is being asked, in a task of its own.
Open(r) ==
  /\ pc[r] = "calling" /\ target[r] = 0 /\ Go(r, "open")
  /\ target' = [target EXCEPT ![r] = 1]
  /\ UNCHANGED <<free, queue, active, gauge, voices, audit>>

\* The server begins to read limited_body().
Stream(r) ==
  /\ pc[r] = "open" /\ Go(r, "streaming")
  /\ UNCHANGED <<free, queue, active, gauge, target, voices, audit>>

Chunk(r) ==
  /\ pc[r] = "streaming"
  /\ voices' = [voices EXCEPT ![r] = @ \cup {target[r]}]
  /\ UNCHANGED <<pc, free, queue, active, gauge, target, audit>>

\* Mutation: what was emitted is forgotten.
MayFallBackAnyTime(r) == target[r] < Targets

MayFallBack(r) == target[r] < Targets /\ voices[r] = {}

\* ProviderRouter.stream: the next target, as long as nothing was emitted.
StreamFallBack(r) ==
  /\ pc[r] \in {"open", "streaming"} /\ MayFallBack(r)
  /\ target' = [target EXCEPT ![r] = @ + 1]
  /\ UNCHANGED <<pc, free, queue, active, gauge, voices, audit>>

\* limited_body() comes to its end, by exhaustion, error, length or disconnection.
StreamEnd(r) ==
  /\ pc[r] = "streaming" /\ Finalize(r)
  /\ UNCHANGED <<target, voices>>

\* Mutation: release() is left out on the way of an exception.
CancelKeeping(r) ==
  /\ pc[r] \in {"admitted", "calling"} /\ Go(r, "done")
  /\ gauge' = gauge - 1 /\ audit' = [audit EXCEPT ![r] = @ + 1]
  /\ UNCHANGED <<free, queue, active, target, voices>>

\* The task is cancelled in the rate limiter or the handler.
Cancel(r) ==
  /\ pc[r] \in {"admitted", "calling"} /\ Finalize(r)
  /\ UNCHANGED <<target, voices>>

\* Cancelled before limited_body() has been started: its finally never runs.
Abandon(r) ==
  /\ pc[r] = "open" /\ Go(r, "abandoned")
  /\ UNCHANGED <<free, queue, active, gauge, target, voices, audit>>

-----------------------------------------------------------------------------
Serve(r) == \/ Deny(r) \/ Allow(r) \/ Refuse(r) \/ Answer(r) \/ FallBack(r) \/ Fail(r)
            \/ Open(r) \/ Stream(r) \/ StreamFallBack(r) \/ StreamEnd(r)

Next == \E r \in Requests : \/ Arrive(r) \/ Resume(r) \/ Serve(r) \/ Chunk(r)
                            \/ Withdraw(r) \/ GiveUp(r) \/ Cancel(r) \/ Abandon(r)

\* The loop runs whoever was given a slot.  Nothing else is owed: request.stream() has no
\* timeout, and a client that sends no body, or reads no answer, holds its slot for as long.
Fairness == \A r \in Requests : WF_vars(Resume(r))

Spec == Init /\ [][Next]_vars
FairSpec == Spec /\ Fairness

-----------------------------------------------------------------------------
(* Properties.                                                              *)

\* However requests end, are denied, are cancelled or are cut off, a slot is with the semaphore,
\* with a request, on its way to one, or lost with a stream that was never started; the counter
\* agrees; nobody waits beside a free slot, unless one that was given a slot is about to run and
\* to wake the next; the in-flight gauge counts those who came and were not finalized, also those
\* who gave up; and each finalized request has its one audit line.
SlotsAccounted ==
  /\ free + Cardinality(In(Served \cup {"granted", "abandoned"})) = Limit
  /\ active = Cardinality(In(Served \cup {"abandoned"}))
  /\ free > 0 /\ queue # <<>> => In({"granted"}) # {}
  /\ gauge = Cardinality(Requests \ In({"idle", "done"}))
  /\ \A r \in Requests : audit[r] = IF pc[r] = "done" THEN 1 ELSE 0

\* A client never gets output of two targets, and the router asks no other once there is some.
OneVoice ==
  [][\A r \in Requests : /\ Cardinality(voices'[r]) <= 1
                         /\ voices[r] # {} => target'[r] = target[r]]_vars

\* If no request keeps its slot for ever, which is up to clients and providers, whoever waits
\* is admitted or gives up: none is passed over for good by release(), by those that give up
\* with a slot in hand, or by newcomers.  A slot lost with a stream never started excuses it.
SlotsComeBack == \A r \in Requests : []<>(pc[r] \notin Served)

WaitersServed ==
  SlotsComeBack => \A r \in Requests : []<>(pc[r] # "waiting" \/ In({"abandoned"}) # {})

-----------------------------------------------------------------------------
(* Claims of the documentation that the code does not meet.                 *)

\* README.md:329-330, "Admission is fail-fast: excess requests receive a sanitized 503",
\* and tests/test_limits.py:11: nobody waits for a slot.  try_acquire awaits the semaphore.
FailFast == In({"waiting"}) = {}
=============================================================================
