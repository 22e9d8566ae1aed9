----------------------------- MODULE Resilience -----------------------------
(***************************************************************************)
(* ResilienceExecutor and CircuitBreaker of zeaz_provider: the concurrent  *)
(* calls made to one provider and the breaker they share.  A call suspends *)
(* while it waits for the provider and while it sleeps before a retry; the *)
(* breaker is consulted before each attempt and told of its end, so a call *)
(* may speak to a breaker that has changed since the call last saw it.     *)
(*                                                                         *)
(* Time is what is left of it: of a call's total deadline, of its delay,   *)
(* and of the reset timeout of an open breaker.  The event loop serves a   *)
(* deadline before time moves on, but may wake a sleeper late.             *)
(***************************************************************************)
EXTENDS Integers

CONSTANTS
  Calls,             \* the concurrent callers of the provider
  MaxAttempts,       \* policy.max_attempts
  FailureThreshold,  \* policy.failure_threshold
  TotalTimeout,      \* policy.total_timeout_seconds
  ResetTimeout,      \* policy.reset_timeout_seconds
  MaxDelay           \* the longest back-off or Retry-After

ASSUME ResilienceAssumption ==
  /\ MaxAttempts \in Nat \ {0} /\ FailureThreshold \in Nat \ {0}
  /\ TotalTimeout \in Nat \ {0} /\ ResetTimeout \in Nat /\ MaxDelay \in Nat

VARIABLES
  state,     \* _state
  failures,  \* _failures, counted up to FailureThreshold
  cooldown,  \* what is left of reset_timeout_seconds since _opened_at
  probing,   \* _probe_in_flight
  probes,    \* history: the calls a breaker that is not closed let through since it opened
  call       \* the frame of each ResilienceExecutor.call

breaker == <<state, failures, cooldown, probing, probes>>
vars == <<breaker, call>>

Pcs == {"idle", "attempt", "calling", "sleeping", "cancelled"}

Frame == [pc : Pcs, attempts : 0..MaxAttempts, left : 0..TotalTimeout, delay : 0..MaxDelay]

IdleFrame == [pc |-> "idle", attempts |-> 0, left |-> 0, delay |-> 0]

BreakerOK ==
  /\ state \in {"closed", "open", "half_open"} /\ failures \in 0..FailureThreshold
  /\ cooldown \in 0..ResetTimeout /\ probing \in BOOLEAN /\ probes \subseteq Calls

FramesOK == call \in [Calls -> Frame]

\* Every field has its type: no call makes more attempts than its policy allows,
\* and no delay or deadline is overrun.
TypeOK == BreakerOK /\ FramesOK

Init ==
  /\ state = "closed" /\ failures = 0 /\ cooldown = 0 /\ probing = FALSE /\ probes = {}
  /\ call = [c \in Calls |-> IdleFrame]

Calling(c) == call[c].pc = "calling"

-----------------------------------------------------------------------------
(* CircuitBreaker.  That a probe is in flight while the state is open, for  *)
(* which before_call has a branch, cannot happen (BreakerConsistent).       *)

\* Mutation: only an open breaker refuses.
BlockedWhileOpen == state = "open" /\ cooldown > 0

Blocked ==
  \/ state = "half_open" /\ probing
  \/ state = "open" /\ cooldown > 0

BeforeCall(c) ==
  /\ ~Blocked
  /\ IF state = "open" THEN state' = "half_open" /\ probing' = TRUE
                       ELSE UNCHANGED <<state, probing>>
  /\ probes' = IF state = "closed" THEN probes ELSE probes \cup {c}
  /\ UNCHANGED <<failures, cooldown>>

\* The opening time no longer matters once the breaker is closed.
Success ==
  /\ state' = "closed" /\ failures' = 0 /\ cooldown' = 0 /\ probing' = FALSE /\ probes' = {}

Count == IF failures < FailureThreshold THEN failures + 1 ELSE failures

Failure ==
  /\ failures' = Count /\ probing' = FALSE
  /\ IF state = "half_open" \/ failures + 1 >= FailureThreshold
       THEN state' = "open" /\ cooldown' = ResetTimeout /\ probes' = {}
       ELSE UNCHANGED <<state, cooldown, probes>>

-----------------------------------------------------------------------------
(* ResilienceExecutor.call.                                                 *)

Frames(c, frame) == call' = [call EXCEPT ![c] = frame]
End(c) == Frames(c, IdleFrame)

Begin(c) ==
  /\ call[c].pc = "idle"
  /\ Frames(c, [pc |-> "attempt", attempts |-> 0, left |-> TotalTimeout, delay |-> 0])
  /\ UNCHANGED breaker

\* The top of the loop: no time left, the breaker refuses, or the operation
\* starts.  There is no await before the operation's own.
Attempt(c) ==
  /\ call[c].pc = "attempt"
  /\ \/ call[c].left = 0 /\ End(c) /\ UNCHANGED breaker
     \/ call[c].left > 0 /\ Blocked /\ End(c) /\ UNCHANGED breaker
     \/ /\ call[c].left > 0 /\ BeforeCall(c)
        /\ Frames(c, [pc |-> "calling", attempts |-> call[c].attempts + 1,
                      left |-> call[c].left, delay |-> 0])

Returned(c) == Calling(c) /\ Success /\ End(c)

\* asyncio.timeout fires.
TimedOut(c) == Calling(c) /\ call[c].left = 0 /\ Failure /\ End(c)

\* Mutation: a failure that is not the provider's fault tells the breaker nothing.
PermanentUnheard == UNCHANGED breaker

\* A ProviderError without circuit_failure: the provider answered.
Permanent == IF state = "half_open" THEN Success ELSE UNCHANGED breaker

Refused(c) == Calling(c) /\ Permanent /\ End(c)

AttemptIsLeft(c) == call[c].attempts < MaxAttempts

\* A ProviderError that is the provider's fault (every retryable one is): retried
\* when attempts are left and the delay ends before the deadline does.
Failed(c) ==
  /\ Calling(c) /\ Failure
  /\ \/ End(c)
     \/ /\ AttemptIsLeft(c)
        /\ \E delay \in 0..MaxDelay :
             /\ delay < call[c].left
             /\ Frames(c, [pc |-> "sleeping", attempts |-> call[c].attempts,
                           left |-> call[c].left, delay |-> delay])

Wake(c) ==
  /\ call[c].pc = "sleeping" /\ call[c].delay = 0
  /\ Frames(c, [pc |-> "attempt", attempts |-> call[c].attempts, left |-> call[c].left,
                delay |-> 0])
  /\ UNCHANGED breaker

\* CancelledError, like an exception of another kind than the two caught, passes
\* through call() without a word to the breaker.  Whoever is cancelled stays so.
Cancel(c) ==
  /\ call[c].pc \in {"calling", "sleeping"}
  /\ Frames(c, [pc |-> "cancelled", attempts |-> 0, left |-> 0, delay |-> 0])
  /\ UNCHANGED breaker

Less(n) == IF n = 0 THEN 0 ELSE n - 1

Tick ==
  /\ \A c \in Calls : call[c].pc # "attempt" /\ (Calling(c) => call[c].left > 0)
  /\ \/ cooldown > 0
     \/ \E c \in Calls : call[c].pc \in {"calling", "sleeping"}
  /\ cooldown' = Less(cooldown)
  /\ call' = [c \in Calls |-> [pc |-> call[c].pc, attempts |-> call[c].attempts,
                left |-> Less(call[c].left), delay |-> Less(call[c].delay)]]
  /\ UNCHANGED <<state, failures, probing, probes>>

Step(c) == Attempt(c) \/ Returned(c) \/ TimedOut(c) \/ Refused(c) \/ Failed(c) \/ Wake(c)

Next == Tick \/ \E c \in Calls : Begin(c) \/ Step(c) \/ Cancel(c)

Spec == Init /\ [][Next]_vars

\* Time passes, and the event loop serves every call that can go on.
FairSpec == Spec /\ WF_vars(Tick) /\ \A c \in Calls : WF_vars(Step(c))

-----------------------------------------------------------------------------
(* Properties.                                                              *)

ClosedBelowThreshold == state = "closed" <=> failures < FailureThreshold
ProbingIsHalfOpen == probing <=> state = "half_open"
CoolingIsOpen == state # "open" => cooldown = 0

\* The four fields of the breaker agree whichever calls report to it in which
\* order: it is closed exactly while fewer failures than the threshold are
\* counted, and half open exactly while a probe is said to be in flight.
BreakerConsistent == ClosedBelowThreshold /\ ProbingIsHalfOpen /\ CoolingIsOpen

\* A call that is about to make an attempt, now or after a delay, has one left.
AttemptsLeft == \A c \in Calls : call[c].pc \in {"attempt", "sleeping"} => call[c].attempts < MaxAttempts

Cancelled(c) == call[c].pc = "cancelled"

\* However calls overlap, a half-open breaker has let one through since it last opened, and that
\* one is with the provider still, or was cancelled there.  Calls that outlive the reset timeout,
\* as they may by default, are with the provider too: the failure of one of them, or of an earlier
\* probe among them, opens the breaker again, and the wait for the next probe begins anew.
OneProbe == state = "half_open" => \E c \in Calls : probes = {c} /\ (Calling(c) \/ Cancelled(c))

\* What makes OneProbe inductive: a breaker that is closed or open has let no probe through.
NoEarlyProbe == state # "half_open" => probes = {}

\* The inductive invariant: every operation of the breaker and of its callers keeps it.
Inductive == TypeOK /\ BreakerConsistent /\ AttemptsLeft /\ NoEarlyProbe /\ OneProbe

\* A half-open breaker comes to a decision, unless its probe is cancelled.
ProbeEnds ==
  state = "half_open" ~> state # "half_open" \/ \E c \in probes : Cancelled(c)

-----------------------------------------------------------------------------
(* What the error message of before_call says and the code does not keep.   *)

\* "Provider circuit probe is already in progress", the reason given for refusing
\* a call, is true: some call is making the probe.
RefusedForAProbe == probing => \E c \in probes : Calling(c)
=============================================================================
