-------------------------- MODULE ResilienceProofs --------------------------
(***************************************************************************)
(* What the breaker and its callers keep, for every number of callers and  *)
(* every policy.                                                           *)
(***************************************************************************)
EXTENDS Resilience, TLAPS

USE ResilienceAssumption

-----------------------------------------------------------------------------
(* The breaker alone: what each of its operations leaves behind.            *)

\* succeeded() leaves a closed and consistent breaker.
LEMMA SuccessBreaker ==
  ASSUME Success
  PROVE  BreakerOK' /\ BreakerConsistent' /\ state' = "closed" /\ probes' = {}
  <1>1. state' = "closed" /\ failures' = 0 /\ cooldown' = 0 BY DEF Success
  <1>2. probing' \in BOOLEAN /\ ~probing' /\ probes' = {} BY DEF Success
  <1>3. ClosedBelowThreshold' /\ CoolingIsOpen' BY <1>1 DEF ClosedBelowThreshold, CoolingIsOpen
  <1>4. ProbingIsHalfOpen' BY <1>1, <1>2 DEF ProbingIsHalfOpen
  <1>5. 0 \in 0..FailureThreshold /\ 0 \in 0..ResetTimeout OBVIOUS
  <1>6. BreakerOK' BY <1>1, <1>2, <1>5 DEF BreakerOK
  <1> QED BY <1>1, <1>2, <1>3, <1>4, <1>6 DEF BreakerConsistent

\* failed() leaves a consistent breaker without a probe, closed or open.
LEMMA FailureBreaker ==
  ASSUME BreakerOK, BreakerConsistent, Failure
  PROVE  /\ BreakerOK' /\ BreakerConsistent' /\ probing' = FALSE
         /\ state' \in {"closed", "open"}
         /\ probes' = {} \/ (state # "half_open" /\ probes' = probes)
  <1>1. /\ state \in {"closed", "open", "half_open"} /\ failures \in 0..FailureThreshold
        /\ cooldown \in 0..ResetTimeout /\ probes \subseteq Calls
    BY DEF BreakerOK
  <1>2. ClosedBelowThreshold /\ CoolingIsOpen BY DEF BreakerConsistent
  <1>3. probing' = FALSE BY DEF Failure
  <1>4. \/ /\ state' = "open" /\ cooldown' = ResetTimeout /\ probes' = {}
           /\ state = "half_open" \/ failures + 1 >= FailureThreshold
        \/ /\ state' = state /\ cooldown' = cooldown /\ probes' = probes
           /\ state # "half_open" /\ ~(failures + 1 >= FailureThreshold)
    BY DEF Failure
  <1>5. failures' = Count BY DEF Failure
  <1>6. failures' \in 0..FailureThreshold BY <1>1, <1>5 DEF Count
  <1>7. /\ state' \in {"closed", "open"} /\ probes' \subseteq Calls
        /\ probes' = {} \/ (state # "half_open" /\ probes' = probes)
    BY <1>1, <1>2, <1>4 DEF ClosedBelowThreshold
  <1>8. ClosedBelowThreshold' /\ CoolingIsOpen'
    BY <1>1, <1>2, <1>4, <1>5 DEF Count, ClosedBelowThreshold, CoolingIsOpen
  <1>9. ProbingIsHalfOpen' BY <1>3, <1>7 DEF ProbingIsHalfOpen
  <1>10. cooldown' \in 0..ResetTimeout BY <1>1, <1>4
  <1>11. BreakerOK' BY <1>3, <1>6, <1>7, <1>10 DEF BreakerOK
  <1> QED BY <1>3, <1>7, <1>8, <1>9, <1>11 DEF BreakerConsistent

\* before_call() leaves a consistent breaker, half open if the call is its probe.
LEMMA BeforeCallBreaker ==
  ASSUME BreakerOK, BreakerConsistent, NEW c \in Calls, BeforeCall(c)
  PROVE  /\ BreakerOK' /\ BreakerConsistent'
         /\ state = "open" => state' = "half_open" /\ probes' = probes \cup {c}
         /\ state # "open" => state = "closed" /\ state' = "closed" /\ probes' = probes
  <1>1. /\ probes \subseteq Calls
        /\ state \in {"closed", "open", "half_open"} /\ failures \in 0..FailureThreshold
        /\ cooldown \in 0..ResetTimeout /\ probing \in BOOLEAN
    BY DEF BreakerOK
  <1>2. ClosedBelowThreshold /\ ProbingIsHalfOpen /\ CoolingIsOpen BY DEF BreakerConsistent
  <1>3. failures' = failures /\ cooldown' = cooldown /\ ~Blocked BY DEF BeforeCall
  <1>4. CASE state = "open"
    <2>1. state' = "half_open" /\ probing' = TRUE /\ probes' = probes \cup {c}
      BY <1>4 DEF BeforeCall
    <2>2. cooldown = 0 BY <1>1, <1>3, <1>4 DEF Blocked
    <2>3. ClosedBelowThreshold' /\ CoolingIsOpen'
      BY <1>2, <1>3, <1>4, <2>1, <2>2 DEF ClosedBelowThreshold, CoolingIsOpen
    <2>4. ProbingIsHalfOpen' /\ BreakerOK'
      BY <1>1, <1>3, <2>1 DEF ProbingIsHalfOpen, BreakerOK
    <2> QED BY <1>4, <2>1, <2>2, <2>3, <2>4 DEF BreakerConsistent
  <1>5. CASE state # "open"
    <2>1. state' = state /\ probing' = probing BY <1>5 DEF BeforeCall
    <2>2. state # "half_open" BY <1>2, <1>3 DEF Blocked, ProbingIsHalfOpen
    <2>3. state = "closed" BY <1>1, <1>5, <2>2
    <2>4. probes' = probes BY <2>3 DEF BeforeCall
    <2>5. BreakerOK' /\ ProbingIsHalfOpen' BY <1>1, <1>2, <1>3, <2>1, <2>4 DEF BreakerOK, ProbingIsHalfOpen
    <2>6. ClosedBelowThreshold' /\ CoolingIsOpen'
      BY <1>2, <1>3, <2>1 DEF ClosedBelowThreshold, CoolingIsOpen
    <2> QED BY <1>5, <2>1, <2>3, <2>4, <2>5, <2>6 DEF BreakerConsistent
  <1> QED BY <1>4, <1>5

\* A step that leaves the breaker alone leaves it consistent.
LEMMA SameBreaker ==
  ASSUME BreakerOK, BreakerConsistent, UNCHANGED breaker
  PROVE  BreakerOK' /\ BreakerConsistent'
  <1>1. /\ state' = state /\ failures' = failures /\ cooldown' = cooldown /\ probing' = probing
        /\ probes' = probes
    BY DEF breaker
  <1>2. BreakerOK' BY <1>1 DEF BreakerOK
  <1>3. ClosedBelowThreshold' /\ ProbingIsHalfOpen' /\ CoolingIsOpen'
    BY <1>1 DEF BreakerConsistent, ClosedBelowThreshold, ProbingIsHalfOpen, CoolingIsOpen
  <1> QED BY <1>2, <1>3 DEF BreakerConsistent

\* A failure that is not one of the provider leaves a consistent breaker.
LEMMA PermanentBreaker ==
  ASSUME BreakerOK, BreakerConsistent, Permanent
  PROVE  /\ BreakerOK' /\ BreakerConsistent' /\ state' # "half_open"
         /\ probes' = {} \/ (state # "half_open" /\ probes' = probes)
  <1>1. CASE state = "half_open"
    <2>1. Success BY <1>1 DEF Permanent
    <2> QED BY <2>1, SuccessBreaker
  <1>2. CASE state # "half_open"
    <2>1. UNCHANGED breaker BY <1>2 DEF Permanent
    <2>2. BreakerOK' /\ BreakerConsistent' BY <2>1, SameBreaker
    <2>3. state' = state /\ probes' = probes BY <2>1 DEF breaker
    <2> QED BY <1>2, <2>2, <2>3
  <1> QED BY <1>1, <1>2

\* Time shortens the cooldown and leaves the breaker consistent.
LEMMA TickBreaker ==
  ASSUME BreakerOK, BreakerConsistent, Tick
  PROVE  BreakerOK' /\ BreakerConsistent'
  <1>1. /\ state' = state /\ failures' = failures /\ probing' = probing /\ probes' = probes
        /\ cooldown' = Less(cooldown)
    BY DEF Tick
  <1>2. cooldown \in 0..ResetTimeout BY DEF BreakerOK
  <1>3. Less(cooldown) \in 0..ResetTimeout /\ (cooldown = 0 => Less(cooldown) = 0)
    BY <1>2 DEF Less
  <1>4. BreakerOK' BY <1>1, <1>3 DEF BreakerOK
  <1>5. ClosedBelowThreshold' /\ ProbingIsHalfOpen'
    BY <1>1 DEF BreakerConsistent, ClosedBelowThreshold, ProbingIsHalfOpen
  <1>6. CoolingIsOpen' BY <1>1, <1>3 DEF BreakerConsistent, CoolingIsOpen
  <1> QED BY <1>4, <1>5, <1>6 DEF BreakerConsistent

-----------------------------------------------------------------------------
(* The frames of the calls.                                                 *)

\* Writing one frame leaves the others alone.
LEMMA OneFrame ==
  ASSUME FramesOK, NEW c \in Calls, NEW f \in Frame, Frames(c, f)
  PROVE  /\ FramesOK' /\ call'[c] = f
         /\ \A d \in Calls : d # c => call'[d] = call[d]
  BY DEF FramesOK, Frames

\* The frame of a caller at rest is well typed.
LEMMA IdleIsFrame == IdleFrame \in Frame
  BY DEF IdleFrame, Frame, Pcs

\* A call that is over leaves well-typed frames, and its own at rest.
LEMMA EndFrame ==
  ASSUME FramesOK, NEW c \in Calls, End(c)
  PROVE  /\ FramesOK' /\ call'[c].pc = "idle"
         /\ \A d \in Calls : d # c => call'[d] = call[d]
  <1>1. IdleFrame \in Frame /\ Frames(c, IdleFrame) BY IdleIsFrame DEF End
  <1>2. FramesOK' /\ call'[c] = IdleFrame /\ \A d \in Calls : d # c => call'[d] = call[d]
    BY <1>1, OneFrame
  <1> QED BY <1>2 DEF IdleFrame

\* Time passes for every call, and leaves each where it is.
LEMMA TickFrame ==
  ASSUME FramesOK, Tick
  PROVE  FramesOK' /\ \A d \in Calls : call'[d].pc = call[d].pc
  <1> DEFINE f(d) == [pc |-> call[d].pc, attempts |-> call[d].attempts,
                      left |-> Less(call[d].left), delay |-> Less(call[d].delay)]
  <1>1. call' = [d \in Calls |-> f(d)] BY DEF Tick
  <1>2. ASSUME NEW d \in Calls
        PROVE  f(d) \in Frame /\ call'[d] = f(d) /\ f(d).pc = call[d].pc
    <2>1. call[d] \in Frame BY DEF FramesOK
    <2>2. /\ call[d].pc \in Pcs /\ call[d].attempts \in 0..MaxAttempts
          /\ call[d].left \in 0..TotalTimeout /\ call[d].delay \in 0..MaxDelay
      BY <2>1 DEF Frame
    <2>3. Less(call[d].left) \in 0..TotalTimeout /\ Less(call[d].delay) \in 0..MaxDelay
      BY <2>2 DEF Less
    <2>4. f(d) \in Frame BY <2>2, <2>3 DEF Frame
    <2> QED BY <1>1, <2>4
  <1>3. FramesOK' BY <1>1, <1>2 DEF FramesOK
  <1> HIDE DEF f
  <1> QED BY <1>2, <1>3

-----------------------------------------------------------------------------
(* The inductive invariant.                                                 *)

\* Only a call that is newly between attempts has to be looked at.
LEMMA OneAttempt ==
  ASSUME AttemptsLeft, NEW c \in Calls, \A d \in Calls : d # c => call'[d] = call[d],
         call'[c].pc \in {"attempt", "sleeping"} => call'[c].attempts < MaxAttempts
  PROVE  AttemptsLeft'
  BY DEF AttemptsLeft

\* A breaker that is not half open after a step, and had let nobody through, has no probe.
LEMMA NoProbe ==
  ASSUME NoEarlyProbe, state' # "half_open",
         probes' = {} \/ (state # "half_open" /\ probes' = probes)
  PROVE  NoEarlyProbe' /\ OneProbe'
  BY DEF NoEarlyProbe, OneProbe

\* A step of a call that is not the probe, and not at the breaker, leaves the probe as it was.
LEMMA ProbeKept ==
  ASSUME NoEarlyProbe, OneProbe, UNCHANGED breaker,
         \A d \in Calls : Calling(d) \/ Cancelled(d) => (Calling(d) \/ Cancelled(d))'
  PROVE  NoEarlyProbe' /\ OneProbe'
  <1>1. state' = state /\ probes' = probes BY DEF breaker
  <1>2. NoEarlyProbe' BY <1>1 DEF NoEarlyProbe
  <1>3. ASSUME state = "half_open"
        PROVE  \E d \in Calls : probes' = {d} /\ (Calling(d) \/ Cancelled(d))'
    <2>1. PICK d \in Calls : probes = {d} /\ (Calling(d) \/ Cancelled(d)) BY <1>3 DEF OneProbe
    <2>2. probes' = {d} /\ (Calling(d) \/ Cancelled(d))' BY <1>1, <2>1
    <2> QED BY <2>2
  <1> QED BY <1>1, <1>2, <1>3 DEF OneProbe

\* When one call that is not with the provider takes a step, those who are stay there.
LEMMA OthersStay ==
  ASSUME NEW c \in Calls, ~Calling(c), ~Cancelled(c), \A d \in Calls : d # c => call'[d] = call[d]
  PROVE  \A d \in Calls : Calling(d) \/ Cancelled(d) => (Calling(d) \/ Cancelled(d))'
  BY DEF Calling, Cancelled

\* A new executor satisfies the invariant.
LEMMA InitInv == Init => Inductive
  <1> SUFFICES ASSUME Init PROVE Inductive OBVIOUS
  <1>1. state = "closed" /\ failures = 0 /\ cooldown = 0 /\ probing = FALSE /\ probes = {}
    BY DEF Init
  <1>2. BreakerOK
    <2>1. 0 \in 0..FailureThreshold /\ 0 \in 0..ResetTimeout OBVIOUS
    <2>2. probing \in BOOLEAN BY <1>1
    <2> QED BY <1>1, <2>1, <2>2 DEF BreakerOK
  <1>3. \A c \in Calls : IdleFrame \in Frame BY IdleIsFrame
  <1>4. FramesOK BY <1>3 DEF Init, FramesOK
  <1>5. AttemptsLeft BY DEF Init, AttemptsLeft, IdleFrame
  <1>6. ClosedBelowThreshold /\ CoolingIsOpen BY <1>1 DEF ClosedBelowThreshold, CoolingIsOpen
  <1>7. ProbingIsHalfOpen BY <1>1 DEF ProbingIsHalfOpen
  <1>8. NoEarlyProbe /\ OneProbe BY <1>1 DEF NoEarlyProbe, OneProbe
  <1> QED BY <1>2, <1>4, <1>5, <1>6, <1>7, <1>8 DEF Inductive, TypeOK, BreakerConsistent

\* The end of a call keeps the frames in order, and the others as they were.
LEMMA EndFacts ==
  ASSUME Inductive, NEW c \in Calls, End(c)
  PROVE  FramesOK' /\ AttemptsLeft' /\ \A d \in Calls : d # c => call'[d] = call[d]
  <1>1. /\ FramesOK' /\ call'[c].pc = "idle"
        /\ \A d \in Calls : d # c => call'[d] = call[d]
    BY EndFrame DEF Inductive, TypeOK
  <1>2. AttemptsLeft' BY <1>1, OneAttempt DEF Inductive
  <1> QED BY <1>1, <1>2

\* A frame that begins, goes from the provider to sleep, or from sleep to the next attempt.
LEMMA PauseFrame ==
  ASSUME Inductive, NEW c \in Calls, NEW pc \in {"attempt", "sleeping"},
         NEW attempts \in 0..MaxAttempts, NEW left \in 0..TotalTimeout, NEW delay \in 0..MaxDelay,
         attempts < MaxAttempts,
         Frames(c, [pc |-> pc, attempts |-> attempts, left |-> left, delay |-> delay])
  PROVE  FramesOK' /\ AttemptsLeft' /\ \A d \in Calls : d # c => call'[d] = call[d]
  <1> DEFINE f == [pc |-> pc, attempts |-> attempts, left |-> left, delay |-> delay]
  <1>1. f \in Frame BY DEF Frame, Pcs
  <1>2. Frames(c, f) OBVIOUS
  <1>3. f.attempts < MaxAttempts OBVIOUS
  <1> HIDE DEF f
  <1>4. FramesOK' /\ call'[c] = f /\ \A d \in Calls : d # c => call'[d] = call[d]
    BY <1>1, <1>2, OneFrame DEF Inductive, TypeOK
  <1>5. AttemptsLeft' BY <1>3, <1>4, OneAttempt DEF Inductive
  <1> QED BY <1>4, <1>5

\* What is left to a call.
LEMMA FrameOf ==
  ASSUME Inductive, NEW c \in Calls
  PROVE  call[c].attempts \in 0..MaxAttempts /\ call[c].left \in 0..TotalTimeout
  <1>1. call[c] \in Frame BY DEF Inductive, TypeOK, FramesOK
  <1> QED BY <1>1 DEF Frame

\* A step that tells the breaker nothing, by a call that is not with the provider.
LEMMA QuietInv ==
  ASSUME Inductive, NEW c \in Calls, call[c].pc \in {"idle", "attempt", "sleeping"},
         FramesOK', AttemptsLeft', \A d \in Calls : d # c => call'[d] = call[d], UNCHANGED breaker
  PROVE  Inductive'
  <1>1. ~Calling(c) /\ ~Cancelled(c) BY DEF Calling, Cancelled
  <1>2. NoEarlyProbe' /\ OneProbe' BY <1>1, OthersStay, ProbeKept DEF Inductive
  <1>3. BreakerOK' /\ BreakerConsistent' BY SameBreaker DEF Inductive, TypeOK
  <1> QED BY <1>2, <1>3 DEF Inductive, TypeOK

\* A call that enters keeps the invariant.
LEMMA BeginInv == ASSUME Inductive, NEW c \in Calls, Begin(c) PROVE Inductive'
  <1>1. /\ call[c].pc = "idle" /\ UNCHANGED breaker
        /\ Frames(c, [pc |-> "attempt", attempts |-> 0, left |-> TotalTimeout, delay |-> 0])
    BY DEF Begin
  <1>2. 0 \in 0..MaxAttempts /\ 0 < MaxAttempts /\ TotalTimeout \in 0..TotalTimeout /\ 0 \in 0..MaxDelay
    OBVIOUS
  <1>3. FramesOK' /\ AttemptsLeft' /\ \A d \in Calls : d # c => call'[d] = call[d]
    BY <1>1, <1>2, PauseFrame
  <1> QED BY <1>1, <1>3, QuietInv

\* The end of a delay keeps the invariant.
LEMMA WakeInv == ASSUME Inductive, NEW c \in Calls, Wake(c) PROVE Inductive'
  <1>1. /\ call[c].pc = "sleeping" /\ UNCHANGED breaker
        /\ Frames(c, [pc |-> "attempt", attempts |-> call[c].attempts, left |-> call[c].left,
                      delay |-> 0])
    BY DEF Wake
  <1>2. call[c].attempts < MaxAttempts BY <1>1 DEF Inductive, AttemptsLeft
  <1>3. 0 \in 0..MaxDelay OBVIOUS
  <1>4. FramesOK' /\ AttemptsLeft' /\ \A d \in Calls : d # c => call'[d] = call[d]
    BY <1>1, <1>2, <1>3, FrameOf, PauseFrame
  <1> QED BY <1>1, <1>4, QuietInv

\* An operation that starts finds the breaker closed, or half opens it and is its one probe.
LEMMA OperationInv ==
  ASSUME Inductive, NEW c \in Calls, call[c].pc = "attempt", BeforeCall(c),
         Frames(c, [pc |-> "calling", attempts |-> call[c].attempts + 1,
                    left |-> call[c].left, delay |-> 0])
  PROVE  Inductive'
  <1> DEFINE f == [pc |-> "calling", attempts |-> call[c].attempts + 1,
                   left |-> call[c].left, delay |-> 0]
  <1>1. call[c].attempts < MaxAttempts BY DEF Inductive, AttemptsLeft
  <1>2. call[c].attempts + 1 \in 0..MaxAttempts /\ 0 \in 0..MaxDelay BY <1>1, FrameOf
  <1>3. f \in Frame BY <1>2, FrameOf DEF Frame, Pcs
  <1>4. Frames(c, f) /\ f.pc = "calling" OBVIOUS
  <1> HIDE DEF f
  <1>5. FramesOK' /\ call'[c] = f /\ \A d \in Calls : d # c => call'[d] = call[d]
    BY <1>3, <1>4, OneFrame DEF Inductive, TypeOK
  <1>6. AttemptsLeft' BY <1>4, <1>5, OneAttempt DEF Inductive
  <1>7. /\ BreakerOK' /\ BreakerConsistent'
        /\ state = "open" => state' = "half_open" /\ probes' = probes \cup {c}
        /\ state # "open" => state = "closed" /\ state' = "closed" /\ probes' = probes
    BY BeforeCallBreaker DEF Inductive, TypeOK
  <1>8. Calling(c)' BY <1>4, <1>5 DEF Calling
  <1>9. state # "half_open" /\ probes = {} BY <1>7 DEF Inductive, NoEarlyProbe
  <1>10. NoEarlyProbe' /\ OneProbe'
    <2>1. CASE state = "open"
      <3>1. state' = "half_open" /\ probes' = {c} BY <1>7, <1>9, <2>1
      <3> QED BY <1>8, <3>1 DEF NoEarlyProbe, OneProbe
    <2>2. CASE state # "open" BY <1>7, <1>9, <2>2 DEF NoEarlyProbe, OneProbe
    <2> QED BY <2>1, <2>2
  <1> QED BY <1>5, <1>6, <1>7, <1>10 DEF Inductive, TypeOK

\* An attempt, admitted or refused by before_call(), keeps the invariant.
LEMMA AttemptInv == ASSUME Inductive, NEW c \in Calls, Attempt(c) PROVE Inductive'
  <1>1. call[c].pc = "attempt" BY DEF Attempt
  <1>2. CASE End(c) /\ UNCHANGED breaker BY <1>1, <1>2, EndFacts, QuietInv
  <1>3. CASE /\ BeforeCall(c)
             /\ Frames(c, [pc |-> "calling", attempts |-> call[c].attempts + 1,
                           left |-> call[c].left, delay |-> 0])
    BY <1>1, <1>3, OperationInv
  <1> QED BY <1>2, <1>3 DEF Attempt

\* A report to the breaker that leaves it closed or open, and a frame that goes on.
LEMMA ReportInv ==
  ASSUME Inductive, FramesOK', AttemptsLeft', BreakerOK', BreakerConsistent', state' # "half_open",
         probes' = {} \/ (state # "half_open" /\ probes' = probes)
  PROVE  Inductive'
  <1>1. NoEarlyProbe' /\ OneProbe' BY NoProbe DEF Inductive
  <1> QED BY <1>1 DEF Inductive, TypeOK

\* An answer, whatever the breaker has become meanwhile, keeps the invariant.
LEMMA ReturnedInv == ASSUME Inductive, NEW c \in Calls, Returned(c) PROVE Inductive'
  <1>1. FramesOK' /\ AttemptsLeft' BY EndFacts DEF Returned
  <1>2. BreakerOK' /\ BreakerConsistent' /\ state' = "closed" /\ probes' = {}
    BY SuccessBreaker DEF Returned
  <1> QED BY <1>1, <1>2, ReportInv

\* A failure, whatever the breaker has become meanwhile, keeps the invariant.
LEMMA AfterFailure ==
  ASSUME Inductive, Failure, FramesOK', AttemptsLeft'
  PROVE  Inductive'
  <1>1. /\ BreakerOK' /\ BreakerConsistent' /\ state' \in {"closed", "open"}
        /\ probes' = {} \/ (state # "half_open" /\ probes' = probes)
    BY FailureBreaker DEF Inductive, TypeOK
  <1> QED BY <1>1, ReportInv

\* A deadline that is over keeps the invariant.
LEMMA TimedOutInv == ASSUME Inductive, NEW c \in Calls, TimedOut(c) PROVE Inductive'
  <1>1. FramesOK' /\ AttemptsLeft' BY EndFacts DEF TimedOut
  <1> QED BY <1>1, AfterFailure DEF TimedOut

\* A failure that is not retried keeps the invariant.
LEMMA RefusedInv == ASSUME Inductive, NEW c \in Calls, Refused(c) PROVE Inductive'
  <1>1. FramesOK' /\ AttemptsLeft' BY EndFacts DEF Refused
  <1>2. /\ BreakerOK' /\ BreakerConsistent' /\ state' # "half_open"
        /\ probes' = {} \/ (state # "half_open" /\ probes' = probes)
    BY PermanentBreaker DEF Refused, Inductive, TypeOK
  <1> QED BY <1>1, <1>2, ReportInv

\* A failure that is retried after a delay keeps the invariant.
LEMMA FailedInv == ASSUME Inductive, NEW c \in Calls, Failed(c) PROVE Inductive'
  <1>1. Failure BY DEF Failed
  <1>2. FramesOK' /\ AttemptsLeft'
    <2>1. CASE End(c) BY <2>1, EndFacts
    <2>2. CASE ~End(c)
      <3>1. call[c].attempts < MaxAttempts BY <2>2 DEF Failed, AttemptIsLeft
      <3>2. PICK delay \in 0..MaxDelay :
              Frames(c, [pc |-> "sleeping", attempts |-> call[c].attempts,
                         left |-> call[c].left, delay |-> delay])
        BY <2>2 DEF Failed
      <3> QED BY <3>1, <3>2, FrameOf, PauseFrame
    <2> QED BY <2>1, <2>2
  <1> QED BY <1>1, <1>2, AfterFailure

\* A cancelled call, of which the breaker is not told, keeps the invariant.
LEMMA CancelInv == ASSUME Inductive, NEW c \in Calls, Cancel(c) PROVE Inductive'
  <1> DEFINE f == [pc |-> "cancelled", attempts |-> 0, left |-> 0, delay |-> 0]
  <1>1. f \in Frame BY DEF Frame, Pcs
  <1>2. Frames(c, f) /\ f.pc = "cancelled" BY DEF Cancel
  <1> HIDE DEF f
  <1>3. FramesOK' /\ call'[c] = f /\ \A d \in Calls : d # c => call'[d] = call[d]
    BY <1>1, <1>2, OneFrame DEF Inductive, TypeOK
  <1>4. AttemptsLeft' BY <1>2, <1>3, OneAttempt DEF Inductive
  <1>5. UNCHANGED breaker BY DEF Cancel
  <1>6. BreakerOK' /\ BreakerConsistent' BY <1>5, SameBreaker DEF Inductive, TypeOK
  <1>7. \A d \in Calls : Calling(d) \/ Cancelled(d) => (Calling(d) \/ Cancelled(d))'
    BY <1>2, <1>3 DEF Calling, Cancelled
  <1>8. NoEarlyProbe' /\ OneProbe' BY <1>5, <1>7, ProbeKept DEF Inductive
  <1> QED BY <1>3, <1>4, <1>6, <1>8 DEF Inductive, TypeOK

\* The passing of time keeps the invariant.
LEMMA TickInv == ASSUME Inductive, Tick PROVE Inductive'
  <1>1. BreakerOK' /\ BreakerConsistent' BY TickBreaker DEF Inductive, TypeOK
  <1>2. FramesOK' /\ \A d \in Calls : call'[d].pc = call[d].pc BY TickFrame DEF Inductive, TypeOK
  <1>3. AttemptsLeft'
    <2> SUFFICES ASSUME NEW d \in Calls, call'[d].pc \in {"attempt", "sleeping"}
                 PROVE  call'[d].attempts < MaxAttempts
      BY DEF AttemptsLeft
    <2>1. call'[d].pc = call[d].pc /\ call'[d].attempts = call[d].attempts BY DEF Tick
    <2> QED BY <2>1 DEF Inductive, AttemptsLeft
  <1>4. state' = state /\ probes' = probes BY DEF Tick
  <1>5. \A d \in Calls : Calling(d) \/ Cancelled(d) => (Calling(d) \/ Cancelled(d))'
    BY <1>2 DEF Calling, Cancelled
  <1>6. NoEarlyProbe' BY <1>4 DEF Inductive, NoEarlyProbe
  <1>7. ASSUME state = "half_open"
        PROVE  \E d \in Calls : probes' = {d} /\ (Calling(d) \/ Cancelled(d))'
    <2>1. PICK d \in Calls : probes = {d} /\ (Calling(d) \/ Cancelled(d))
      BY <1>7 DEF Inductive, OneProbe
    <2>2. probes' = {d} /\ (Calling(d) \/ Cancelled(d))' BY <1>4, <1>5, <2>1
    <2> QED BY <2>2
  <1>8. OneProbe' BY <1>4, <1>7 DEF OneProbe
  <1> QED BY <1>1, <1>2, <1>3, <1>6, <1>8 DEF Inductive, TypeOK

\* A step that changes nothing keeps the invariant.
LEMMA StutterInv == ASSUME Inductive, UNCHANGED vars PROVE Inductive'
  BY DEF Inductive, TypeOK, BreakerOK, FramesOK, BreakerConsistent, ClosedBelowThreshold,
         ProbingIsHalfOpen, CoolingIsOpen, AttemptsLeft, NoEarlyProbe, OneProbe, Calling, Cancelled,
         vars, breaker

\* Every step of the executor keeps the invariant.
LEMMA StepInv == Inductive /\ [Next]_vars => Inductive'
  <1> SUFFICES ASSUME Inductive, [Next]_vars PROVE Inductive' OBVIOUS
  <1>1. CASE Tick BY <1>1, TickInv
  <1>2. ASSUME NEW c \in Calls, Begin(c) \/ Step(c) \/ Cancel(c) PROVE Inductive'
    <2>1. CASE Begin(c) BY <2>1, BeginInv
    <2>2. CASE Attempt(c) BY <2>2, AttemptInv
    <2>3. CASE Returned(c) BY <2>3, ReturnedInv
    <2>4. CASE TimedOut(c) BY <2>4, TimedOutInv
    <2>5. CASE Refused(c) BY <2>5, RefusedInv
    <2>6. CASE Failed(c) BY <2>6, FailedInv
    <2>7. CASE Wake(c) BY <2>7, WakeInv
    <2>8. CASE Cancel(c) BY <2>8, CancelInv
    <2> QED BY <1>2, <2>1, <2>2, <2>3, <2>4, <2>5, <2>6, <2>7, <2>8 DEF Step
  <1>3. CASE UNCHANGED vars BY <1>3, StutterInv
  <1> QED BY <1>1, <1>2, <1>3 DEF Next

\* The fields of the breaker always agree, whichever of any number of calls report
\* to it in which order, and no call exceeds its attempts, delay or deadline.
THEOREM BreakerInvariant == Spec => []Inductive
  <1> QED BY InitInv, StepInv, PTL DEF Spec

\* Every state of the executor is well typed: attempts, delays and deadlines keep within the policy.
THEOREM TypeCorrectness == Spec => []TypeOK
  <1>1. Inductive => TypeOK BY DEF Inductive
  <1> QED BY <1>1, BreakerInvariant, PTL

\* The fields of the circuit breaker always agree with one another, whichever calls report to it.
THEOREM BreakerAgrees == Spec => []BreakerConsistent
  <1>1. Inductive => BreakerConsistent BY DEF Inductive
  <1> QED BY <1>1, BreakerInvariant, PTL

\* before_call() lets one probe through each time the breaker opens, whatever the time limits are
\* and however many earlier calls are still with the provider, and while the breaker is half open
\* that one is with the provider too, or was cancelled there.
THEOREM ProbeIsOne == Spec => []OneProbe
  <1>1. Inductive => OneProbe BY DEF Inductive
  <1> QED BY <1>1, BreakerInvariant, PTL
=============================================================================
