------------------------------ MODULE Webhooks ------------------------------
(***************************************************************************)
(* Verification of signed webhook deliveries and the durable replay store  *)
(* (zeaz_enterprise/webhooks.py).  Several verifiers, each in a process of *)
(* its own, share one SQLite file of the event ids already seen.  A        *)
(* verifier reads the clock once, checks the delivery against that reading *)
(* and only then takes the database's write lock, so the claims of two     *)
(* deliveries may be made in another order than their clock readings.      *)
(***************************************************************************)
EXTENDS Integers, FiniteSets

CONSTANTS
  Verifiers,    \* the processes that verify
  Events,       \* event ids
  Tolerance,    \* tolerance_seconds
  Retention,    \* retention_seconds
  LockWait,     \* bound: how long a verifier may wait for the write lock
  MaxClock      \* bound: the last second

ASSUME WebhookAssumption ==
  /\ Tolerance \in Nat \ {0} /\ Retention \in Nat \ {0}
  /\ LockWait \in Nat /\ MaxClock \in Nat

VARIABLES
  second,       \* the wall clock
  claims,       \* webhook_events: a set of [event, at]
  verifying,    \* [Verifiers -> {} or {[delivery, at]}]: checked, not yet claimed
  handed        \* the deliveries returned with duplicate = FALSE, with the time of the claim's reading

webhookVars == <<second, claims, verifying, handed>>

\* What arrives: the header's id and timestamp, the event id in the body, and
\* whether one of the signatures is the expected one.
Deliveries == [id: Events, event: Events, stamp: 0..MaxClock, signed: BOOLEAN]

WebhookInit ==
  /\ second = 0 /\ claims = {} /\ handed = {}
  /\ verifying = [v \in Verifiers |-> {}]

\* A verifier that waits longer than its busy timeout has given up.
Elapse ==
  /\ second < MaxClock
  /\ \A v \in Verifiers : \A w \in verifying[v] : second < w.at + LockWait
  /\ second' = second + 1
  /\ UNCHANGED <<claims, verifying, handed>>

\* abs(now - timestamp) > tolerance
Stale(delivery, now) ==
  \/ now - delivery.stamp > Tolerance
  \/ delivery.stamp - now > Tolerance

\* The checks of verify() up to the claim.
Genuine(delivery) == delivery.signed /\ delivery.event = delivery.id

CheckDelivery(v, delivery) ==
  /\ verifying[v] = {}
  /\ ~Stale(delivery, second)
  /\ Genuine(delivery)
  /\ verifying' = [verifying EXCEPT ![v] = {[delivery |-> delivery, at |-> second]}]
  /\ UNCHANGED <<second, claims, handed>>

\* Mutation: the purge reaches one second too far.
RetainedStrictly(now) == {c \in claims : c.at > now - Retention}

\* DELETE ... WHERE received_at < now - retention
Retained(now) == {c \in claims : c.at >= now - Retention}

\* INSERT OR IGNORE: the row of an event that is there keeps its time.
Known(event, rows) == \E c \in rows : c.event = event

\* The transaction: purge, insert, commit; the answer says whether a row went in.
Claim(v) ==
  \E w \in verifying[v] :
    /\ verifying' = [verifying EXCEPT ![v] = {}]
    /\ IF Known(w.delivery.event, Retained(w.at))
         THEN claims' = Retained(w.at) /\ handed' = handed
         ELSE /\ claims' = Retained(w.at) \union {[event |-> w.delivery.event, at |-> w.at]}
              /\ handed' = handed \union {[delivery |-> w.delivery, at |-> w.at, by |-> v]}
    /\ UNCHANGED second

\* sqlite3.OperationalError after busy_timeout: nothing is claimed.
LockTimesOut(v) ==
  /\ verifying[v] # {}
  /\ verifying' = [verifying EXCEPT ![v] = {}]
  /\ UNCHANGED <<second, claims, handed>>

WebhookNext ==
  \/ Elapse
  \/ \E v \in Verifiers :
       \/ \E delivery \in Deliveries : CheckDelivery(v, delivery)
       \/ Claim(v)
       \/ LockTimesOut(v)

WebhookSpec == WebhookInit /\ [][WebhookNext]_webhookVars

-----------------------------------------------------------------------------
\* A signed delivery is handed to the application as new at most once, whichever
\* verifiers receive its copies and however their claims are reordered, as long
\* as the retention covers twice the tolerance and the wait for the lock.  (The
\* code accepts a retention below that: 300 s with a tolerance of 300 s.)
ReplayRejected ==
  2 * Tolerance + LockWait <= Retention =>
    \A h, g \in handed : h.delivery = g.delivery => h = g

=============================================================================
