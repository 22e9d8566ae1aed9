----------------------------- MODULE AgingTables -----------------------------
(***************************************************************************)
(* Two tables of the gateway whose entries age.  CapabilityRegistry        *)
(* (zeaz_provider/capabilities.py) keeps what a provider announced of its  *)
(* models for a lifetime and falls back to what is configured; refreshes   *)
(* may overlap and their answers overtake one another.  The rate limiter   *)
(* (security.py, in memory, or a script that Redis runs alone) keeps the   *)
(* times of the requests it let through for the length of its window.      *)
(***************************************************************************)
EXTENDS Integers, Sequences, FiniteSets, SequencesExt

CONSTANTS
  RouteModels,   \* models of the configured routes
  Announceable,  \* models the provider may announce
  Pollers,       \* coroutines that refresh
  Ttl,           \* ttl_seconds
  Window,        \* window_seconds
  RateLimit,     \* limit, more than zero
  MaxInstant,    \* bound of the clock
  MaxAsked       \* bound: requests of the client

ASSUME AgingAssumption ==
  /\ Ttl \in Nat \ {0} /\ Window \in Nat \ {0} /\ RateLimit \in Nat \ {0}
  /\ MaxInstant \in Nat /\ MaxAsked \in Nat

VARIABLES
  instant,       \* the clock
  known,         \* _records: models to {} or [source, observed, expires]
  polling,       \* [Pollers -> {} or {when the provider answered}]
  backend,       \* "memory" or "redis"
  window,        \* the times counted of one client, oldest first
  touched,       \* when the script last set the expiry of its key
  verdicts       \* history: [at, counted, ok] of every request, in order

limiterVars == <<backend, window, touched, verdicts>>
agingVars == <<instant, known, polling, limiterVars>>

AllModels == RouteModels \union Announceable

\* expires_at 0: a configured record does not expire.
ConfiguredRecord(model) ==
  IF model \in RouteModels THEN {[source |-> "configuration", observed |-> 0, expires |-> 0]} ELSE {}

AgingInit ==
  /\ instant = 1
  /\ known = [m \in AllModels |-> ConfiguredRecord(m)]
  /\ polling = [p \in Pollers |-> {}]
  /\ backend \in {"memory", "redis"}
  /\ window = <<>> /\ touched = 1 /\ verdicts = <<>>

-----------------------------------------------------------------------------
PassInstant ==
  /\ instant < MaxInstant /\ instant' = instant + 1
  /\ UNCHANGED <<known, polling, limiterVars>>

\* refresh_provider(): the provider has answered, the caller has not gone on.
PollAnswer(p) ==
  /\ polling[p] = {} /\ polling' = [polling EXCEPT ![p] = {instant}]
  /\ UNCHANGED <<instant, known, limiterVars>>

\* The answer's models are recorded with the time at which they are; the rest stay.
PollRecorded(p) ==
  /\ polling[p] # {} /\ polling' = [polling EXCEPT ![p] = {}]
  /\ \E named \in SUBSET Announceable :
       known' = [m \in AllModels |->
         IF m \in named
         THEN {[source |-> "provider", observed |-> instant, expires |-> instant + Ttl]}
         ELSE known[m]]
  /\ UNCHANGED <<instant, limiterVars>>

\* An error, a cancellation, or a data field that is no list.
PollFails(p) ==
  /\ polling[p] # {} /\ polling' = [polling EXCEPT ![p] = {}]
  /\ UNCHANGED <<instant, known, limiterVars>>

\* record.expires_at and record.expires_at <= self.clock()
Expired(record) == record.expires # 0 /\ record.expires <= instant

\* get(): an expired record gives way to the configured one, if there is one.
Lookup(model) ==
  IF \E r \in known[model] : Expired(r) THEN ConfiguredRecord(model) ELSE known[model]

-----------------------------------------------------------------------------
\* Mutation: a request is forgotten one step too early.
InWindowShort(time) == time + Window > instant + 1

\* events[0] <= cutoff
InWindow(time) == time + Window > instant

\* while events and events[0] <= cutoff: events.popleft()
Pruned ==
  LET dropped == Max({n \in 0..Len(window) : \A i \in 1..n : ~InWindow(window[i])})
  IN  SubSeq(window, dropped + 1, Len(window))

Counts == Len(Pruned) < RateLimit

\* What allow() in memory, or the script, does to the table.
Count ==
  /\ Len(verdicts) < MaxAsked
  /\ window' = IF Counts THEN Append(Pruned, instant) ELSE Pruned
  /\ touched' = instant
  /\ UNCHANGED <<instant, known, polling, backend>>

Told(ok) ==
  verdicts' = Append(verdicts, [at |-> instant, counted |-> Counts, ok |-> ok])

Allow == Count /\ Told(Counts)

\* The script ran and its answer was lost or is no pair of numbers: the request is
\* refused (RateLimitBackendError) and, if there was room, counted all the same.
AnswerLost == backend = "redis" /\ Count /\ Told(FALSE)

\* Redis could not be reached: the request is refused and nothing is counted.
Unreachable ==
  /\ backend = "redis" /\ Len(verdicts) < MaxAsked
  /\ verdicts' = Append(verdicts, [at |-> instant, counted |-> FALSE, ok |-> FALSE])
  /\ UNCHANGED <<instant, known, polling, backend, window, touched>>

\* PEXPIRE: the key is gone a window after the script last ran.
KeyExpires ==
  /\ backend = "redis" /\ touched + Window <= instant /\ window # <<>>
  /\ window' = <<>>
  /\ UNCHANGED <<instant, known, polling, backend, touched, verdicts>>

AgingNext ==
  \/ PassInstant \/ Allow \/ AnswerLost \/ Unreachable \/ KeyExpires
  \/ \E p \in Pollers : PollAnswer(p) \/ PollRecorded(p) \/ PollFails(p)

AgingSpec == AgingInit /\ [][AgingNext]_agingVars

-----------------------------------------------------------------------------
\* The requests counted before the i-th and within the window that ends with it.
CountedBefore(i) ==
  {j \in 1..(i - 1) : verdicts[j].counted /\ verdicts[j].at + Window > verdicts[i].at}

\* A request the script did not see: refused and not counted, though there was room.
Unseen(i) == backend = "redis" /\ ~verdicts[i].counted /\ ~verdicts[i].ok

\* The limiter is exact: a request is counted if and only if fewer than the limit
\* were in the window that ends with it, however long the client waited, however
\* often it was refused and whether or not the key expired meanwhile; it is let
\* through only if it was counted.  And what a lookup finds is either young enough
\* or configured; a configured model is always found.
TablesExact ==
  /\ \A i \in DOMAIN verdicts :
       /\ Cardinality(CountedBefore(i)) < RateLimit => verdicts[i].counted \/ Unseen(i)
       /\ verdicts[i].counted => Cardinality(CountedBefore(i)) < RateLimit
       /\ verdicts[i].ok => verdicts[i].counted
       /\ backend = "memory" => (verdicts[i].counted <=> verdicts[i].ok)
  /\ \A m \in AllModels :
       /\ \A r \in Lookup(m) : r.source = "provider" => instant - r.observed < Ttl
       /\ m \in RouteModels => Lookup(m) # {}

=============================================================================
