--------------------------------- MODULE Wif ---------------------------------
(***************************************************************************)
(* AnthropicWIFExchange (zeaz_enterprise/wif.py): a short-lived credential *)
(* cached behind a lock with a second look at the cache inside it.  The    *)
(* provider starts counting a credential's life when it issues it; the     *)
(* cache counts from the moment the answer has been read, less the margin. *)
(* aclose() empties the cache and takes no lock.                           *)
(***************************************************************************)
EXTENDS Integers, FiniteSets

CONSTANTS
  Callers,       \* coroutines that call credential()
  Lives,         \* the expires_in the provider may answer
  Margin,        \* refresh_margin_seconds
  Delay,         \* bound: how long an answer may be on its way
  MaxSecond,     \* bound of the clock
  NoCaller

ASSUME WifAssumption ==
  /\ Lives \subseteq Nat \ {0} /\ Margin \in Nat
  /\ Delay \in Nat /\ MaxSecond \in Nat
  /\ NoCaller \notin Callers

VARIABLES
  monotonic,     \* the clock
  cached,        \* _cached: {} or the credential [dies], dies = when the provider refuses it
  refreshAt,     \* _refresh_at
  wifLock,       \* the holder of _lock
  caller,        \* [Callers -> where it is in credential()]
  answer,        \* {} or the credential issued and still on its way
  returned       \* history: the last credential returned, when and from where

wifVars == <<monotonic, cached, refreshAt, wifLock, caller, answer, returned>>

WifInit ==
  /\ monotonic = 0 /\ cached = {} /\ refreshAt = 0
  /\ wifLock = NoCaller /\ answer = {} /\ returned = {}
  /\ caller = [c \in Callers |-> "idle"]

-----------------------------------------------------------------------------
WifTick ==
  /\ monotonic < MaxSecond
  /\ \A a \in answer : monotonic < a.issued + Delay
  /\ monotonic' = monotonic + 1
  /\ UNCHANGED <<cached, refreshAt, wifLock, caller, answer, returned>>

\* Mutation: the second of the refresh still counts as before it.
FreshUpTo == cached # {} /\ monotonic <= refreshAt

\* self._cached is not None and self._monotonic() < self._refresh_at
Fresh == cached # {} /\ monotonic < refreshAt

Return(c, credentials) ==
  /\ returned' = {[dies |-> a.dies, at |-> monotonic] : a \in credentials}
  /\ caller' = [caller EXCEPT ![c] = "idle"]

\* credential(): the look without the lock.
Credential(c) ==
  /\ caller[c] = "idle"
  /\ IF Fresh THEN Return(c, cached)
     ELSE caller' = [caller EXCEPT ![c] = "waiting"] /\ returned' = returned
  /\ UNCHANGED <<monotonic, cached, refreshAt, wifLock, answer>>

\* The lock is free: the second look, or the await of the identity provider.
Enter(c) ==
  /\ caller[c] = "waiting" /\ wifLock = NoCaller
  /\ IF Fresh THEN Return(c, cached) /\ wifLock' = wifLock
     ELSE /\ caller' = [caller EXCEPT ![c] = "asking"]
          /\ wifLock' = c /\ returned' = returned
  /\ UNCHANGED <<monotonic, cached, refreshAt, answer>>

\* The provider issues a credential (external).
Issue(c) ==
  /\ caller[c] = "asking" /\ answer = {}
  /\ \E life \in Lives :
       answer' = {[issued |-> monotonic, dies |-> monotonic + life, life |-> life]}
  /\ UNCHANGED <<monotonic, cached, refreshAt, wifLock, caller, returned>>

\* expires_in - margin, never negative
Usable(life) == IF life > Margin THEN life - Margin ELSE 0

\* The answer has been read and is valid: it is cached and returned.
Exchanged(c) ==
  /\ caller[c] = "asking" /\ answer # {}
  /\ cached' = {[dies |-> a.dies] : a \in answer}
  /\ \E a \in answer : refreshAt' = monotonic + Usable(a.life)
  /\ Return(c, answer)
  /\ wifLock' = NoCaller /\ answer' = {}
  /\ UNCHANGED monotonic

\* A bad token or assertion, a redirect, a status, a body that is too large or
\* not the object expected, or a cancelled caller: the lock is released and the
\* cache keeps what it had.
ExchangeFails(c) ==
  /\ caller[c] = "asking"
  /\ caller' = [caller EXCEPT ![c] = "idle"]
  /\ wifLock' = NoCaller /\ answer' = {}
  /\ UNCHANGED <<monotonic, cached, refreshAt, returned>>

CancelWaiting(c) ==
  /\ caller[c] = "waiting"
  /\ caller' = [caller EXCEPT ![c] = "idle"]
  /\ UNCHANGED <<monotonic, cached, refreshAt, wifLock, answer, returned>>

Aclose ==
  /\ cached' = {} /\ refreshAt' = 0
  /\ UNCHANGED <<monotonic, wifLock, caller, answer, returned>>

WifNext ==
  \/ WifTick \/ Aclose
  \/ \E c \in Callers :
       \/ Credential(c) \/ Enter(c) \/ Issue(c)
       \/ Exchanged(c) \/ ExchangeFails(c) \/ CancelWaiting(c)

WifSpec == WifInit /\ [][WifNext]_wifVars

-----------------------------------------------------------------------------
\* credential() never hands out a credential the provider already refuses, when
\* no answer is longer on its way than the margin and the credential outlives
\* its own delivery.
HandedOutAlive ==
  (Delay <= Margin /\ \A life \in Lives : life > Delay) =>
    \A r \in returned : r.at < r.dies

=============================================================================
