----------------------------- MODULE EgressProxy -----------------------------
(***************************************************************************)
(* SocksEgressProxy (zeaz_sandbox/egress_proxy.py), the sidecar that lets  *)
(* a sandboxed job reach exact destinations.  Each connection holds one of *)
(* the slots while it is handled; its two directions share one allowance   *)
(* of bytes, each reading with what was left when it began to wait.  Time  *)
(* for the whole connection is limited, not only idle time.                *)
(***************************************************************************)
EXTENDS Integers, Sequences, FiniteSets, SequencesExt

CONSTANTS
  Connections,         \* client connections
  Destinations,  \* records [literal, allowed]: literal is {} for a name or {address}
  Addresses,     \* records [id, kind], kind "global", "private" or "loopback"
  MaxConnections,
  MaxRelayed     \* max_connection_bytes

ASSUME ProxyAssumption ==
  /\ MaxConnections \in Nat \ {0} /\ MaxRelayed \in Nat
  /\ IsFiniteSet(Addresses)
  /\ \A a \in Addresses : a.kind \in {"global", "private", "loopback"}
  /\ \A d \in Destinations : d.literal \subseteq Addresses /\ d.allowed \in BOOLEAN

Directions == {"up", "down"}

VARIABLES
  socks,         \* [Connections -> where its handler is]
  wanted,        \* [Connections -> {} or the destination it asked for]
  resolved,      \* [Connections -> addresses still to try]
  upstream,      \* [Connections -> {} or the address it is connected to]
  allowance,     \* [Connections -> remaining]
  reading,       \* [Connections -> [Directions -> 0, or the size asked of source.read()]]
  relayed,       \* history: [Connections -> bytes written to either side]
  replies        \* history: [Connections -> SOCKS statuses sent]

proxyVars == <<socks, wanted, resolved, upstream, allowance, reading, relayed, replies>>

ProxyInit ==
  /\ socks = [p \in Connections |-> "new"]
  /\ wanted = [p \in Connections |-> {}]
  /\ resolved = [p \in Connections |-> <<>>]
  /\ upstream = [p \in Connections |-> {}]
  /\ allowance = [p \in Connections |-> MaxRelayed]
  /\ reading = [p \in Connections |-> [d \in Directions |-> 0]]
  /\ relayed = [p \in Connections |-> 0]
  /\ replies = [p \in Connections |-> <<>>]

-----------------------------------------------------------------------------

\* Whoever is inside async with self._slots.
Handling == {p \in Connections : socks[p] \notin {"new", "over"}}

\* A connection is accepted and has a slot.
TakeSlot(p) ==
  /\ socks[p] = "new" /\ Cardinality(Handling) < MaxConnections
  /\ socks' = [socks EXCEPT ![p] = "greeting"]
  /\ UNCHANGED <<wanted, resolved, upstream, allowance, reading, relayed, replies>>

\* _reply(), after which the handler returns.
Answered(p, status) ==
  /\ replies' = [replies EXCEPT ![p] = Append(@, status)]
  /\ socks' = [socks EXCEPT ![p] = "closing"]

\* The greeting offers "no authentication", or it is turned down.
Greeting(p) ==
  /\ socks[p] = "greeting"
  /\ \/ socks' = [socks EXCEPT ![p] = "request"] /\ replies' = replies
     \/ Answered(p, "no_method")
  /\ UNCHANGED <<wanted, resolved, upstream, allowance, reading, relayed>>

Unsupported(p) ==
  /\ socks[p] = "request" /\ Answered(p, "command_unsupported")
  /\ UNCHANGED <<wanted, resolved, upstream, allowance, reading, relayed>>

\* A CONNECT; resolve() looks at the policy before it asks for addresses.
Requested(p) ==
  /\ socks[p] = "request"
  /\ \E d \in Destinations :
       /\ wanted' = [wanted EXCEPT ![p] = {d}]
       /\ IF d.allowed
          THEN socks' = [socks EXCEPT ![p] = "resolving"] /\ replies' = replies
          ELSE Answered(p, "not_allowed")
  /\ UNCHANGED <<resolved, upstream, allowance, reading, relayed>>

\* _safe_resolution(): never the host itself, a literal only as itself, a name
\* only if the address is global.
SafeResolution(address, literal) ==
  /\ address.kind # "loopback"
  /\ IF literal # {} THEN address \in literal ELSE address.kind = "global"

\* getaddrinfo() answers whatever the name server says now.
Resolved(p) ==
  /\ socks[p] = "resolving"
  /\ \E records \in SUBSET Addresses, d \in wanted[p] :
       LET safe == {a \in records : SafeResolution(a, d.literal)} IN
       /\ d.literal # {} => records = d.literal
       /\ \E order \in SetToSeqs(safe) : resolved' = [resolved EXCEPT ![p] = order]
       /\ IF safe = {} THEN Answered(p, "not_allowed")
          ELSE socks' = [socks EXCEPT ![p] = "connecting"] /\ replies' = replies
  /\ UNCHANGED <<wanted, upstream, allowance, reading, relayed>>

\* open_connection() to the next address.
Connected(p) ==
  /\ socks[p] = "connecting"
  /\ upstream' = [upstream EXCEPT ![p] = {Head(resolved[p])}]
  /\ socks' = [socks EXCEPT ![p] = "replying"]
  /\ replies' = [replies EXCEPT ![p] = Append(@, "succeeded")]
  /\ UNCHANGED <<wanted, resolved, allowance, reading, relayed>>

ConnectFails(p) ==
  /\ socks[p] = "connecting"
  /\ resolved' = [resolved EXCEPT ![p] = Tail(@)]
  /\ IF Len(resolved[p]) = 1 THEN Answered(p, "general_failure") ELSE UNCHANGED <<socks, replies>>
  /\ UNCHANGED <<wanted, upstream, allowance, reading, relayed>>

\* The answer is drained and both copies begin.
BeginRelay(p) ==
  /\ socks[p] = "replying"
  /\ socks' = [socks EXCEPT ![p] = "relaying"]
  /\ reading' = [reading EXCEPT ![p] = [d \in Directions |-> allowance[p] + 1]]
  /\ UNCHANGED <<wanted, resolved, upstream, allowance, relayed, replies>>

\* Mutation: a chunk is held against what was left when it was asked for.
WithinAsked(p, d, n) == n < reading[p][d]

\* len(chunk) <= remaining
WithinAllowance(p, d, n) == n <= allowance[p]

\* A chunk arrives: it is counted and written, and more is asked for; or it is one
\* too many, the task group fails and the upstream connection is closed.
Chunk(p, d) ==
  /\ socks[p] = "relaying"
  /\ \E n \in 1..reading[p][d] :
       IF WithinAllowance(p, d, n)
       THEN /\ allowance' = [allowance EXCEPT ![p] = @ - n]
            /\ relayed' = [relayed EXCEPT ![p] = @ + n]
            /\ reading' = [reading EXCEPT ![p][d] = allowance'[p] + 1]
            /\ UNCHANGED <<socks, upstream>>
       ELSE /\ socks' = [socks EXCEPT ![p] = "closing"]
            /\ upstream' = [upstream EXCEPT ![p] = {}]
            /\ UNCHANGED <<allowance, relayed, reading>>
  /\ UNCHANGED <<wanted, resolved, replies>>

\* The end of one direction; after both the upstream connection is closed.
EndOfStream(p, d) ==
  /\ socks[p] = "relaying" /\ reading[p][d] > 0
  /\ reading' = [reading EXCEPT ![p][d] = 0]
  /\ IF \A e \in Directions : reading'[p][e] = 0
     THEN /\ socks' = [socks EXCEPT ![p] = "closing"]
          /\ upstream' = [upstream EXCEPT ![p] = {}]
     ELSE UNCHANGED <<socks, upstream>>
  /\ UNCHANGED <<wanted, resolved, allowance, relayed, replies>>

\* Malformed input, a lost connection or the timeout.  Only the relay is inside the
\* try block that closes the upstream connection: one that is cut while the reply
\* is drained stays open.
Interrupted(p) ==
  /\ socks[p] \notin {"new", "closing", "over"}
  /\ socks' = [socks EXCEPT ![p] = "closing"]
  /\ upstream' = [upstream EXCEPT ![p] = IF socks[p] = "relaying" THEN {} ELSE @]
  /\ UNCHANGED <<wanted, resolved, allowance, reading, relayed, replies>>

\* writer.close(), wait_closed(), and the slot is free.
Closed(p) ==
  /\ socks[p] = "closing"
  /\ socks' = [socks EXCEPT ![p] = "over"]
  /\ UNCHANGED <<wanted, resolved, upstream, allowance, reading, relayed, replies>>

ProxyNext ==
  \E p \in Connections :
    \/ TakeSlot(p) \/ Greeting(p) \/ Unsupported(p) \/ Requested(p) \/ Resolved(p)
    \/ Connected(p) \/ ConnectFails(p) \/ BeginRelay(p)
    \/ Interrupted(p) \/ Closed(p)
    \/ \E d \in Directions : Chunk(p, d) \/ EndOfStream(p, d)

ProxySpec == ProxyInit /\ [][ProxyNext]_proxyVars

-----------------------------------------------------------------------------
\* What a job can reach: every connection goes to an address that the name server
\* gave for a destination of the policy and that is not the host's own; both
\* directions together carry no more than the allowance, however their reads
\* overlap; a client is told of one outcome; and no more handlers than slots.
EgressContained ==
  /\ Cardinality({p \in Connections : socks[p] \notin {"new", "over"}}) <= MaxConnections
  /\ \A p \in Connections :
       /\ relayed[p] <= MaxRelayed /\ Len(replies[p]) <= 1
       /\ \A a \in upstream[p] : \E d \in wanted[p] :
            /\ d.allowed /\ a.kind # "loopback"
            /\ a.kind = "private" => a \in d.literal

=============================================================================
