--------------------------------- MODULE Mcp ---------------------------------
(***************************************************************************)
(* The transports of zeaz_agent/mcp.py.  StdioTransport: requests to a     *)
(* child process, one at a time behind a lock, written to its stdin and    *)
(* answered on its stdout.  A request may be cancelled at any await; what  *)
(* it has written stays written.  The peer answers in order, may send      *)
(* messages nobody asked for, and may end.  aclose() does not take the     *)
(* lock.  StreamableHTTPTransport: one POST for each request, behind a     *)
(* lock, answered by a message or by a stream of messages; the session     *)
(* identifier it passes back to the server is left out.                    *)
(***************************************************************************)
EXTENDS Integers, Sequences

CONSTANTS
  Requesters,    \* coroutines that call request()
  MaxRequests,   \* bound of the model on requests
  MaxPeers,      \* bound of the model on processes
  MaxNotices,    \* bound of the model on messages without a request
  NoRequester

ASSUME McpAssumption ==
  /\ MaxRequests \in Nat /\ MaxPeers \in Nat /\ MaxNotices \in Nat
  /\ NoRequester \notin Requesters

VARIABLES
  transport, \* the class: "stdio" or "http"
  current,   \* _process: the number of a peer, 0 for None
  peer,      \* the peers: their state and what is in their pipes
  request,   \* request[c]: where the coroutine is, its id, its process
  mcpLock,   \* holder of _lock
  nextId,    \* _next_id
  notices,   \* bounded by MaxNotices
  results    \* history: pairs of a request and the id its result came with

mcpVars == <<transport, current, peer, request, mcpLock, nextId, notices, results>>

-----------------------------------------------------------------------------
Notice == 0

Unborn == [state |-> "unborn", inbox |-> <<>>, outbox |-> <<>>]
Running == [Unborn EXCEPT !.state = "live"]

Resting == [at |-> "idle", id |-> 0, process |-> 0]

PeerIds == 1..MaxPeers

Release(c) ==
  /\ request' = [request EXCEPT ![c] = Resting]
  /\ mcpLock' = NoRequester

\* request() from the moment it has a process: the line is in the pipe, even
\* when nobody reads it any more.
Send(c, process, pipes) ==
  /\ nextId <= MaxRequests
  /\ peer' = [pipes EXCEPT ![process].inbox = Append(@, nextId)]
  /\ nextId' = nextId + 1
  /\ request' = [request EXCEPT
       ![c] = [at |-> "reading", id |-> nextId, process |-> process]]

\* request() with a process that has been started.
Request(c) ==
  /\ request[c] = Resting /\ mcpLock = NoRequester
  /\ transport = "stdio"
  /\ current # 0
  /\ Send(c, current, peer)
  /\ mcpLock' = c
  /\ UNCHANGED <<transport, current, notices, results>>

\* request() without one: start() awaits create_subprocess_exec().
RequestStarts(c) ==
  /\ request[c] = Resting /\ mcpLock = NoRequester
  /\ transport = "stdio"
  /\ current = 0
  /\ request' = [request EXCEPT ![c].at = "starting"]
  /\ mcpLock' = c
  /\ UNCHANGED <<transport, current, peer, nextId, notices, results>>

\* The process is there; start() keeps it and request() goes on.
Started(c) ==
  /\ request[c].at = "starting"
  /\ \E k \in PeerIds :
       /\ peer[k] = Unborn
       /\ \A j \in 1..(k - 1) : peer[j] # Unborn
       /\ current' = k
       /\ Send(c, k, [peer EXCEPT ![k] = Running])
  /\ UNCHANGED <<transport, mcpLock, notices, results>>

\* create_subprocess_exec() fails, or the request is cancelled while it runs.
StartFails(c) ==
  /\ request[c].at = "starting"
  /\ Release(c)
  /\ UNCHANGED <<transport, current, peer, nextId, notices, results>>

\* Mutation: takes any response.
AnyResponse(id, message) == TRUE

\* _result_for_request()
IsResponse(id, message) == message = id

\* readline() returns a message: the result of this request, or an error that
\* leaves the peer alone.
Read(c) ==
  LET r == request[c] IN
  /\ r.at = "reading"
  /\ peer[r.process].outbox # <<>>
  /\ peer' = [peer EXCEPT ![r.process].outbox = Tail(@)]
  /\ LET message == Head(peer[r.process].outbox)
     IN results' = IF IsResponse(r.id, message)
                   THEN results \cup {<<r.id, message>>} ELSE results
  /\ Release(c)
  /\ UNCHANGED <<transport, current, nextId, notices>>

\* _abort(): kills the process that is current when it is called.
AbortProcess ==
  /\ current' = 0
  /\ peer' = IF current = 0 THEN peer
             ELSE [peer EXCEPT ![current].state = "dead"]

\* No line within the timeout, or the end of the pipe.
ReadFails(c) ==
  /\ request[c].at = "reading"
  /\ AbortProcess
  /\ Release(c)
  /\ UNCHANGED <<transport, nextId, notices, results>>

\* The task is cancelled in drain() or readline(): nothing is aborted.
CancelRequest(c) ==
  /\ request[c].at = "reading"
  /\ Release(c)
  /\ UNCHANGED <<transport, current, peer, nextId, notices, results>>

\* aclose(): stdin is closed; the peer ends by itself or is killed after a
\* while, unless aclose() is cancelled.
CloseTransport ==
  /\ current # 0
  /\ current' = 0
  /\ peer' = [peer EXCEPT ![current].state =
                IF @ = "dead" THEN "dead" ELSE "closed"]
  /\ UNCHANGED <<transport, request, mcpLock, nextId, notices, results>>

-----------------------------------------------------------------------------
(* The peer: external *)

PeerAnswers(k) ==
  /\ peer[k].state \in {"live", "closed"}
  /\ peer[k].inbox # <<>>
  /\ peer' = [peer EXCEPT ![k].inbox = Tail(@),
                          ![k].outbox = Append(@, Head(peer[k].inbox))]
  /\ UNCHANGED <<transport, current, request, mcpLock, nextId, notices, results>>

PeerNotifies(k) ==
  /\ peer[k].state \in {"live", "closed"}
  /\ notices < MaxNotices
  /\ notices' = notices + 1
  /\ peer' = [peer EXCEPT ![k].outbox = Append(@, Notice)]
  /\ UNCHANGED <<transport, current, request, mcpLock, nextId, results>>

PeerEnds(k) ==
  /\ peer[k].state \in {"live", "closed"}
  /\ peer' = [peer EXCEPT ![k].state = "dead"]
  /\ UNCHANGED <<transport, current, request, mcpLock, nextId, notices, results>>

-----------------------------------------------------------------------------
(* StreamableHTTPTransport *)

\* request() up to the answer of the server.
Post(c) ==
  /\ transport = "http"
  /\ request[c] = Resting /\ mcpLock = NoRequester
  /\ nextId <= MaxRequests
  /\ request' = [request EXCEPT ![c] = [at |-> "posting", id |-> nextId, process |-> 0]]
  /\ nextId' = nextId + 1
  /\ mcpLock' = c
  /\ UNCHANGED <<transport, current, peer, notices, results>>

\* _response_from_sse(): the first message with the identifier.
FirstResponse(id, messages) ==
  LET mine == {i \in DOMAIN messages : messages[i] = id}
  IN IF mine = {} THEN <<>> ELSE <<messages[CHOOSE i \in mine : \A k \in mine : i <= k]>>

\* What the server may answer: a message, or a stream of them, of any requests.
Bodies ==
  LET messages == UNION {[1..n -> 0..MaxRequests] : n \in 0..2}
  IN [type : {"json"}, messages : {m \in messages : Len(m) = 1}]
       \cup [type : {"sse"}, messages : messages]

\* request() with the answer.
Posted(c) ==
  LET id == request[c].id IN
  /\ request[c].at = "posting"
  /\ \E body \in Bodies :
       LET message == IF body.type = "json" THEN body.messages
                      ELSE FirstResponse(id, body.messages)
       IN results' = results \cup
            {<<id, message[n]>> : n \in {n \in DOMAIN message : IsResponse(id, message[n])}}
  /\ Release(c)
  /\ UNCHANGED <<transport, current, peer, nextId, notices>>

\* A redirect, an error status, a body that is too long; or the task is cancelled.
PostFails(c) ==
  /\ request[c].at = "posting"
  /\ Release(c)
  /\ UNCHANGED <<transport, current, peer, nextId, notices, results>>

-----------------------------------------------------------------------------
McpInit ==
  /\ transport \in {"stdio", "http"}
  /\ current = 0 /\ peer = [k \in PeerIds |-> Unborn]
  /\ request = [c \in Requesters |-> Resting]
  /\ mcpLock = NoRequester /\ nextId = 1 /\ notices = 0 /\ results = {}

McpNext ==
  \/ \E c \in Requesters :
       \/ Request(c) \/ RequestStarts(c) \/ Started(c) \/ StartFails(c)
       \/ Read(c) \/ ReadFails(c) \/ CancelRequest(c)
       \/ Post(c) \/ Posted(c) \/ PostFails(c)
  \/ CloseTransport
  \/ \E k \in PeerIds : PeerAnswers(k) \/ PeerNotifies(k) \/ PeerEnds(k)

McpSpec == McpInit /\ [][McpNext]_mcpVars

-----------------------------------------------------------------------------
(* Properties *)

\* A request returns the answer to itself: also after requests that were
\* cancelled with their answers still in the pipe, and across restarts of the
\* peer, which do not reset the identifiers (request() of mcp.py); and no
\* peer is left running that the transport does not know, unless its stdin is
\* closed.
AnswersOwn ==
  /\ \A pair \in results : pair[1] = pair[2]
  /\ \A k \in PeerIds : peer[k].state = "live" => k = current

=============================================================================
