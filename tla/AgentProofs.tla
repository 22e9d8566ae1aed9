----------------------------- MODULE AgentProofs -----------------------------
(***************************************************************************)
(* Proofs about the parts of zeaz-agent that share no state: the           *)
(* transports of Mcp, the hash chain of AuditLedger, the gates of          *)
(* ToolGate, the packages of SkillLoader, the store and the context of     *)
(* AgentSession and the limits of Subagents, for any number of requesters, *)
(* writers, rules, hooks, packages, clients and subagents.                 *)
(***************************************************************************)
EXTENDS Mcp, AuditLedger, ToolGate, SkillLoader, AgentSession, Subagents,
        SumProofs, TLAPS, FiniteSetTheorems

-----------------------------------------------------------------------------
(* Mcp                                                                      *)

Peers == [state : {"unborn", "live", "closed", "dead"}, inbox : Seq(Nat), outbox : Seq(Nat)]
Frames == [at : {"idle", "starting", "reading", "posting"}, id : Nat, process : 0..MaxPeers]

McpTypes ==
  /\ current \in 0..MaxPeers
  /\ peer \in [PeerIds -> Peers]
  /\ request \in [Requesters -> Frames]
  /\ nextId \in Nat

\* Who is in request() has the lock; who starts a process finds none; who
\* reads, reads the pipe of a process.
OneAtATime ==
  \A c \in Requesters :
    /\ request[c].at # "idle" => mcpLock = c
    /\ request[c].at = "starting" => current = 0
    /\ request[c].at = "reading" => request[c].process \in PeerIds

OwnResults == \A pair \in results : pair[1] = pair[2]

KnownPeers == \A k \in PeerIds : peer[k].state = "live" => k = current

McpInv == McpTypes /\ OneAtATime /\ OwnResults /\ KnownPeers

\* Before the first process nobody asks or reads.
LEMMA McpStart == McpInit => McpInv
  BY McpAssumption
  DEF McpInit, McpInv, McpTypes, OneAtATime, OwnResults, KnownPeers, Unborn, Resting, Peers, Frames, PeerIds

\* The frame of a coroutine that leaves request().
LEMMA ReleaseKeeps ==
  ASSUME McpTypes, OneAtATime, NEW c \in Requesters, request[c].at # "idle", Release(c)
  PROVE  /\ request' \in [Requesters -> Frames]
         /\ \A d \in Requesters : request'[d].at = "idle"
  BY McpAssumption DEF McpTypes, OneAtATime, Release, Resting, Frames

\* A line that is written to a process that lives in the pipes given.
LEMMA SendKeeps ==
  ASSUME McpTypes, NEW c \in Requesters, NEW k \in PeerIds,
         NEW pipes \in [PeerIds -> Peers], Send(c, k, pipes)
  PROVE  /\ peer' \in [PeerIds -> Peers]
         /\ \A j \in PeerIds : peer'[j].state = pipes[j].state
         /\ nextId' \in Nat
         /\ request' \in [Requesters -> Frames]
         /\ request'[c].at = "reading" /\ request'[c].process = k
         /\ \A d \in Requesters : d # c => request'[d] = request[d]
<1>1. Append(pipes[k].inbox, nextId) \in Seq(Nat)
  BY DEF McpTypes, Peers
<1>2. peer' \in [PeerIds -> Peers] /\ \A j \in PeerIds : peer'[j].state = pipes[j].state
  BY <1>1 DEF Send, Peers
<1> QED BY <1>2, McpAssumption DEF Send, McpTypes, Frames, PeerIds

\* A step of a requester, of the process or of the transport keeps all of it.
LEMMA McpStep ==
  ASSUME McpInv, [McpNext]_mcpVars
  PROVE  McpInv'
<1> USE DEF McpInv
<1>1. ASSUME NEW c \in Requesters, Request(c) PROVE McpInv'
  <2>1. current \in PeerIds
    BY <1>1, McpAssumption DEF Request, McpTypes, PeerIds
  <2>2. Send(c, current, peer) /\ mcpLock = NoRequester /\ mcpLock' = c
    BY <1>1 DEF Request
  <2>3. UNCHANGED <<current, results>>
    BY <1>1 DEF Request
  <2> QED
    BY <2>1, <2>2, <2>3, SendKeeps, McpAssumption DEF McpTypes, OneAtATime, OwnResults, KnownPeers
<1>2. ASSUME NEW c \in Requesters, RequestStarts(c) PROVE McpInv'
  BY <1>2, McpAssumption
  DEF RequestStarts, McpTypes, OneAtATime, OwnResults, KnownPeers, Frames
<1>3. ASSUME NEW c \in Requesters, Started(c) PROVE McpInv'
  <2>1. PICK k \in PeerIds :
          /\ peer[k] = Unborn
          /\ current' = k
          /\ Send(c, k, [peer EXCEPT ![k] = Running])
    BY <1>3 DEF Started
  <2>2. Running \in Peers /\ Running.state = "live"
    <3>1. <<>> \in Seq(Nat)
      OBVIOUS
    <3> QED BY <3>1 DEF Running, Unborn, Peers
  <2>3. [peer EXCEPT ![k] = Running] \in [PeerIds -> Peers]
    BY <2>2 DEF McpTypes
  <2>4. /\ request[c].at = "starting" /\ current = 0 /\ mcpLock = c
        /\ UNCHANGED <<mcpLock, results>>
    BY <1>3 DEF Started, OneAtATime
  <2>5. \A j \in PeerIds : [peer EXCEPT ![k] = Running][j].state = "live" => j = k
    BY <2>4, McpAssumption DEF McpTypes, KnownPeers, PeerIds
  <2>6. /\ peer' \in [PeerIds -> Peers] /\ nextId' \in Nat
        /\ request' \in [Requesters -> Frames]
        /\ request'[c].at = "reading" /\ request'[c].process = k
        /\ \A d \in Requesters : d # c => request'[d] = request[d]
        /\ \A j \in PeerIds : peer'[j].state = [peer EXCEPT ![k] = Running][j].state
    BY <2>1, <2>3, SendKeeps
  <2>7. McpTypes' /\ OwnResults' /\ KnownPeers'
    BY <2>1, <2>4, <2>5, <2>6, McpAssumption DEF McpTypes, OwnResults, KnownPeers, PeerIds
  <2>8. OneAtATime'
    BY <2>1, <2>4, <2>6 DEF OneAtATime
  <2> QED BY <2>7, <2>8
<1>4. ASSUME NEW c \in Requesters, StartFails(c) \/ PostFails(c) \/ CancelRequest(c)
      PROVE  McpInv'
  BY <1>4, ReleaseKeeps
  DEF StartFails, PostFails, CancelRequest, McpTypes, OneAtATime, OwnResults, KnownPeers
<1>5. ASSUME NEW c \in Requesters, Read(c) PROVE McpInv'
  <2> DEFINE k == request[c].process
             message == Head(peer[k].outbox)
  <2>1. k \in PeerIds /\ peer[k].outbox # <<>> /\ Release(c) /\ request[c].at # "idle"
    BY <1>5 DEF Read, OneAtATime
  <2>2. peer' = [peer EXCEPT ![k].outbox = Tail(@)]
    BY <1>5 DEF Read
  <2>3. Tail(peer[k].outbox) \in Seq(Nat)
    BY <2>1 DEF McpTypes, Peers
  <2>4. peer' \in [PeerIds -> Peers] /\ \A j \in PeerIds : peer'[j].state = peer[j].state
    BY <2>1, <2>2, <2>3 DEF McpTypes, Peers
  <2>5. results' \in {results, results \cup {<<request[c].id, request[c].id>>}}
    BY <1>5 DEF Read, IsResponse
  <2> QED
    BY <1>5, <2>1, <2>4, <2>5, ReleaseKeeps DEF Read, McpTypes, OneAtATime, OwnResults, KnownPeers
<1>6. ASSUME NEW c \in Requesters, ReadFails(c) PROVE McpInv'
  <2>1. AbortProcess /\ Release(c) /\ request[c].at # "idle" /\ UNCHANGED <<nextId, results>>
    BY <1>6 DEF ReadFails
  <2>2. peer' \in [PeerIds -> Peers]
    BY <2>1 DEF AbortProcess, McpTypes, Peers
  <2>3. ASSUME NEW j \in PeerIds PROVE peer'[j].state # "live"
    <3>1. CASE current = 0
      BY <2>1, <3>1, McpAssumption DEF AbortProcess, KnownPeers, PeerIds
    <3>2. CASE current # 0
      BY <2>1, <3>2 DEF AbortProcess, KnownPeers, McpTypes, Peers
    <3> QED BY <3>1, <3>2
  <2> QED
    BY <2>1, <2>2, <2>3, ReleaseKeeps, McpAssumption DEF AbortProcess, McpTypes, OneAtATime, OwnResults, KnownPeers
<1>7. ASSUME NEW c \in Requesters, Post(c) PROVE McpInv'
  BY <1>7, McpAssumption DEF Post, Resting, McpTypes, OneAtATime, OwnResults, KnownPeers, Frames
<1>8. ASSUME NEW c \in Requesters, Posted(c) PROVE McpInv'
  <2>1. OwnResults'
    BY <1>8 DEF Posted, IsResponse, OwnResults
  <2> QED
    BY <1>8, <2>1, ReleaseKeeps DEF Posted, McpTypes, OneAtATime, KnownPeers
<1>9. CASE CloseTransport
  <2>1. current \in PeerIds
    BY <1>9, McpAssumption DEF CloseTransport, McpTypes, PeerIds
  <2>2. peer' = [peer EXCEPT ![current].state = IF @ = "dead" THEN "dead" ELSE "closed"]
    BY <1>9 DEF CloseTransport
  <2>3. peer' \in [PeerIds -> Peers]
    BY <2>1, <2>2 DEF McpTypes, Peers
  <2>4. \A j \in PeerIds : peer'[j].state # "live"
    BY <2>1, <2>2 DEF McpTypes, KnownPeers, Peers
  <2> QED
    BY <1>9, <2>3, <2>4, McpAssumption DEF CloseTransport, McpTypes, OneAtATime, OwnResults, KnownPeers
<1>10. ASSUME NEW k \in PeerIds, PeerAnswers(k) PROVE McpInv'
  <2>1. /\ Tail(peer[k].inbox) \in Seq(Nat)
        /\ Append(peer[k].outbox, Head(peer[k].inbox)) \in Seq(Nat)
    BY <1>10 DEF PeerAnswers, McpTypes, Peers
  <2>2. peer' \in [PeerIds -> Peers] /\ \A j \in PeerIds : peer'[j].state = peer[j].state
    BY <1>10, <2>1 DEF PeerAnswers, McpTypes, Peers
  <2> QED
    BY <1>10, <2>2 DEF PeerAnswers, McpTypes, OneAtATime, OwnResults, KnownPeers
<1>11. ASSUME NEW k \in PeerIds, PeerNotifies(k) PROVE McpInv'
  <2>1. Append(peer[k].outbox, Notice) \in Seq(Nat)
    BY DEF McpTypes, Peers, Notice
  <2>2. peer' \in [PeerIds -> Peers] /\ \A j \in PeerIds : peer'[j].state = peer[j].state
    BY <1>11, <2>1 DEF PeerNotifies, McpTypes, Peers
  <2> QED
    BY <1>11, <2>2 DEF PeerNotifies, McpTypes, OneAtATime, OwnResults, KnownPeers
<1>12. ASSUME NEW k \in PeerIds, PeerEnds(k) PROVE McpInv'
  BY <1>12 DEF PeerEnds, McpTypes, OneAtATime, OwnResults, KnownPeers, Peers
<1>13. CASE UNCHANGED mcpVars
  BY <1>13 DEF mcpVars, McpTypes, OneAtATime, OwnResults, KnownPeers
<1> QED
  BY <1>1, <1>2, <1>3, <1>4, <1>5, <1>6, <1>7, <1>8, <1>9, <1>10, <1>11, <1>12, <1>13 DEF McpNext

\* Whatever is cancelled, times out or is started again (request(), _abort() and
\* aclose() of mcp.py), a request gets the answer to itself, and no peer lives
\* that the transport does not know.
THEOREM AnswersAreOwn == McpSpec => []AnswersOwn
<1>1. McpInv => AnswersOwn
  BY DEF McpInv, OwnResults, KnownPeers, AnswersOwn
<1> QED BY <1>1, McpStart, McpStep, PTL DEF McpSpec
-----------------------------------------------------------------------------
(* AuditLedger                                                              *)

Records == [seq : Nat, previous : Nat, id : Nat \ {0}, size : Nat, whole : BOOLEAN]

LedgerTypes ==
  /\ ledger \in Seq(Records)
  /\ drawn \in Nat
  /\ synced \in Nat /\ synced <= Len(ledger)
  /\ flock \in Writers \union {NoWriter}
  /\ entry \in [Writers -> Records \union {NoEntry}]

\* The record that comes after the first n.
Follows(log, n, record) ==
  /\ record.seq = n
  /\ record.previous = IF n = 0 THEN ZeroHash ELSE log[n].id

\* A chain, of which only the last record may be partial and all that is synced is whole.
Chained ==
  \A i \in 1..Len(ledger) :
    /\ Follows(ledger, i - 1, ledger[i])
    /\ i < Len(ledger) \/ i <= synced => ledger[i].whole
    /\ ledger[i].id <= drawn

\* Who has a record to write has the lock; until he begins, the log ends where he read it.
OneWrites ==
  \A w \in Writers : entry[w] # NoEntry =>
    /\ flock = w
    /\ entry[w].id <= drawn
    /\ ~Written(w) => /\ Follows(ledger, Len(ledger), entry[w])
                      /\ Len(ledger) = 0 \/ ledger[Len(ledger)].whole

AppendedSynced == \A r \in appended : \E i \in 1..Len(ledger) : i <= synced /\ ledger[i] = r

LedgerInv == LedgerTypes /\ Chained /\ OneWrites /\ AppendedSynced

\* A new log is empty.
LEMMA LedgerStart == LedgerInit => LedgerInv
  BY DEF LedgerInit, LedgerInv, LedgerTypes, Chained, OneWrites, AppendedSynced, NoEntry, Written

\* About sequences: the last item, what a cut leaves, and one more item.
LEMMA LastItem ==
  ASSUME NEW S, NEW s \in Seq(S)
  PROVE  /\ (s = <<>>) <=> (Len(s) = 0)
         /\ Last(s) = s[Len(s)]
  BY DEF Last

\* A sequence cut short.
LEMMA CutSequence ==
  ASSUME NEW S, NEW s \in Seq(S), NEW n \in 0..Len(s)
  PROVE  /\ SubSeq(s, 1, n) \in Seq(S) /\ Len(SubSeq(s, 1, n)) = n
         /\ \A i \in 1..n : SubSeq(s, 1, n)[i] = s[i]
  OBVIOUS

\* A sequence with one more item.
LEMMA OneMoreItem ==
  ASSUME NEW S, NEW s \in Seq(S), NEW item \in S
  PROVE  /\ Append(s, item) \in Seq(S) /\ Len(Append(s, item)) = Len(s) + 1
         /\ \A i \in 1..Len(s) : Append(s, item)[i] = s[i]
         /\ Append(s, item)[Len(s) + 1] = item
  OBVIOUS

\* The lock is released with the log as it is.
LEMMA UnlockKeeps ==
  ASSUME LedgerInv, NEW w \in Writers, Unlock(w), entry[w] # NoEntry,
         UNCHANGED <<ledger, synced, drawn, appended>>
  PROVE  LedgerInv'
  <1>1. LedgerTypes /\ Chained /\ OneWrites /\ AppendedSynced BY DEF LedgerInv
  <1>2. LedgerTypes' BY <1>1 DEF LedgerTypes, Unlock
  <1>3. \A v \in Writers : entry'[v] = NoEntry
    <2>1. \A v \in Writers : entry[v] # NoEntry => v = w BY <1>1 DEF OneWrites
    <2> QED BY <1>1, <2>1 DEF Unlock, LedgerTypes
  <1>4. OneWrites' BY <1>3 DEF OneWrites
  <1>5. Chained' BY <1>1 DEF Chained
  <1>6. AppendedSynced' BY <1>1 DEF AppendedSynced
  <1> QED BY <1>2, <1>4, <1>5, <1>6 DEF LedgerInv

\* One step of a writer, or a power loss.
LEMMA LedgerStep == LedgerInv /\ [LedgerNext]_ledgerVars => LedgerInv'
  <1> SUFFICES ASSUME LedgerInv, [LedgerNext]_ledgerVars PROVE LedgerInv'
    OBVIOUS
  <1>1. LedgerTypes /\ Chained /\ OneWrites /\ AppendedSynced BY DEF LedgerInv
  <1>2. Len(ledger) \in Nat BY <1>1 DEF LedgerTypes
  <1>3. CASE UNCHANGED ledgerVars
    BY <1>3 DEF ledgerVars, LedgerInv, LedgerTypes, Chained, OneWrites, AppendedSynced, Written
  <1>4. ASSUME NEW w \in Writers, BeginAppend(w) PROVE LedgerInv'
    <2>1. PICK size \in 1..MaxEventBytes : entry' = [entry EXCEPT ![w] = Successor(ledger, drawn + 1, size)]
      BY <1>4 DEF BeginAppend
    <2>2. size \in Nat BY <2>1, LedgerAssumption
    <2>3. PICK record : record = Successor(ledger, drawn + 1, size) OBVIOUS
    <2>4. /\ record \in Records /\ record.id = drawn + 1
          /\ Follows(ledger, Len(ledger), record)
          /\ Len(ledger) = 0 \/ ledger[Len(ledger)].whole
      <3>1. CASE Len(ledger) = 0
        <4>1. ledger = <<>> BY <1>1, <3>1, LastItem DEF LedgerTypes
        <4> QED BY <1>1, <2>2, <2>3, <3>1, <4>1 DEF LedgerTypes, Successor, Records, Follows, ZeroHash
      <3>2. CASE Len(ledger) # 0
        <4>1. ledger # <<>> /\ Last(ledger) = ledger[Len(ledger)] BY <1>1, <3>2, LastItem DEF LedgerTypes
        <4>2. ledger[Len(ledger)].whole BY <1>4, <4>1 DEF BeginAppend, LastReadable
        <4>3. ledger[Len(ledger)] \in Records BY <1>1, <1>2, <3>2 DEF LedgerTypes
        <4>4. Follows(ledger, Len(ledger) - 1, ledger[Len(ledger)]) BY <1>1, <1>2, <3>2 DEF Chained
        <4>5. ledger[Len(ledger)].seq + 1 = Len(ledger) BY <1>2, <4>4 DEF Follows
        <4> QED BY <1>1, <1>2, <2>2, <2>3, <3>2, <4>1, <4>2, <4>3, <4>5
                DEF LedgerTypes, Successor, Records, Follows
      <3> QED BY <3>1, <3>2
    <2>5. entry' = [entry EXCEPT ![w] = record] BY <2>1, <2>3
    <2> HIDE <2>3
    <2>6. LedgerTypes' BY <1>1, <1>4, <2>4, <2>5 DEF LedgerTypes, BeginAppend
    <2>7. Chained'
      <3>0. \A i \in 1..Len(ledger) : ledger[i] \in Records BY <1>1 DEF LedgerTypes
      <3>1. \A i \in 1..Len(ledger) : ledger[i].id \in Nat BY <3>0 DEF Records
      <3>2. drawn' = drawn + 1 /\ ledger' = ledger /\ synced' = synced /\ drawn \in Nat
        BY <1>1, <1>4 DEF BeginAppend, LedgerTypes
      <3>3. \A i \in 1..Len(ledger) : ledger[i].id <= drawn + 1 BY <1>1, <3>1, <3>2 DEF Chained
      <3> QED BY <1>1, <3>2, <3>3 DEF Chained
    <2>8. OneWrites'
      <3> SUFFICES ASSUME NEW v \in Writers, entry'[v] # NoEntry
                   PROVE  /\ flock' = v /\ entry'[v].id <= drawn'
                          /\ Follows(ledger, Len(ledger), entry'[v])
                          /\ Len(ledger) = 0 \/ ledger[Len(ledger)].whole
        BY <1>4 DEF OneWrites, BeginAppend
      <3>1. v = w
        <4>1. CASE v # w
          <5>1. entry[v] # NoEntry BY <1>1, <2>5, <4>1 DEF LedgerTypes
          <5>2. flock = v BY <1>1, <5>1 DEF OneWrites
          <5> QED BY <1>4, <5>2, LedgerAssumption DEF BeginAppend, LockFree
        <4> QED BY <4>1
      <3>2. entry'[v] = record BY <1>1, <2>5, <3>1 DEF LedgerTypes
      <3> QED BY <1>1, <1>4, <2>4, <3>1, <3>2 DEF BeginAppend, LedgerTypes
    <2>9. AppendedSynced' BY <1>1, <1>4 DEF AppendedSynced, BeginAppend
    <2> QED BY <2>6, <2>7, <2>8, <2>9 DEF LedgerInv
  <1>5. ASSUME NEW w \in Writers, NEW whole \in BOOLEAN, Write(w, whole) PROVE LedgerInv'
    <2>1. /\ entry[w] \in Records /\ flock = w /\ entry[w].id <= drawn
          /\ UNCHANGED <<synced, flock, entry, drawn, appended>>
      BY <1>1, <1>5 DEF Write, LedgerTypes, OneWrites
    <2>2. \A v \in Writers : entry[v] # NoEntry => v = w BY <1>1, <2>1 DEF OneWrites
    <2>3. CASE Written(w)
      <3>1. /\ ledger # <<>> /\ Len(ledger) # 0 /\ Last(ledger) = ledger[Len(ledger)]
        BY <1>1, <2>3, LastItem DEF LedgerTypes, Written
      <3>2. /\ ~ledger[Len(ledger)].whole /\ whole
            /\ ledger' = [ledger EXCEPT ![Len(ledger)].whole = TRUE]
        BY <1>5, <2>3, <3>1 DEF Write
      <3>3. ledger[Len(ledger)] \in Records BY <1>1, <1>2, <3>1 DEF LedgerTypes
      <3>4. PICK last : last = [ledger[Len(ledger)] EXCEPT !.whole = TRUE] OBVIOUS
      <3>5. /\ last \in Records /\ last.whole /\ last.id = ledger[Len(ledger)].id
            /\ last.seq = ledger[Len(ledger)].seq /\ last.previous = ledger[Len(ledger)].previous
        BY <3>3, <3>4 DEF Records
      <3>6. ledger' = [ledger EXCEPT ![Len(ledger)] = last] BY <1>1, <3>2, <3>4 DEF LedgerTypes
      <3> HIDE <3>4
      <3>7. /\ ledger' \in Seq(Records) /\ Len(ledger') = Len(ledger)
            /\ \A i \in 1..Len(ledger) : i # Len(ledger) => ledger'[i] = ledger[i]
            /\ ledger'[Len(ledger)] = last
        BY <1>1, <1>2, <3>1, <3>5, <3>6 DEF LedgerTypes
      <3>8. Last(ledger') = last /\ ledger' # <<>>
        BY <3>1, <3>7, LastItem
      <3>9. LedgerTypes' BY <1>1, <2>1, <3>7 DEF LedgerTypes
      <3>10. \A i \in 1..Len(ledger) : ledger'[i].id = ledger[i].id
        BY <3>5, <3>7
      <3>11. Chained'
        <4> SUFFICES ASSUME NEW i \in 1..Len(ledger)
                     PROVE  /\ Follows(ledger', i - 1, ledger'[i])
                            /\ i < Len(ledger) \/ i <= synced => ledger'[i].whole
                            /\ ledger'[i].id <= drawn
          BY <2>1, <3>7 DEF Chained
        <4>1. /\ Follows(ledger, i - 1, ledger[i]) /\ ledger[i].id <= drawn
              /\ i < Len(ledger) \/ i <= synced => ledger[i].whole
          BY <1>1 DEF Chained
        <4>2. ledger'[i].seq = ledger[i].seq /\ ledger'[i].previous = ledger[i].previous
          BY <3>5, <3>7
        <4>3. i - 1 = 0 \/ ledger'[i - 1].id = ledger[i - 1].id BY <1>2, <3>10
        <4>4. ledger[i].whole => ledger'[i].whole BY <3>5, <3>7
        <4> QED BY <3>10, <4>1, <4>2, <4>3, <4>4 DEF Follows
      <3>12. OneWrites'
        <4> SUFFICES ASSUME NEW v \in Writers, entry[v] # NoEntry
                     PROVE  /\ flock = v /\ entry[v].id <= drawn /\ Written(v)'
          BY <2>1 DEF OneWrites
        <4>1. v = w BY <2>2
        <4>2. Last(ledger').id = entry[w].id BY <2>3, <3>1, <3>5, <3>8 DEF Written
        <4>3. Written(v)' BY <2>1, <3>8, <4>1, <4>2 DEF Written
        <4> QED BY <2>1, <4>1, <4>3
      <3>13. AppendedSynced'
        <4> SUFFICES ASSUME NEW r \in appended
                     PROVE  \E i \in 1..Len(ledger) : i <= synced /\ ledger'[i] = r
          BY <2>1, <3>7 DEF AppendedSynced
        <4>1. PICK i \in 1..Len(ledger) : i <= synced /\ ledger[i] = r BY <1>1 DEF AppendedSynced
        <4>2. ledger[i].whole BY <1>1, <4>1 DEF Chained
        <4> QED BY <3>2, <3>7, <4>1, <4>2
      <3> QED BY <3>9, <3>11, <3>12, <3>13 DEF LedgerInv
    <2>4. CASE ~Written(w)
      <3>1. /\ Follows(ledger, Len(ledger), entry[w])
            /\ Len(ledger) = 0 \/ ledger[Len(ledger)].whole
        BY <1>1, <1>5, <2>4 DEF OneWrites, Write
      <3>2. PICK record : record = [entry[w] EXCEPT !.whole = whole] OBVIOUS
      <3>3. /\ record \in Records /\ record.id = entry[w].id
            /\ record.seq = entry[w].seq /\ record.previous = entry[w].previous
        BY <2>1, <3>2 DEF Records
      <3>4. ledger' = Append(ledger, record) BY <1>5, <2>4, <3>2 DEF Write
      <3> HIDE <3>2
      <3>5. /\ ledger' \in Seq(Records) /\ Len(ledger') = Len(ledger) + 1
            /\ \A i \in 1..Len(ledger) : ledger'[i] = ledger[i]
            /\ ledger'[Len(ledger) + 1] = record
        BY <1>1, <3>3, <3>4, OneMoreItem DEF LedgerTypes
      <3>6. Last(ledger') = record /\ ledger' # <<>> BY <1>2, <3>5, LastItem
      <3>7. LedgerTypes' BY <1>1, <1>2, <2>1, <3>5 DEF LedgerTypes
      <3>8. Chained'
        <4> SUFFICES ASSUME NEW i \in 1..(Len(ledger) + 1)
                     PROVE  /\ Follows(ledger', i - 1, ledger'[i])
                            /\ i < Len(ledger) + 1 \/ i <= synced => ledger'[i].whole
                            /\ ledger'[i].id <= drawn
          BY <2>1, <3>5 DEF Chained
        <4>1. i - 1 = 0 \/ ledger'[i - 1] = ledger[i - 1] BY <1>2, <3>5
        <4>2. CASE i = Len(ledger) + 1
          BY <1>1, <1>2, <2>1, <3>1, <3>3, <3>5, <4>1, <4>2 DEF Follows, LedgerTypes
        <4>3. CASE i # Len(ledger) + 1
          <5>1. i \in 1..Len(ledger) /\ ledger'[i] = ledger[i] BY <1>2, <3>5, <4>3
          <5>2. /\ Follows(ledger, i - 1, ledger[i]) /\ ledger[i].id <= drawn
                /\ i < Len(ledger) => ledger[i].whole
            BY <1>1, <5>1 DEF Chained
          <5>3. ledger[i].whole BY <1>2, <3>1, <5>1, <5>2
          <5> QED BY <4>1, <5>1, <5>2, <5>3 DEF Follows
        <4> QED BY <4>2, <4>3
      <3>9. OneWrites'
        <4> SUFFICES ASSUME NEW v \in Writers, entry[v] # NoEntry
                     PROVE  /\ flock = v /\ entry[v].id <= drawn /\ Written(v)'
          BY <2>1 DEF OneWrites
        <4>1. v = w BY <2>2
        <4>2. Written(v)' BY <2>1, <3>3, <3>6, <4>1 DEF Written
        <4> QED BY <2>1, <4>1, <4>2
      <3>10. AppendedSynced' BY <1>1, <1>2, <2>1, <3>5 DEF AppendedSynced
      <3> QED BY <3>7, <3>8, <3>9, <3>10 DEF LedgerInv
    <2> QED BY <2>3, <2>4
  <1>6. ASSUME NEW w \in Writers, EndAppend(w) PROVE LedgerInv'
    <2>1. /\ ledger # <<>> /\ Len(ledger) # 0 /\ Last(ledger) = ledger[Len(ledger)]
          /\ ledger[Len(ledger)].whole
      BY <1>1, <1>6, LastItem DEF LedgerTypes, EndAppend, Written
    <2>2. /\ synced' = Len(ledger) /\ appended' = appended \union {ledger[Len(ledger)]}
          /\ UNCHANGED <<ledger, drawn>> /\ Unlock(w) /\ entry[w] # NoEntry
      BY <1>6, <2>1 DEF EndAppend, SyncAll
    <2>3. LedgerTypes' BY <1>1, <1>2, <2>2 DEF LedgerTypes, Unlock
    <2>4. \A v \in Writers : entry'[v] = NoEntry
      <3>1. \A v \in Writers : entry[v] # NoEntry => v = w BY <1>1, <2>2 DEF OneWrites
      <3> QED BY <1>1, <2>2, <3>1 DEF Unlock, LedgerTypes
    <2>5. OneWrites' BY <2>4 DEF OneWrites
    <2>6. Chained' BY <1>1, <1>2, <2>1, <2>2 DEF Chained
    <2>7. AppendedSynced'
      <3> SUFFICES ASSUME NEW r \in appended'
                   PROVE  \E i \in 1..Len(ledger) : i <= Len(ledger) /\ ledger[i] = r
        BY <2>2 DEF AppendedSynced
      <3>1. CASE r \in appended BY <1>1, <1>2, <3>1 DEF AppendedSynced
      <3>2. CASE r = ledger[Len(ledger)] BY <1>2, <2>1, <3>2
      <3> QED BY <2>2, <3>1, <3>2
    <2> QED BY <2>3, <2>5, <2>6, <2>7 DEF LedgerInv
  <1>7. ASSUME NEW w \in Writers, AbandonAppend(w) PROVE LedgerInv'
    BY <1>7, UnlockKeeps DEF AbandonAppend
  <1>8. CASE PowerLoss
    <2>1. PICK n \in synced..Len(ledger) : ledger' = SubSeq(ledger, 1, n) BY <1>8 DEF PowerLoss
    <2>2. n \in 0..Len(ledger) /\ synced <= n BY <1>1, <1>2, <2>1 DEF LedgerTypes
    <2>3. /\ ledger' \in Seq(Records) /\ Len(ledger') = n
          /\ \A i \in 1..n : ledger'[i] = ledger[i]
      BY <1>1, <2>1, <2>2, CutSequence DEF LedgerTypes
    <2>4. UNCHANGED <<synced, drawn, appended>> BY <1>8 DEF PowerLoss
    <2>5. LedgerTypes' BY <1>1, <1>8, <2>2, <2>3, <2>4 DEF LedgerTypes, PowerLoss
    <2>6. OneWrites' BY <1>8 DEF OneWrites, PowerLoss
    <2>7. Chained'
      <3> SUFFICES ASSUME NEW i \in 1..n
                   PROVE  /\ Follows(ledger', i - 1, ledger'[i])
                          /\ i < n \/ i <= synced => ledger'[i].whole
                          /\ ledger'[i].id <= drawn
        BY <2>3, <2>4 DEF Chained
      <3>1. i \in 1..Len(ledger) /\ ledger'[i] = ledger[i] BY <1>2, <2>2, <2>3
      <3>2. i - 1 = 0 \/ ledger'[i - 1] = ledger[i - 1] BY <1>2, <2>2, <2>3
      <3>3. /\ Follows(ledger, i - 1, ledger[i]) /\ ledger[i].id <= drawn
            /\ i < Len(ledger) \/ i <= synced => ledger[i].whole
        BY <1>1, <3>1 DEF Chained
      <3>4. i < n => i < Len(ledger) BY <1>2, <2>2
      <3> QED BY <3>1, <3>2, <3>3, <3>4 DEF Follows
    <2>8. AppendedSynced' BY <1>1, <1>2, <2>2, <2>3, <2>4 DEF AppendedSynced, LedgerTypes
    <2> QED BY <2>5, <2>6, <2>7, <2>8 DEF LedgerInv
  <1> QED BY <1>3, <1>4, <1>5, <1>6, <1>7, <1>8 DEF LedgerNext

\* However many processes append, whatever write fails and whenever the machine stops
\* (append(), _last_entry() and verify() of audit.py): the records are a chain that
\* verifies, but for a partial last one, and an append that has returned is in it.
THEOREM LedgerIsSound == AuditSpec => []LedgerSound
  <1>1. LedgerInv => LedgerSound
    <2> SUFFICES ASSUME LedgerInv PROVE LedgerSound
      OBVIOUS
    <2>1. LedgerTypes /\ Chained /\ AppendedSynced BY DEF LedgerInv
    <2>2. Len(ledger) \in Nat /\ DOMAIN ledger = 1..Len(ledger) /\ ledger \in Seq(Records)
      BY <2>1 DEF LedgerTypes
    <2>3. appended \subseteq ToSet(ledger) BY <2>1, <2>2 DEF AppendedSynced, ToSet
    <2>4. \A i \in 1..Len(ledger) :
            /\ ledger[i].seq = i - 1
            /\ ledger[i].previous = (IF i = 1 THEN ZeroHash ELSE ledger[i - 1].id)
            /\ i < Len(ledger) => ledger[i].whole
      BY <2>1, <2>2 DEF Chained, Follows
    <2>5. CASE Len(ledger) = 0 \/ ledger[Len(ledger)].whole
      <3>1. \A i \in 1..Len(ledger) : ledger[i].whole BY <2>2, <2>4, <2>5
      <3>2. Verifies(ledger) BY <2>2, <2>4, <3>1 DEF Verifies
      <3> QED BY <2>3, <3>2 DEF LedgerSound
    <2>6. CASE ~(Len(ledger) = 0 \/ ledger[Len(ledger)].whole)
      <3>1. ~Last(ledger).whole BY <2>2, <2>6, LastItem
      <3>0. Len(ledger) # 0 /\ Len(ledger) - 1 \in 0..Len(ledger) BY <2>2, <2>6
      <3>2. PICK n \in 0..Len(ledger) : n = Len(ledger) - 1 BY <3>0
      <3>3. PICK front : front = SubSeq(ledger, 1, n) OBVIOUS
      <3>4. /\ front \in Seq(Records) /\ Len(front) = n
            /\ \A i \in 1..n : front[i] = ledger[i]
        BY <2>2, <3>3, CutSequence
      <3>5. DOMAIN front = 1..n BY <3>4
      <3>6. Verifies(front)
        <4> SUFFICES ASSUME NEW i \in 1..n
                     PROVE  /\ front[i].whole /\ front[i].seq = i - 1
                            /\ front[i].previous = (IF i = 1 THEN ZeroHash ELSE front[i - 1].id)
          BY <3>5 DEF Verifies
        <4>1. i \in 1..Len(ledger) /\ i < Len(ledger) BY <2>2, <3>2
        <4>2. front[i] = ledger[i] BY <3>4
        <4>3. i = 1 \/ front[i - 1] = ledger[i - 1] BY <3>2, <3>4
        <4> QED BY <2>4, <4>1, <4>2, <4>3
      <3>7. Front(ledger) = front BY <3>2, <3>3 DEF Front
      <3> QED BY <2>3, <3>1, <3>6, <3>7 DEF LedgerSound
    <2> QED BY <2>5, <2>6
  <1> QED BY LedgerStart, LedgerStep, <1>1, PTL DEF AuditSpec
-----------------------------------------------------------------------------
(* ToolGate                                                                 *)

Phases == {"pre_tool", "post_tool", "denied"}
Runs == [phase : Phases, next : Nat, failed : SUBSET DOMAIN Hooks]
Decisions == [context : Contexts, call : Calls, outcome : {"allow", "ask", "deny"},
              source : {"policy", "user"}]

\* The order of rules (the key of decide() in permissions.py) compares any two of them.
LEMMA BeforeOrders ==
  ASSUME NEW r \in RuleSet, NEW s \in RuleSet, NEW t \in RuleSet
  PROVE  /\ Before(r, r)
         /\ Before(r, s) \/ Before(s, r)
         /\ Before(r, s) /\ Before(s, t) => Before(r, t)
  <1>1. /\ r.priority \in Int /\ s.priority \in Int /\ t.priority \in Int
        /\ r.id \in Nat /\ s.id \in Nat /\ t.id \in Nat
        /\ r.effect \in {"allow", "ask", "deny"} /\ s.effect \in {"allow", "ask", "deny"}
        /\ t.effect \in {"allow", "ask", "deny"}
    BY GateAssumption
  <1>2. \A e \in {"allow", "ask", "deny"} : Precedence[e] \in Int BY DEF Precedence
  <1>3. /\ Precedence[r.effect] \in Int /\ Precedence[s.effect] \in Int /\ Precedence[t.effect] \in Int
    BY <1>1, <1>2
  <1> QED BY <1>1, <1>3 DEF Before

\* Of some rules one comes before all the others: fewest come before it.
LEMMA FirstRule ==
  ASSUME NEW M \in SUBSET RuleSet, M # {}
  PROVE  \E r \in M : \A s \in M : Before(r, s)
  <1> DEFINE Ahead(r) == {s \in M : ~Before(r, s)}
             HookPlaces == {Cardinality(Ahead(r)) : r \in M}
  <1>1. IsFiniteSet(M) BY GateAssumption, FS_Subset
  <1>2. \A r \in M : IsFiniteSet(Ahead(r)) /\ Cardinality(Ahead(r)) \in Nat
    BY <1>1, FS_Subset, FS_CardinalityType
  <1>3. HookPlaces \in SUBSET Nat /\ HookPlaces # {} BY <1>2
  <1>4. PICK place \in HookPlaces : \A other \in HookPlaces : place <= other
    <2> HIDE DEF HookPlaces
    <2> QED BY <1>3, Least
  <1>5. PICK r \in M : place = Cardinality(Ahead(r)) OBVIOUS
  <1>6. ASSUME NEW s \in M, ~Before(r, s) PROVE FALSE
    <2>1. place <= Cardinality(Ahead(s)) BY <1>4
    <2>2. s \in RuleSet /\ r \in RuleSet OBVIOUS
    <2>3. ASSUME NEW t \in M, Before(r, t) PROVE Before(s, t)
      BY <1>6, <2>2, <2>3, BeforeOrders
    <2>4. Ahead(s) \in SUBSET Ahead(r) BY <2>3
    <2>5. s \in Ahead(r) /\ s \notin Ahead(s) BY <1>6, <2>2, BeforeOrders
    <2>6. /\ Cardinality(Ahead(s)) <= Cardinality(Ahead(r))
          /\ Cardinality(Ahead(s)) # Cardinality(Ahead(r))
      <3>1. Ahead(s) # Ahead(r) BY <2>5
      <3> HIDE DEF Ahead
      <3> QED BY <1>2, <2>4, <3>1, FS_Subset
    <2> QED BY <1>2, <1>5, <2>1, <2>6
  <1> QED BY <1>6

\* What decide() rules is the strictest of the rules of the highest priority.
LEMMA RulingStrictest ==
  ASSUME NEW call, rules \subseteq RuleSet, default = "ask"
  PROVE  /\ Ruling(call) \in {"allow", "ask", "deny"}
         /\ "deny" \in Ranking(call) => Ruling(call) = "deny"
         /\ "ask" \in Ranking(call) => Ruling(call) \in {"ask", "deny"}
  <1>1. PICK M : M = Matching(call) OBVIOUS
  <1>2. M \subseteq RuleSet BY <1>1 DEF Matching
  <1>3. PICK top : top = {r \in M : \A s \in M : s.priority <= r.priority} OBVIOUS
  <1>4. Ranking(call) = IF top = {} THEN {default} ELSE {r.effect : r \in top}
    BY <1>1, <1>3 DEF Ranking
  <1>5. CASE M = {}
    BY <1>1, <1>3, <1>4, <1>5 DEF Ruling
  <1>6. CASE M # {}
    <2>1. \E r \in M : \A s \in M : Before(r, s) BY <1>2, <1>6, FirstRule
    <2>2. PICK first : first = CHOOSE r \in M : \A s \in M : Before(r, s) OBVIOUS
    <2>3. first \in M /\ \A s \in M : Before(first, s) BY <2>1, <2>2
    <2>4. Ruling(call) = first.effect BY <1>1, <1>6, <2>2 DEF Ruling
    <2>5. \A r \in M : r.priority \in Int /\ r.id \in Nat /\ r.effect \in {"allow", "ask", "deny"}
      BY <1>2, GateAssumption
    <2>6. \A s \in M : s.priority <= first.priority BY <2>3, <2>5 DEF Before
    <2>7. first \in top BY <1>3, <2>3, <2>6
    <2>8. \A t \in top : t \in M /\ t.priority = first.priority
      BY <1>3, <2>3, <2>5, <2>6
    <2>9. ASSUME NEW t \in top PROVE Precedence[first.effect] >= Precedence[t.effect]
      <3>1. Precedence[first.effect] \in Int /\ Precedence[t.effect] \in Int
        BY <2>3, <2>5, <2>8 DEF Precedence
      <3>2. Before(first, t) /\ first.priority = t.priority /\ first.priority \in Int
        BY <2>3, <2>5, <2>8
      <3> QED BY <3>1, <3>2 DEF Before
    <2>10. first.effect \in {"allow", "ask", "deny"} BY <2>3, <2>5
    <2>11. ASSUME NEW t \in top, t.effect = "deny" PROVE first.effect = "deny"
      BY <2>9, <2>10, <2>11 DEF Precedence
    <2>12. ASSUME NEW t \in top, t.effect = "ask" PROVE first.effect \in {"ask", "deny"}
      BY <2>9, <2>10, <2>12 DEF Precedence
    <2>13. Ranking(call) = {r.effect : r \in top} BY <1>4, <2>7
    <2> QED BY <2>4, <2>10, <2>11, <2>12, <2>13
  <1> QED BY <1>5, <1>6

\* About sequences: what is in them.
LEMMA ItemOf == ASSUME NEW S, NEW s \in Seq(S), NEW i \in DOMAIN s PROVE s[i] \in S
  OBVIOUS

\* The next hook is a place of the loop, or the one beyond its end.
LEMMA NextPlace ==
  ASSUME NEW phase, NEW i \in 1..(Len(Hooks) + 1)
  PROVE  NextHook(phase, i) \in Nat
  <1> DEFINE Stops == {j \in i..(Len(Hooks) + 1) : j = Len(Hooks) + 1 \/ Hooks[j].phase = phase}
  <1>1. Len(Hooks) \in Nat BY GateAssumption
  <1>2. Stops \in SUBSET Nat /\ Len(Hooks) + 1 \in Stops BY <1>1
  <1>3. PICK j \in Stops : \A k \in Stops : j <= k
    <2> HIDE DEF Stops
    <2> QED BY <1>2, Least
  <1>4. \A k \in i..(j - 1) : Hooks[k].phase # phase BY <1>1, <1>3
  <1>5. /\ j \in i..(Len(Hooks) + 1)
        /\ j = Len(Hooks) + 1 \/ Hooks[j].phase = phase
        /\ \A k \in i..(j - 1) : Hooks[k].phase # phase
    BY <1>3, <1>4
  <1>6. NextHook(phase, i) \in i..(Len(Hooks) + 1) BY <1>5 DEF NextHook
  <1> QED BY <1>1, <1>6

GateTypes ==
  /\ rules \subseteq RuleSet /\ default = "ask"
  /\ decisions \subseteq Decisions
  /\ runner \in [Calls -> Runs]

\* A decision of the policy is its ruling; a user has only answered where the policy asks.
DecisionsSound ==
  \A d \in decisions :
    /\ d.source = "policy" => d.outcome = Ruling(d.call)
    /\ d.source = "user" => Ruling(d.call) = "ask" /\ d.outcome # "ask"

\* A run goes on past a hook that failed only if the hook may fail.
FailuresOpen == \A c \in Calls : \A i \in runner[c].failed : Hooks[i].policy = "fail_open"

GateInv == GateTypes /\ DecisionsSound /\ FailuresOpen

\* A new policy has decided nothing and no hook has run.
LEMMA GateStart == GateInit => GateInv
  <1> SUFFICES ASSUME GateInit PROVE GateInv
    OBVIOUS
  <1>1. Unrun \in Runs /\ Unrun.failed = {} BY DEF Unrun, Runs, Phases
  <1>2. runner \in [Calls -> Runs] /\ \A c \in Calls : runner[c] = Unrun
    BY <1>1 DEF GateInit
  <1> QED BY <1>1, <1>2 DEF GateInit, GateInv, GateTypes, DecisionsSound, FailuresOpen

\* The run of one call moves on.
LEMMA RunKeeps ==
  ASSUME GateInv, NEW c \in Calls, NEW run \in Runs, runner' = [runner EXCEPT ![c] = run],
         \A i \in run.failed : Hooks[i].policy = "fail_open",
         UNCHANGED <<rules, default, decisions>>
  PROVE  GateInv'
  <1>1. GateTypes /\ DecisionsSound /\ FailuresOpen BY DEF GateInv
  <1>2. GateTypes' BY <1>1 DEF GateTypes
  <1>3. \A b \in Calls : runner'[b] = IF b = c THEN run ELSE runner[b] BY <1>1 DEF GateTypes
  <1>4. FailuresOpen' BY <1>1, <1>3 DEF FailuresOpen
  <1>5. DecisionsSound' BY <1>1 DEF DecisionsSound, Ruling, Matching
  <1> QED BY <1>2, <1>4, <1>5 DEF GateInv

\* One more decision.
LEMMA DecisionKeeps ==
  ASSUME GateInv, NEW d \in Decisions, decisions' = decisions \union {d},
         UNCHANGED <<rules, default, runner>>,
         d.source = "policy" => d.outcome = Ruling(d.call),
         d.source = "user" => Ruling(d.call) = "ask" /\ d.outcome # "ask"
  PROVE  GateInv'
  <1>1. GateTypes /\ DecisionsSound /\ FailuresOpen BY DEF GateInv
  <1>2. GateTypes' BY <1>1 DEF GateTypes
  <1>3. FailuresOpen' BY <1>1 DEF FailuresOpen
  <1>4. \A c : Ruling(c)' = Ruling(c) BY DEF Ruling, Matching
  <1>5. \A e \in decisions' : e \in decisions \/ e = d OBVIOUS
  <1>6. DecisionsSound' BY <1>1, <1>4, <1>5 DEF DecisionsSound
  <1> QED BY <1>2, <1>3, <1>6 DEF GateInv

\* One step of the policy, the plans, the hooks or the dispatcher.
LEMMA GateStep == GateInv /\ [GateNext]_gateVars => GateInv'
  <1> SUFFICES ASSUME GateInv, [GateNext]_gateVars PROVE GateInv'
    OBVIOUS
  <1>1. GateTypes /\ DecisionsSound /\ FailuresOpen BY DEF GateInv
  <1>2. ASSUME UNCHANGED <<rules, default, decisions, runner>> PROVE GateInv'
    BY <1>1, <1>2 DEF GateInv, GateTypes, DecisionsSound, FailuresOpen, Ruling, Matching
  <1>3. ASSUME NEW k \in Contexts, NEW c \in Calls, Decide(k, c) PROVE GateInv'
    <2>1. PICK d : d = Decision(k, c, Ruling(c), "policy") OBVIOUS
    <2>2. Ruling(c) \in {"allow", "ask", "deny"} BY <1>1, RulingStrictest DEF GateTypes
    <2>3. d \in Decisions /\ d.source = "policy" /\ d.outcome = Ruling(d.call)
      BY <2>1, <2>2 DEF Decision, Decisions
    <2>4. decisions' = decisions \union {d} /\ UNCHANGED <<rules, default, runner>>
      BY <1>3, <2>1 DEF Decide
    <2> HIDE <2>1
    <2> QED BY <2>3, <2>4, DecisionKeeps
  <1>4. ASSUME NEW d \in decisions, NEW o \in {"allow", "deny"}, ResolveAsk(d, o) PROVE GateInv'
    <2>1. d \in Decisions /\ d.outcome = "ask" BY <1>1, <1>4 DEF GateTypes, ResolveAsk
    <2>2. Ruling(d.call) = "ask" BY <1>1, <2>1 DEF DecisionsSound, Decisions
    <2>3. PICK e : e = Decision(d.context, d.call, o, "user") OBVIOUS
    <2>4. /\ e \in Decisions /\ e.source = "user" /\ e.call = d.call /\ e.outcome # "ask"
      BY <2>1, <2>3 DEF Decision, Decisions
    <2>5. decisions' = decisions \union {e} /\ UNCHANGED <<rules, default, runner>>
      BY <1>4, <2>3 DEF ResolveAsk
    <2> HIDE <2>3
    <2> QED BY <2>2, <2>4, <2>5, DecisionKeeps
  <1>5. ASSUME NEW c \in Calls, NEW p \in {"pre_tool", "post_tool"}, RunHooks(c, p) PROVE GateInv'
    <2>1. PICK run : run = [runner[c] EXCEPT !.phase = p, !.next = NextHook(p, 1)] OBVIOUS
    <2>2. Len(Hooks) \in Nat BY GateAssumption
    <2>3. NextHook(p, 1) \in Nat BY <2>2, NextPlace
    <2>4. runner[c] \in Runs BY <1>1 DEF GateTypes
    <2>5. run \in Runs /\ run.failed = runner[c].failed BY <2>1, <2>3, <2>4 DEF Runs, Phases
    <2>6. runner' = [runner EXCEPT ![c] = run] /\ UNCHANGED <<rules, default, decisions>>
      BY <1>1, <1>5, <2>1, <2>4 DEF RunHooks, GateTypes, Runs
    <2> HIDE <2>1
    <2> QED BY <1>1, <2>5, <2>6, RunKeeps DEF FailuresOpen
  <1>6. Halted \in Runs /\ Halted.failed = {} BY DEF Halted, Unrun, Runs, Phases
  <1>7. ASSUME NEW c \in Calls, NEW a \in {"allow", "deny", "fails"}, HookAnswers(c, a) PROVE GateInv'
    <2>1. runner[c] \in Runs /\ runner[c].next \in DOMAIN Hooks
      BY <1>1, <1>7 DEF GateTypes, HookAnswers
    <2>2. UNCHANGED <<rules, default, decisions>> BY <1>7 DEF HookAnswers
    <2>3. CASE Verdict(Hooks[runner[c].next], a) = "deny"
      <3>1. runner' = [runner EXCEPT ![c] = Halted] BY <1>7, <2>3 DEF HookAnswers
      <3> QED BY <1>6, <2>2, <3>1, RunKeeps
    <2>4. CASE Verdict(Hooks[runner[c].next], a) # "deny"
      <3>1. PICK failed : failed = runner[c].failed \union (IF a = "fails" THEN {runner[c].next} ELSE {})
        OBVIOUS
      <3>2. failed \in SUBSET DOMAIN Hooks BY <2>1, <3>1 DEF Runs
      <3>3. \A i \in failed : Hooks[i].policy = "fail_open"
        <4>1. Hooks[runner[c].next].policy \in {"fail_closed", "fail_open"}
          <5> DEFINE HookSet == [phase : {"pre_tool", "post_tool"}, policy : {"fail_closed", "fail_open"}]
          <5>0. Hooks \in Seq(HookSet) BY GateAssumption
          <5>1. \A i \in DOMAIN Hooks : Hooks[i] \in HookSet
            <6> HIDE DEF HookSet
            <6> QED BY <5>0, ItemOf
          <5>2. \A i \in DOMAIN Hooks : Hooks[i].policy \in {"fail_closed", "fail_open"} BY <5>1
          <5> QED BY <2>1, <5>2
        <4>2. a = "fails" => Hooks[runner[c].next].policy = "fail_open"
          BY <2>4, <4>1 DEF Verdict
        <4> QED BY <1>1, <3>1, <4>2 DEF FailuresOpen
      <3>4. PICK run : run = [runner[c] EXCEPT !.next = NextHook(runner[c].phase, runner[c].next + 1),
                                               !.failed = failed]
        OBVIOUS
      <3>5. runner[c].next + 1 \in 1..(Len(Hooks) + 1) BY <2>1, GateAssumption
      <3>6. NextHook(runner[c].phase, runner[c].next + 1) \in Nat BY <3>5, NextPlace
      <3>7. run \in Runs /\ run.failed = failed BY <2>1, <3>2, <3>4, <3>6 DEF Runs
      <3>8. runner' = [runner EXCEPT ![c] = run] BY <1>7, <2>4, <3>1, <3>4 DEF HookAnswers
      <3> HIDE <3>1, <3>4
      <3> QED BY <2>2, <3>3, <3>7, <3>8, RunKeeps
    <2> QED BY <2>3, <2>4
  <1>8. ASSUME NEW c \in Calls, CancelHooks(c) PROVE GateInv'
    BY <1>6, <1>8, RunKeeps DEF CancelHooks
  <1>9. ASSUME NEW k \in Contexts, NEW c \in Calls, ExecuteTool(k, c) PROVE GateInv'
    BY <1>2, <1>9 DEF ExecuteTool
  <1>10. ASSUME NEW s \in DOMAIN mode, SetPlanMode(s) PROVE GateInv'
    BY <1>2, <1>10 DEF SetPlanMode
  <1>11. CASE DrawPlan \/ ApprovePlan BY <1>2, <1>11 DEF DrawPlan, ApprovePlan
  <1>12. ASSUME NEW c \in Calls, Present(c) PROVE GateInv' BY <1>2, <1>12 DEF Present
  <1>13. CASE UNCHANGED gateVars BY <1>2, <1>13 DEF gateVars
  <1> QED BY <1>3, <1>4, <1>5, <1>7, <1>8, <1>9, <1>10, <1>11, <1>12, <1>13 DEF GateNext

\* What a step may execute and present.
ExecutesAuthorized ==
  /\ \A e \in executed' \ executed :
       /\ "deny" \notin Ranking(e.call)
       /\ "ask" \in Ranking(e.call) =>
            Decision(e.context, e.call, "allow", "user") \in decisions
       /\ (mode[e.context.session] = "plan" /\ IsMutating(e.call)) =>
            \E a \in approvals :
              /\ a.digest.session = e.context.session
              /\ e.call \in a.digest.actions
       /\ Hooked(e.call)
  /\ \A c \in presented' \ presented : Hooked(c)

\* One step presents or executes what its hooks, its decision and its plan let pass.
LEMMA AuthorizedStep == GateInv /\ [GateNext]_gateVars => ExecutesAuthorized
  <1> SUFFICES ASSUME GateInv, [GateNext]_gateVars PROVE ExecutesAuthorized
    OBVIOUS
  <1>1. GateTypes /\ DecisionsSound /\ FailuresOpen BY DEF GateInv
  <1>2. ASSUME NEW c \in Calls, NEW p \in {"pre_tool", "post_tool"}, Passed(c, p) PROVE Hooked(c)
    BY <1>1, <1>2 DEF Hooked, Passed, Halted, Unrun, FailuresOpen
  <1>3. ASSUME NEW k \in Contexts, NEW c \in Calls, ExecuteTool(k, c) PROVE ExecutesAuthorized
    <2>1. PICK e : e = [context |-> k, call |-> c] OBVIOUS
    <2>2. /\ executed' = executed \union {e} /\ presented' = presented
          /\ e.context = k /\ e.call = c
      BY <1>3, <2>1 DEF ExecuteTool
    <2>3. Hooked(c) BY <1>2, <1>3 DEF ExecuteTool
    <2>4. PICK d \in decisions : RequireAllowed(k, c, d) BY <1>3 DEF ExecuteTool
    <2>5. d \in Decisions /\ d.outcome = "allow" /\ d.context = k /\ d.call = c
      BY <1>1, <2>4 DEF GateTypes, RequireAllowed
    <2>6. /\ "deny" \in Ranking(c) => Ruling(c) = "deny"
          /\ "ask" \in Ranking(c) => Ruling(c) \in {"ask", "deny"}
      BY <1>1, RulingStrictest DEF GateTypes
    <2>7. /\ d.source = "policy" => Ruling(c) = "allow"
          /\ d.source = "user" => Ruling(c) = "ask"
          /\ d.source \in {"policy", "user"}
      BY <1>1, <2>5 DEF DecisionsSound, Decisions
    <2>8. "deny" \notin Ranking(c) BY <2>6, <2>7
    <2>9. "ask" \in Ranking(c) => Decision(k, c, "allow", "user") \in decisions
      <3>1. "ask" \in Ranking(c) => d.source = "user" BY <2>6, <2>7
      <3>2. d.source = "user" => d = Decision(k, c, "allow", "user")
        BY <2>5 DEF Decisions, Decision
      <3> QED BY <3>1, <3>2
    <2>10. (mode[k.session] = "plan" /\ IsMutating(c)) =>
             \E a \in approvals : a.digest.session = k.session /\ c \in a.digest.actions
      <3> SUFFICES ASSUME mode[k.session] = "plan", IsMutating(c)
                   PROVE  \E a \in approvals : a.digest.session = k.session /\ c \in a.digest.actions
        OBVIOUS
      <3>1. c \in plan.actions /\ \E a \in approvals : ApprovalMatches(a, k.session)
        BY <1>3 DEF ExecuteTool, RequirePlanAllows
      <3>2. PICK a \in approvals : ApprovalMatches(a, k.session) BY <3>1
      <3>3. a.digest = plan /\ plan.session = k.session BY <3>2 DEF ApprovalMatches
      <3> QED BY <3>1, <3>3
    <2>11. \A x \in executed' \ executed : x.context = k /\ x.call = c BY <2>2
    <2> HIDE <2>1
    <2> QED BY <2>2, <2>3, <2>8, <2>9, <2>10, <2>11 DEF ExecutesAuthorized
  <1>4. ASSUME NEW c \in Calls, Present(c) PROVE ExecutesAuthorized
    BY <1>2, <1>4 DEF Present, ExecutesAuthorized
  <1>5. ASSUME UNCHANGED <<executed, presented>> PROVE ExecutesAuthorized
    BY <1>5 DEF ExecutesAuthorized
  <1>6. ASSUME NEW k \in Contexts, NEW c \in Calls, Decide(k, c) PROVE ExecutesAuthorized
    BY <1>5, <1>6 DEF Decide
  <1>7. ASSUME NEW d, NEW o, ResolveAsk(d, o) PROVE ExecutesAuthorized
    BY <1>5, <1>7 DEF ResolveAsk
  <1>8. ASSUME NEW s, SetPlanMode(s) PROVE ExecutesAuthorized BY <1>5, <1>8 DEF SetPlanMode
  <1>9. CASE DrawPlan \/ ApprovePlan BY <1>5, <1>9 DEF DrawPlan, ApprovePlan
  <1>10. ASSUME NEW c, NEW p, RunHooks(c, p) PROVE ExecutesAuthorized BY <1>5, <1>10 DEF RunHooks
  <1>11. ASSUME NEW c, NEW a, HookAnswers(c, a) PROVE ExecutesAuthorized
    BY <1>5, <1>11 DEF HookAnswers
  <1>12. ASSUME NEW c, CancelHooks(c) PROVE ExecutesAuthorized BY <1>5, <1>12 DEF CancelHooks
  <1>13. CASE UNCHANGED gateVars BY <1>5, <1>13 DEF gateVars
  <1> QED BY <1>3, <1>4, <1>6, <1>7, <1>8, <1>9, <1>10, <1>11, <1>12, <1>13 DEF GateNext

\* Whatever decisions, plans and approvals a dispatcher mixes up and whatever hooks fail, time
\* out or are cancelled (permissions.py, plan.py, hooks.py): a step executes only a call that no
\* rule of the highest priority denies, that a user allowed if one of them asks and that an
\* approved plan contains if the session is in plan mode, and it passes no failed hook that
\* must not fail.
THEOREM ExecutionIsAuthorized == GateSpec => ExecutedAuthorized
  <1>1. GateInv /\ [GateNext]_gateVars => [ExecutesAuthorized]_gateVars
    BY AuthorizedStep
  <1>2. GateSpec => [][ExecutesAuthorized]_gateVars
    BY GateStart, GateStep, <1>1, PTL DEF GateSpec
  <1> QED BY <1>2 DEF ExecutedAuthorized, ExecutesAuthorized
USE SubagentAssumption

-----------------------------------------------------------------------------
(* SkillLoader                                                              *)

\* What load() may have read: regular files of the author.
Contents == {file \in UNION {Placeable[path] : path \in PackagePaths} : file.kind = "file"}

Loads ==
  [at : {"idle", "walking", "reading", "loaded"},
   manifest : Placeable[ManifestPath] \union {NoFile},
   walked : SUBSET PackagePaths, inventory : SUBSET PackagePaths,
   contents : Seq(Contents)]

SkillTypes ==
  /\ files = [path \in PackagePaths |-> files[path]]
  /\ \A path \in PackagePaths : files[path] \in Placeable[path] \union {NoFile}
  /\ loading \in Loads

\* The manifest is the author's, all it declares was in the directory, and what was
\* read is what it declares, so far.
ReadAsDeclared(load) ==
  /\ load.at # "idle" =>
       /\ load.manifest.kind = "manifest" /\ load.manifest \in Placeable[ManifestPath]
       /\ Len(load.contents) <= Len(load.manifest.resources)
       /\ \A i \in 1..Len(load.contents) :
            load.contents[i].digest = load.manifest.resources[i].digest
  /\ load.at \in {"reading", "loaded"} => Declared(load.manifest) \subseteq PackagePaths
  /\ PackageBytes(load.contents) <= MaxPackageBytes
  /\ load.at = "loaded" =>
       /\ Len(load.contents) = Len(load.manifest.resources)
       /\ Resource(load, Entrypoint).links \subseteq Declared(load.manifest)

SkillInv == SkillTypes /\ ReadAsDeclared(loading)

\* The resources of a manifest are a sequence.
LEMMA ResourcesAre ==
  ASSUME NEW manifest \in Placeable[ManifestPath], manifest.kind = "manifest"
  PROVE  /\ Len(manifest.resources) \in Nat
         /\ DOMAIN manifest.resources = 1..Len(manifest.resources)
         /\ Declared(manifest) = {manifest.resources[i].path : i \in 1..Len(manifest.resources)}
  <1>1. manifest.resources \in Seq(Range(manifest.resources))
    BY SkillAssumption DEF PackagePaths
  <1>2. /\ Len(manifest.resources) \in Nat
        /\ DOMAIN manifest.resources = 1..Len(manifest.resources)
    BY <1>1
  <1>3. ToSet(manifest.resources) = {manifest.resources[i] : i \in 1..Len(manifest.resources)}
    BY <1>2 DEF ToSet
  <1> QED BY <1>2, <1>3 DEF Declared

\* An empty package has no bytes, and one more file adds its own.
LEMMA BytesAppended ==
  /\ PackageBytes(<<>>) = 0
  /\ \A contents \in Seq(Contents), file \in Contents :
       PackageBytes(Append(contents, file)) = PackageBytes(contents) + file.size
  <1>1. PackageBytes(<<>>) = 0
    <2>1. PICK g : g = [i \in DOMAIN <<>> |-> <<>>[i].size] OBVIOUS
    <2>2. SumTo(g, 0) = 0 BY SumOfNone
    <2> QED BY <2>1, <2>2 DEF PackageBytes
  <1>2. ASSUME NEW contents \in Seq(Contents), NEW file \in Contents
        PROVE  PackageBytes(Append(contents, file)) = PackageBytes(contents) + file.size
    <2>1. PICK more \in Seq(Contents) : more = Append(contents, file) BY Appended
    <2>2. /\ Len(more) = Len(contents) + 1 /\ Len(contents) \in Nat
          /\ more[Len(contents) + 1] = file
          /\ \A i \in 1..Len(contents) : more[i] = contents[i]
      BY <2>1, Appended
    <2>3. PICK g : g = [i \in DOMAIN contents |-> contents[i].size] OBVIOUS
    <2>4. PICK f : f = [i \in DOMAIN more |-> more[i].size] OBVIOUS
    <2>5. \A other \in Contents : other.size \in Nat
      BY SkillAssumption DEF Contents
    <2>6. DOMAIN contents = 1..Len(contents) /\ DOMAIN more = 1..(Len(contents) + 1)
      BY <2>2
    <2>7. \A i \in 1..Len(contents) : g[i] \in Int /\ f[i] = g[i]
      BY <2>2, <2>3, <2>4, <2>5, <2>6
    <2>8. f[Len(contents) + 1] = file.size /\ file.size \in Int
      BY <2>2, <2>4, <2>5, <2>6
    <2>9. SumTo(f, Len(contents) + 1) = SumTo(g, Len(contents)) + file.size
      <3>1. PICK n \in Nat : n = Len(contents) BY <2>2
      <3>2. (\A i \in 1..n : g[i] \in Int /\ f[i] = g[i]) /\ f[n + 1] \in Int
        BY <2>7, <2>8, <3>1
      <3>3. SumTo(f, n + 1) = SumTo(g, n) + f[n + 1] BY <3>2, SumNext
      <3> QED BY <2>8, <3>1, <3>3
    <2> QED BY <2>1, <2>2, <2>3, <2>4, <2>9 DEF PackageBytes
  <1> QED BY <1>1, <1>2

\* What resource() finds for a path that is declared is one of the files read.
LEMMA ResourceFound ==
  ASSUME NEW load, load.manifest \in Placeable[ManifestPath], load.manifest.kind = "manifest",
         load.contents \in Seq(Contents),
         Len(load.contents) = Len(load.manifest.resources),
         NEW path \in Declared(load.manifest)
  PROVE  Resource(load, path) \in Contents
  <1> DEFINE T == {i \in DOMAIN load.contents : load.manifest.resources[i].path = path}
  <1>1. /\ DOMAIN load.contents = 1..Len(load.contents) /\ Len(load.contents) \in Nat
        /\ path \in {load.manifest.resources[i].path : i \in 1..Len(load.contents)}
    BY ResourcesAre
  <1>2. T # {} /\ T \in SUBSET Nat BY <1>1
  <1>3. \E x \in T : \A y \in T : x <= y
    <2> HIDE DEF T
    <2> QED BY <1>2, Least
  <1>4. Min(T) \in T BY <1>3 DEF Min
  <1> QED BY <1>1, <1>4 DEF Resource

\* At the start the directory is empty and nothing is loaded.
LEMMA SkillStart == SkillInit => SkillInv
  <1> SUFFICES ASSUME SkillInit PROVE SkillInv OBVIOUS
  <1>1. NotLoading \in Loads BY DEF NotLoading, Loads
  <1>2. NotLoading.at = "idle" /\ NotLoading.contents = <<>> BY DEF NotLoading
  <1>3. files = [path \in PackagePaths |-> NoFile] /\ loading = NotLoading BY DEF SkillInit
  <1>4. ReadAsDeclared(loading)
    BY <1>2, <1>3, BytesAppended, SkillAssumption DEF ReadAsDeclared
  <1> QED BY <1>1, <1>3, <1>4 DEF SkillInv, SkillTypes

\* A load that is refused.
LEMMA LoadRefused ==
  ASSUME SkillTypes, UNCHANGED files, loading' = NotLoading
  PROVE  SkillInv'
  <1>1. NotLoading \in Loads BY DEF NotLoading, Loads
  <1>2. ReadAsDeclared(NotLoading)
    <2>1. NotLoading.at = "idle" /\ NotLoading.contents = <<>> BY DEF NotLoading
    <2> QED BY <2>1, BytesAppended, SkillAssumption DEF ReadAsDeclared
  <1>3. ReadAsDeclared(loading') BY <1>2
  <1>4. SkillTypes' BY <1>1 DEF SkillTypes
  <1> QED BY <1>3, <1>4 DEF SkillInv

\* A load that goes on.
LEMMA LoadGoesOn ==
  ASSUME SkillTypes, UNCHANGED files, loading' \in Loads, ReadAsDeclared(loading')
  PROVE  SkillInv'
  BY DEF SkillInv, SkillTypes

\* A step of load() and a change to a file.
LEMMA SkillStep == SkillInv /\ [SkillNext]_skillVars => SkillInv'
  <1> SUFFICES ASSUME SkillInv, [SkillNext]_skillVars PROVE SkillInv' OBVIOUS
  <1>1. SkillTypes /\ ReadAsDeclared(loading) /\ loading \in Loads BY DEF SkillInv, SkillTypes
  <1>2. ManifestPath \in PackagePaths BY DEF PackagePaths
  <1>3. CASE ReadManifest
    <2>1. PICK manifest : manifest = files[ManifestPath] OBVIOUS
    <2>2. manifest \in Placeable[ManifestPath] \union {NoFile} BY <1>1, <1>2, <2>1 DEF SkillTypes
    <2>3. CASE loading' = NotLoading BY <1>1, <1>3, <2>3, LoadRefused DEF ReadManifest
    <2>4. CASE /\ manifest.kind = "manifest"
               /\ loading' = [NotLoading EXCEPT !.at = "walking", !.manifest = manifest]
      <3>1. /\ loading' \in Loads /\ loading'.at = "walking" /\ loading'.manifest = manifest
            /\ loading'.contents = <<>>
        <4>1. loading' = [at |-> "walking", manifest |-> manifest, walked |-> {}, inventory |-> {},
                          contents |-> <<>>]
          BY <2>4 DEF NotLoading
        <4>2. {} \in SUBSET PackagePaths /\ <<>> \in Seq(Contents) OBVIOUS
        <4> QED BY <2>2, <4>1, <4>2 DEF Loads
      <3>2. manifest \in Placeable[ManifestPath] BY <2>2, <2>4 DEF NoFile
      <3>3. Len(manifest.resources) \in Nat BY <2>4, <3>2, ResourcesAre
      <3>4. ReadAsDeclared(loading')
        BY <2>4, <3>1, <3>2, <3>3, BytesAppended, SkillAssumption DEF ReadAsDeclared
      <3> QED BY <1>1, <1>3, <3>1, <3>4, LoadGoesOn DEF ReadManifest
    <2> QED BY <1>3, <2>1, <2>3, <2>4 DEF ReadManifest, Refuse
  <1>4. ASSUME NEW path \in PackagePaths, Walk(path) PROVE SkillInv'
    <2>1. CASE loading' = NotLoading BY <1>1, <1>4, <2>1, LoadRefused DEF Walk
    <2>2. CASE \E seen \in SUBSET {path} :
                 loading' = [loading EXCEPT !.walked = @ \cup {path}, !.inventory = @ \cup seen]
      <3>1. PICK seen \in SUBSET {path} :
                 loading' = [loading EXCEPT !.walked = @ \cup {path}, !.inventory = @ \cup seen]
        BY <2>2
      <3>2. /\ loading' \in Loads /\ loading'.at = "walking" /\ loading'.manifest = loading.manifest
            /\ loading'.contents = loading.contents
        BY <1>1, <1>4, <3>1 DEF Walk, Loads
      <3>3. ReadAsDeclared(loading') BY <1>1, <1>4, <3>2 DEF ReadAsDeclared, Walk
      <3> QED BY <1>1, <1>4, <3>2, <3>3, LoadGoesOn DEF Walk
    <2> QED BY <1>4, <2>1, <2>2 DEF Walk, Refuse
  <1>5. CASE CompareInventory
    <2>1. CASE loading' = NotLoading BY <1>1, <1>5, <2>1, LoadRefused DEF CompareInventory
    <2>2. CASE /\ loading.inventory = Declared(loading.manifest) \cup {ManifestPath}
               /\ loading' = [loading EXCEPT !.at = "reading"]
      <3>1. /\ loading' \in Loads /\ loading'.at = "reading" /\ loading'.manifest = loading.manifest
            /\ loading'.contents = loading.contents
        BY <1>1, <2>2 DEF Loads
      <3>2. Declared(loading.manifest) \subseteq PackagePaths BY <1>1, <2>2 DEF Loads
      <3>3. ReadAsDeclared(loading') BY <1>1, <1>5, <3>1, <3>2 DEF ReadAsDeclared, CompareInventory
      <3> QED BY <1>1, <1>5, <3>1, <3>3, LoadGoesOn DEF CompareInventory
    <2> QED BY <1>5, <2>1, <2>2 DEF CompareInventory, Refuse
  <1>6. CASE ReadResource
    <2>1. PICK n : n = Len(loading.contents) + 1 OBVIOUS
    <2>2. PICK resource : resource = loading.manifest.resources[n] OBVIOUS
    <2>3. PICK file : file = files[resource.path] OBVIOUS
    <2>4. /\ loading.at = "reading"
          /\ Len(loading.contents) < Len(loading.manifest.resources)
          /\ UNCHANGED files
      BY <1>6 DEF ReadResource
    <2>5. CASE loading' = NotLoading BY <1>1, <2>4, <2>5, LoadRefused
    <2>6. CASE /\ file.kind = "file" /\ file.digest = resource.digest
               /\ PackageBytes(loading.contents) + file.size <= MaxPackageBytes
               /\ loading' = [loading EXCEPT !.contents = Append(loading.contents, file)]
      <3>1. /\ loading.manifest.kind = "manifest" /\ loading.manifest \in Placeable[ManifestPath]
            /\ Declared(loading.manifest) \subseteq PackagePaths
            /\ \A i \in 1..Len(loading.contents) :
                 loading.contents[i].digest = loading.manifest.resources[i].digest
            /\ loading.contents \in Seq(Contents) /\ Len(loading.contents) \in Nat
        BY <1>1, <2>4 DEF ReadAsDeclared, Loads
      <3>2. /\ Len(loading.manifest.resources) \in Nat
            /\ Declared(loading.manifest) =
                 {loading.manifest.resources[i].path : i \in 1..Len(loading.manifest.resources)}
        BY <3>1, ResourcesAre
      <3>3. n \in 1..Len(loading.manifest.resources) BY <2>1, <2>4, <3>1, <3>2
      <3>4. resource.path \in PackagePaths BY <2>2, <3>1, <3>2, <3>3
      <3>5. file \in Contents
        <4>1. file \in Placeable[resource.path] \union {NoFile} BY <1>1, <2>3, <3>4 DEF SkillTypes
        <4>2. file # NoFile BY <2>6 DEF NoFile
        <4> QED BY <2>6, <3>4, <4>1, <4>2 DEF Contents
      <3>6. PICK more \in Seq(Contents) : more = Append(loading.contents, file)
        BY <3>1, <3>5, Appended
      <3>7. /\ Len(more) = n /\ more[n] = file
            /\ \A i \in 1..Len(loading.contents) : more[i] = loading.contents[i]
        BY <2>1, <3>1, <3>5, <3>6, Appended
      <3>8. /\ loading' \in Loads /\ loading'.at = "reading"
            /\ loading'.manifest = loading.manifest /\ loading'.contents = more
        BY <1>1, <2>4, <2>6, <3>6 DEF Loads
      <3>9. PackageBytes(more) <= MaxPackageBytes BY <2>6, <3>1, <3>5, <3>6, BytesAppended
      <3>10. ASSUME NEW i \in 1..n PROVE more[i].digest = loading.manifest.resources[i].digest
        <4>1. CASE i = n BY <2>2, <2>6, <3>7, <4>1
        <4>2. CASE i # n
          <5>1. i \in 1..Len(loading.contents) BY <2>1, <3>1, <4>2
          <5> QED BY <3>1, <3>7, <5>1
        <4> QED BY <4>1, <4>2
      <3>11. n <= Len(loading.manifest.resources) BY <3>2, <3>3
      <3>12. ReadAsDeclared(loading')
        BY <3>1, <3>7, <3>8, <3>9, <3>10, <3>11 DEF ReadAsDeclared
      <3> QED BY <1>1, <2>4, <3>8, <3>12, LoadGoesOn
    <2>7. \/ loading' = NotLoading
          \/ /\ Readable(file, Min({MaxFileBytes, resource.size + 1})) /\ AsDeclared(file, resource)
             /\ PackageBytes(loading.contents) + file.size <= MaxPackageBytes
             /\ loading' = [loading EXCEPT !.contents = Append(loading.contents, file)]
      BY <1>6, <2>1, <2>2, <2>3 DEF ReadResource, Refuse
    <2> QED BY <2>5, <2>6, <2>7 DEF Readable, AsDeclared
  <1>7. CASE FinishLoad
    <2>1. CASE loading' = NotLoading BY <1>1, <1>7, <2>1, LoadRefused DEF FinishLoad
    <2>2. CASE /\ Resource(loading, Entrypoint).links \subseteq Declared(loading.manifest)
               /\ loading' = [loading EXCEPT !.at = "loaded"]
      <3>1. /\ loading' \in Loads /\ loading'.at = "loaded" /\ loading'.manifest = loading.manifest
            /\ loading'.contents = loading.contents
        BY <1>1, <2>2 DEF Loads
      <3>2. Resource(loading', Entrypoint) = Resource(loading, Entrypoint)
        BY <3>1 DEF Resource
      <3>3. ReadAsDeclared(loading')
        BY <1>1, <1>7, <2>2, <3>1, <3>2 DEF ReadAsDeclared, FinishLoad
      <3> QED BY <1>1, <1>7, <3>1, <3>3, LoadGoesOn DEF FinishLoad
    <2> QED BY <1>7, <2>1, <2>2 DEF FinishLoad, Refuse, ReferencesDeclared
  <1>8. ASSUME NEW path \in PackagePaths, PlaceFile(path) PROVE SkillInv'
    <2>1. PICK file \in Placeable[path] : files' = [files EXCEPT ![path] = file]
      BY <1>8 DEF PlaceFile
    <2>2. loading' = loading BY <1>8 DEF PlaceFile
    <2>3. /\ files' = [other \in PackagePaths |-> files'[other]]
          /\ \A other \in PackagePaths : files'[other] \in Placeable[other] \union {NoFile}
      <3>1. files' = [other \in PackagePaths |-> IF other = path THEN file ELSE files[other]]
        BY <1>1, <2>1 DEF SkillTypes
      <3> QED BY <1>1, <3>1 DEF SkillTypes
    <2> QED BY <1>1, <2>2, <2>3 DEF SkillInv, SkillTypes
  <1>9. CASE UNCHANGED skillVars
    BY <1>1, <1>9 DEF SkillInv, SkillTypes, skillVars
  <1> QED BY <1>3, <1>4, <1>5, <1>6, <1>7, <1>8, <1>9 DEF SkillNext

\* A loaded skill is one release of it, whatever its author did to its files while
\* load() was reading them, for any files and any limits (skills.py).
THEOREM SkillsAreWhole == SkillSpec => []SkillWhole
  <1>1. SkillInv => SkillWhole
    <2> SUFFICES ASSUME SkillInv, loading.at = "loaded" PROVE SkillWhole
      BY DEF SkillWhole
    <2>1. /\ ReadAsDeclared(loading) /\ loading.contents \in Seq(Contents)
          /\ loading.manifest \in Placeable[ManifestPath] /\ loading.manifest.kind = "manifest"
          /\ Len(loading.contents) = Len(loading.manifest.resources)
          /\ Resource(loading, Entrypoint).links \subseteq Declared(loading.manifest)
      BY DEF SkillInv, SkillTypes, ReadAsDeclared, Loads
    <2>2. DOMAIN loading.manifest.resources = 1..Len(loading.contents) BY <2>1, ResourcesAre
    <2>3. \A i \in DOMAIN loading.manifest.resources :
            loading.contents[i].digest = loading.manifest.resources[i].digest
      BY <2>1, <2>2 DEF ReadAsDeclared
    <2>4. ASSUME NEW path \in Resource(loading, Entrypoint).links
          PROVE  Resource(loading, path).kind = "file"
      <3>1. path \in Declared(loading.manifest) BY <2>1
      <3>2. Resource(loading, path) \in Contents BY <2>1, <3>1, ResourceFound
      <3> QED BY <3>2 DEF Contents
    <2>5. PackageBytes(loading.contents) <= MaxPackageBytes BY <2>1 DEF ReadAsDeclared
    <2> QED BY <2>1, <2>3, <2>4, <2>5 DEF SkillWhole
  <1> QED BY SkillStart, SkillStep, <1>1, PTL DEF SkillSpec

-----------------------------------------------------------------------------
(* AgentSession                                                             *)

Costs(turns) == [i \in DOMAIN turns |-> turns[i].cost]

\* After what the system says, the user or a tool and the assistant take turns.
Alternate(turns, lead) ==
  /\ lead \in {0, 1} /\ lead <= Len(turns)
  /\ \A i \in 1..Len(turns) :
       /\ i <= lead => turns[i].role = "system"
       /\ i > lead => IF (i - lead) % 2 = 1 THEN turns[i].role \in {"user", "tool"}
                      ELSE turns[i].role = "assistant"

\* A tool's turn has the results of the calls of the turn before.
Paired(turns) ==
  \A i \in 1..Len(turns) : turns[i].role = "tool" => i > 1 /\ turns[i - 1].calls = turns[i].results

\* A session, at rest (0) or with a question to the model (1).
SessionSound(s, open) ==
  /\ s \in SessionValues
  /\ \E lead \in {0, 1} : Alternate(s.turns, lead) /\ (Len(s.turns) - lead) % 2 = open
  /\ Paired(s.turns)
  /\ s.used = SumTo(Costs(s.turns), Len(s.turns)) /\ s.used <= TotalTokens

\* What a client holds continues what is stored, as long as that is what it loaded.
Continues(c) ==
  /\ base[c] <= row.revision
  /\ base[c] = row.revision =>
       /\ IsPrefix(row.turns, inHand[c].turns)
       /\ asking[c] # Idle => IsPrefix(row.turns, asking[c].session.turns)

SessionInv ==
  /\ row # NoSession => SessionSound(row, 0)
  /\ inHand \in [Clients -> SessionValues \union {NoSession}]
  /\ base \in [Clients -> Nat]
  /\ asking \in [Clients -> [session : SessionValues \union {NoSession}, context : Seq(Turns)]]
  /\ \A c \in Clients :
       /\ inHand[c] # NoSession => row # NoSession /\ SessionSound(inHand[c], 0) /\ Continues(c)
       /\ asking[c] # Idle => /\ inHand[c] # NoSession /\ SessionSound(asking[c].session, 1)
                              /\ EvenRecent => Paired(asking[c].context)

\* Every other number is even.
LEMMA Parity ==
  ASSUME NEW n \in Nat
  PROVE  (n % 2 = 0 => (n + 1) % 2 = 1) /\ (n % 2 = 1 => (n + 1) % 2 = 0)
  OBVIOUS

\* Turns joined.
LEMMA TurnsJoined ==
  ASSUME NEW s \in Seq(Turns), NEW t \in Seq(Turns)
  PROVE  /\ s \o t \in Seq(Turns) /\ Len(s \o t) = Len(s) + Len(t)
         /\ \A i \in 1..(Len(s) + Len(t)) : (s \o t)[i] = IF i <= Len(s) THEN s[i] ELSE t[i - Len(s)]
  OBVIOUS

\* The end and the beginning of turns that are cut.
LEMMA TurnsCut ==
  ASSUME NEW s \in Seq(Turns), NEW a \in 1..(Len(s) + 1)
  PROVE  /\ SubSeq(s, a, Len(s)) \in Seq(Turns) /\ Len(SubSeq(s, a, Len(s))) = Len(s) - a + 1
         /\ \A i \in 1..(Len(s) - a + 1) : SubSeq(s, a, Len(s))[i] = s[i + a - 1]
         /\ SubSeq(s, 1, a - 1) \in Seq(Turns) /\ Len(SubSeq(s, 1, a - 1)) = a - 1
         /\ \A i \in 1..(a - 1) : SubSeq(s, 1, a - 1)[i] = s[i]
  OBVIOUS

\* A beginning, turn by turn.
LEMMA PrefixIs ==
  ASSUME NEW s \in Seq(Turns), NEW t \in Seq(Turns)
  PROVE  IsPrefix(s, t) <=> Len(s) <= Len(t) /\ \A i \in 1..Len(s) : s[i] = t[i]
  <1>1. SubSeq(s, 1, Len(s)) = s OBVIOUS
  <1>2. ASSUME Len(s) <= Len(t)
        PROVE  SubSeq(s, 1, Len(s)) = SubSeq(t, 1, Len(s)) <=> \A i \in 1..Len(s) : s[i] = t[i]
    <2>1. PICK u : u = SubSeq(t, 1, Len(s)) OBVIOUS
    <2>2. u \in Seq(Turns) /\ Len(u) = Len(s) /\ \A i \in 1..Len(s) : u[i] = t[i] BY <1>2, <2>1
    <2>3. (\A i \in 1..Len(s) : s[i] = u[i]) => s = u BY <2>2
    <2> QED BY <1>1, <2>1, <2>2, <2>3
  <1> QED BY <1>2 DEF IsPrefix

\* What stands at the beginning of a beginning, and at that of a longer session.
LEMMA PrefixGrows ==
  ASSUME NEW s \in Seq(Turns), NEW t \in Seq(Turns), NEW turn \in Turns, IsPrefix(s, t)
  PROVE  IsPrefix(s, Append(t, turn))
  <1>1. PICK more \in Seq(Turns) : more = Append(t, turn) BY Appended
  <1>2. Len(more) = Len(t) + 1 /\ \A i \in 1..Len(t) : more[i] = t[i] BY <1>1, Appended
  <1>3. Len(s) <= Len(t) /\ \A i \in 1..Len(s) : s[i] = t[i] BY PrefixIs
  <1>4. Len(s) <= Len(more) /\ \A i \in 1..Len(s) : s[i] = more[i] BY <1>2, <1>3
  <1> QED BY <1>1, <1>4, PrefixIs

\* How many system turns there are at the beginning.
LEMMA LeadingIs ==
  ASSUME NEW turns \in Seq(Turns), NEW lead, Alternate(turns, lead)
  PROVE  Leading(turns) = lead
  <1> DEFINE T == {n \in 0..Len(turns) : \A i \in 1..n : turns[i].role = "system"}
  <1>1. /\ lead \in {0, 1} /\ lead <= Len(turns) /\ Len(turns) \in Nat
        /\ \A i \in 1..Len(turns) : i <= lead => turns[i].role = "system"
    BY DEF Alternate
  <1>2. lead \in T BY <1>1
  <1>3. ASSUME NEW n \in T PROVE n <= lead
    <2> SUFFICES ASSUME n > lead PROVE FALSE BY <1>1
    <2>1. lead + 1 \in 1..n /\ lead + 1 \in 1..Len(turns) BY <1>1
    <2>2. (lead + 1 - lead) % 2 = 1 BY <1>1
    <2>3. turns[lead + 1].role \in {"user", "tool"} BY <1>1, <2>1, <2>2 DEF Alternate
    <2>4. turns[lead + 1].role = "system" BY <2>1
    <2> QED BY <2>3, <2>4
  <1>4. \E x \in T : \A y \in T : x >= y BY <1>1, <1>2, <1>3
  <1>5. Max(T) \in T /\ \A y \in T : Max(T) >= y BY <1>4 DEF Max
  <1>6. PICK m \in 0..Len(turns) : m = Max(T) BY <1>5
  <1>7. m = lead
    <2>1. m >= lead /\ m <= lead
      <3> HIDE DEF T
      <3> QED BY <1>2, <1>3, <1>5, <1>6
    <2> QED BY <1>1, <2>1
  <1> QED BY <1>6, <1>7 DEF Leading

\* Whatever compaction leaves of a question, the calls are with their results, if the turns
\* that are never cut come in pairs.
LEMMA CompactPairs ==
  ASSUME NEW turns \in Seq(Turns), NEW lead, Alternate(turns, lead),
         (Len(turns) - lead) % 2 = 1, Paired(turns),
         NEW limit, NEW context \in Compact(turns, limit)
  PROVE  context \in Seq(Turns) /\ (EvenRecent => Paired(context))
  <1> SUFFICES ASSUME context # turns
               PROVE  context \in Seq(Turns) /\ (EvenRecent => Paired(context))
    OBVIOUS
  <1>1. lead \in {0, 1} /\ lead <= Len(turns) /\ Len(turns) \in Nat /\ Leading(turns) = lead
    BY LeadingIs DEF Alternate
  <1>2. PICK removable : removable = SubSeq(turns, lead + 1, Len(turns)) OBVIOUS
  <1>3. /\ removable \in Seq(Turns) /\ Len(removable) = Len(turns) - lead
        /\ \A i \in 1..Len(removable) : removable[i] = turns[i + lead]
    BY <1>1, <1>2, TurnsCut
  <1> DEFINE fitting == {k \in Cuts(removable) : Size(Projection(turns, k)) <= limit}
  <1>4. fitting # {} /\ context = Projection(turns, Min(fitting))
    BY <1>1, <1>2 DEF Compact
  <1>5. PICK most : most = Len(removable) - Min({MinRecent, Len(removable)}) OBVIOUS
  <1>6. /\ most = Len(removable) - MinRecent \/ most = 0
        /\ most \in 0..Len(removable)
    <2>1. MinRecent \in Nat \ {0} /\ Len(removable) \in Nat BY <1>3, SessionAssumption
    <2>2. \E x \in {MinRecent, Len(removable)} : \A y \in {MinRecent, Len(removable)} : x <= y
      BY <2>1
    <2>3. /\ Min({MinRecent, Len(removable)}) \in {MinRecent, Len(removable)}
          /\ Min({MinRecent, Len(removable)}) <= Len(removable)
      BY <2>2 DEF Min
    <2> QED BY <1>5, <2>1, <2>3
  <1>7. Cuts(removable) = {k \in 1..most : k = most \/ removable[k + 1].role # "tool"}
    BY <1>5 DEF Cuts
  <1>8. PICK k \in Cuts(removable) : k = Min(fitting)
    <2>1. fitting \in SUBSET Nat BY <1>6, <1>7
    <2>2. \E x \in fitting : \A y \in fitting : x <= y
      <3> HIDE DEF fitting
      <3> QED BY <1>4, <2>1, Least
    <2>3. Min(fitting) \in fitting BY <2>2 DEF Min
    <2> QED BY <2>3
  <1>9. k \in 1..most /\ k \in 1..Len(removable) /\ most = Len(removable) - MinRecent
    BY <1>6, <1>7, <1>8
  <1>10. ASSUME EvenRecent PROVE k < Len(removable) /\ removable[k + 1].role # "tool"
    <2>1. MinRecent \in Nat \ {0} /\ Len(removable) \in Nat BY <1>3, SessionAssumption
    <2>2. k < Len(removable) BY <1>9, <2>1
    <2>3. CASE k = most
      <3>1. k + 1 + lead \in 1..Len(turns) /\ k + 1 + lead > lead
            /\ removable[k + 1] = turns[k + 1 + lead]
        BY <1>1, <1>3, <1>9, <2>2
      <3>2. (k + 1 + lead - lead) % 2 = 0
        <4>1. Len(removable) % 2 = 1 /\ MinRecent % 2 = 0 BY <1>3, <1>10 DEF EvenRecent
        <4>2. \A a, b \in Nat : a % 2 = 1 /\ b % 2 = 0 /\ b <= a => (a - b + 1) % 2 = 0 OBVIOUS
        <4>3. (Len(removable) - MinRecent + 1) % 2 = 0 BY <1>9, <2>1, <4>1, <4>2
        <4> QED BY <1>1, <1>9, <2>1, <2>3, <4>3
      <3>3. turns[k + 1 + lead].role = "assistant"
        <4>1. \A i \in 1..Len(turns) : i > lead /\ (i - lead) % 2 = 0 => turns[i].role = "assistant"
          BY DEF Alternate
        <4>2. PICK i \in 1..Len(turns) : i = k + 1 + lead BY <3>1
        <4>3. (i - lead) % 2 = 0
          <5>1. k \in Nat /\ lead \in Nat BY <1>1, <1>9
          <5>2. i - lead = k + 1 /\ k + 1 + lead - lead = k + 1 BY <4>2, <5>1
          <5>3. i - lead = k + 1 + lead - lead BY <5>2
          <5> QED BY <3>2, <5>3
        <4>4. i > lead BY <3>1, <4>2
        <4> QED BY <4>1, <4>2, <4>3, <4>4
      <3> QED BY <2>2, <3>1, <3>3
    <2>4. CASE k # most BY <1>7, <1>8, <2>2, <2>4
    <2> QED BY <2>3, <2>4
  <1>11. PICK first, rest :
           first = SubSeq(turns, 1, lead) /\ rest = SubSeq(turns, lead + k + 1, Len(turns))
    OBVIOUS
  <1>12. /\ first \in Seq(Turns) /\ Len(first) = lead
         /\ \A i \in 1..lead : first[i] = turns[i]
    <2>1. PICK a \in 1..(Len(turns) + 1) : a - 1 = lead
      <3>1. PICK n \in Nat : n = Len(turns) /\ lead <= n /\ lead \in {0, 1} BY <1>1
      <3>2. lead + 1 \in 1..(n + 1) /\ (lead + 1) - 1 = lead BY <3>1
      <3> QED BY <3>1, <3>2
    <2>2. /\ SubSeq(turns, 1, a - 1) \in Seq(Turns) /\ Len(SubSeq(turns, 1, a - 1)) = a - 1
          /\ \A i \in 1..(a - 1) : SubSeq(turns, 1, a - 1)[i] = turns[i]
      BY TurnsCut
    <2> QED BY <1>11, <2>1, <2>2
  <1>13. /\ rest \in Seq(Turns) /\ Len(rest) = Len(turns) - lead - k
         /\ \A i \in 1..Len(rest) : rest[i] = turns[i + lead + k]
    <2>1. lead + k + 1 \in 1..(Len(turns) + 1) /\ k \in Nat
      <3>1. PICK n \in Nat, m \in Nat : n = Len(turns) /\ m = n - lead /\ k \in 1..m
        BY <1>1, <1>3, <1>9
      <3>2. lead \in {0, 1} /\ lead + k <= n BY <1>1, <3>1
      <3>3. k \in Nat /\ lead + k + 1 \in 1..(n + 1) BY <3>1, <3>2
      <3> QED BY <3>1, <3>3
    <2>2. /\ rest \in Seq(Turns) /\ Len(rest) = Len(turns) - (lead + k + 1) + 1
          /\ \A i \in 1..(Len(turns) - (lead + k + 1) + 1) : rest[i] = turns[i + (lead + k + 1) - 1]
      BY <1>11, <2>1, TurnsCut
    <2> QED BY <1>1, <2>1, <2>2
  <1>14. context = first \o <<Summary>> \o rest BY <1>1, <1>4, <1>8, <1>11 DEF Projection
  <1>15. <<Summary>> \in Seq(Turns) /\ Len(<<Summary>>) = 1 /\ <<Summary>>[1] = Summary
         /\ Summary.role = "system"
    BY DEF Summary, System, Turn, Turns
  <1>16. PICK head : head = first \o <<Summary>> OBVIOUS
  <1>17. /\ head \in Seq(Turns) /\ Len(head) = lead + 1
         /\ \A i \in 1..(lead + 1) : head[i].role = "system"
    <2>1. /\ head \in Seq(Turns) /\ Len(head) = lead + 1
          /\ \A i \in 1..(lead + 1) : head[i] = IF i <= lead THEN first[i] ELSE <<Summary>>[i - lead]
      BY <1>1, <1>12, <1>15, <1>16, TurnsJoined
    <2>2. ASSUME NEW i \in 1..(lead + 1) PROVE head[i].role = "system"
      <3>1. CASE i <= lead BY <1>1, <1>12, <2>1, <3>1 DEF Alternate
      <3>2. CASE i = lead + 1
        <4>1. ~(i <= lead) /\ i - lead = 1 BY <1>1, <3>2
        <4> QED BY <1>15, <2>1, <4>1
      <3> QED BY <1>1, <3>1, <3>2
    <2> QED BY <2>1, <2>2
  <1>18. /\ context \in Seq(Turns) /\ Len(context) = lead + 1 + Len(rest)
         /\ \A i \in 1..(lead + 1 + Len(rest)) :
              context[i] = IF i <= lead + 1 THEN head[i] ELSE rest[i - (lead + 1)]
    <2>1. context = head \o rest BY <1>14, <1>16
    <2>2. /\ head \o rest \in Seq(Turns) /\ Len(head \o rest) = Len(head) + Len(rest)
          /\ \A i \in 1..(Len(head) + Len(rest)) :
               (head \o rest)[i] = IF i <= Len(head) THEN head[i] ELSE rest[i - Len(head)]
      BY <1>13, <1>17, TurnsJoined
    <2> QED BY <1>17, <2>1, <2>2
  <1>19. ASSUME EvenRecent, NEW i \in 1..Len(context), context[i].role = "tool"
         PROVE  i > 1 /\ context[i - 1].calls = context[i].results
    <2>1. i > lead + 1 BY <1>1, <1>13, <1>17, <1>18, <1>19
    <2>2. PICK j : j = i - (lead + 1) OBVIOUS
    <2>3. j \in 1..Len(rest) /\ context[i] = rest[j] /\ Len(rest) \in Nat
      <3>1. Len(rest) \in Nat /\ lead \in Nat BY <1>1, <1>13
      <3>2. i \in 1..(lead + 1 + Len(rest)) BY <1>18
      <3>3. j \in 1..Len(rest) BY <2>1, <2>2, <3>1, <3>2
      <3>4. context[i] = rest[i - (lead + 1)] BY <1>18, <2>1, <3>1, <3>2
      <3> QED BY <2>2, <3>1, <3>3, <3>4
    <2>4. context[i] = turns[j + lead + k] BY <1>13, <2>3
    <2>5. j # 1
      <3> SUFFICES ASSUME j = 1 PROVE FALSE OBVIOUS
      <3>1. k < Len(removable) BY <1>10, <1>19
      <3>2. k + 1 \in 1..Len(removable) /\ (k + 1) + lead = j + lead + k BY <1>1, <1>3, <1>9, <3>1
      <3>3. removable[k + 1] = context[i] BY <1>3, <2>4, <3>2
      <3> QED BY <1>10, <1>19, <3>3
    <2>6. /\ j - 1 \in 1..Len(rest) /\ i - 1 \in 1..(lead + 1 + Len(rest)) /\ i - 1 > lead + 1
          /\ (i - 1) - (lead + 1) = j - 1
      <3>1. PICK n \in Nat : n = Len(rest) BY <2>3
      <3>2. lead \in Nat /\ i \in 1..(lead + 1 + n) /\ j \in 1..n BY <1>1, <1>18, <2>3, <3>1
      <3>3. i = j + lead + 1 /\ j > 1 BY <2>2, <2>5, <3>2
      <3> QED BY <3>1, <3>2, <3>3
    <2>7. context[i - 1] = rest[j - 1]
      <3>1. PICK p \in 1..(lead + 1 + Len(rest)) : p = i - 1 BY <2>6
      <3>2. context[p] = rest[p - (lead + 1)] BY <1>1, <1>18, <2>6, <3>1
      <3> QED BY <2>6, <3>1, <3>2
    <2>8. rest[j - 1] = turns[(j - 1) + lead + k] BY <1>13, <2>6
    <2>9. /\ (j - 1) + lead + k = (j + lead + k) - 1
          /\ j + lead + k \in 1..Len(turns)
      BY <1>1, <1>3, <1>9, <1>13, <2>3
    <2>10. turns[(j + lead + k) - 1].calls = turns[j + lead + k].results
      BY <1>19, <2>4, <2>9 DEF Paired
    <2> QED BY <1>1, <2>1, <2>4, <2>7, <2>8, <2>9, <2>10
  <1> QED BY <1>18, <1>19 DEF Paired

\* A session that has gone on by a turn.
LEMMA ExtendIs ==
  ASSUME NEW s \in SessionValues, NEW turn \in Turns
  PROVE  /\ Extend(s, turn) \in SessionValues
         /\ Extend(s, turn).turns = Append(s.turns, turn)
         /\ Extend(s, turn).revision = s.revision + 1
         /\ Extend(s, turn).used = s.used + turn.cost
         /\ s.used = SumTo(Costs(s.turns), Len(s.turns)) =>
              Extend(s, turn).used = SumTo(Costs(Append(s.turns, turn)), Len(Append(s.turns, turn)))
  <1>1. /\ s.turns \in Seq(Turns) /\ s.revision \in Nat /\ s.used \in Nat /\ turn.cost \in Nat
        /\ s.mode \in {"normal", "plan"}
    BY DEF SessionValues, Turns
  <1>2. PICK more \in Seq(Turns) : more = Append(s.turns, turn) BY <1>1, Appended
  <1>3. /\ Len(more) = Len(s.turns) + 1 /\ more[Len(s.turns) + 1] = turn /\ Len(s.turns) \in Nat
        /\ \A i \in 1..Len(s.turns) : more[i] = s.turns[i]
    BY <1>1, <1>2, Appended
  <1>4. PICK next : next = [s EXCEPT !.revision = s.revision + 1, !.turns = more,
                                     !.used = s.used + turn.cost]
    OBVIOUS
  <1>5. next = Extend(s, turn) BY <1>2, <1>4 DEF Extend
  <1>6. /\ next \in SessionValues /\ next.turns = more /\ next.revision = s.revision + 1
        /\ next.used = s.used + turn.cost
    <2>1. DOMAIN s = {"revision", "mode", "used", "turns"} /\ s.mode = s.mode BY DEF SessionValues
    <2>2. next = [revision |-> s.revision + 1, mode |-> s.mode, used |-> s.used + turn.cost,
                  turns |-> more]
      BY <1>4, <2>1 DEF SessionValues
    <2>3. s.revision + 1 \in Nat /\ s.used + turn.cost \in Nat BY <1>1
    <2> QED BY <1>1, <2>2, <2>3 DEF SessionValues
  <1>7. PICK g, f : g = Costs(s.turns) /\ f = Costs(more) OBVIOUS
  <1>8. /\ \A i \in 1..Len(s.turns) : g[i] \in Int /\ f[i] = g[i]
        /\ f[Len(s.turns) + 1] = turn.cost
    <2>1. \A i \in 1..Len(s.turns) : s.turns[i].cost \in Int
      <3>1. \A i \in 1..Len(s.turns) : s.turns[i] \in Turns BY <1>1
      <3>2. \A t \in Turns : t.cost \in Int BY DEF Turns
      <3> QED BY <3>1, <3>2
    <2>2. DOMAIN s.turns = 1..Len(s.turns) /\ DOMAIN more = 1..(Len(s.turns) + 1) BY <1>1, <1>3
    <2>3. /\ g = [i \in 1..Len(s.turns) |-> s.turns[i].cost]
          /\ f = [i \in 1..(Len(s.turns) + 1) |-> more[i].cost]
      BY <1>7, <2>2 DEF Costs
    <2> QED BY <1>3, <2>1, <2>3
  <1>9. SumTo(f, Len(s.turns) + 1) = SumTo(g, Len(s.turns)) + turn.cost
    <2>1. f[Len(s.turns) + 1] \in Int BY <1>1, <1>8
    <2>2. SumTo(f, Len(s.turns) + 1) = SumTo(g, Len(s.turns)) + f[Len(s.turns) + 1]
      BY <1>3, <1>8, <2>1, SumNext
    <2> QED BY <1>8, <2>2
  <1> QED BY <1>2, <1>3, <1>5, <1>6, <1>7, <1>9

\* A question: the user's, or the results of the calls that are pending.
LEMMA QuestionIsSound ==
  ASSUME NEW s, SessionSound(s, 0), NEW turn \in Turns, turn.role \in {"user", "tool"}, turn.cost = 0,
         turn.role = "tool" => /\ Len(s.turns) > 0 /\ s.turns[Len(s.turns)].role = "assistant"
                               /\ s.turns[Len(s.turns)].calls = turn.results
  PROVE  SessionSound(Extend(s, turn), 1)
  <1>1. s \in SessionValues /\ s.turns \in Seq(Turns) /\ Len(s.turns) \in Nat /\ s.used \in Nat
        /\ s.used <= TotalTokens /\ Paired(s.turns) /\ s.used = SumTo(Costs(s.turns), Len(s.turns))
    BY DEF SessionSound, SessionValues
  <1>2. PICK lead \in {0, 1} : Alternate(s.turns, lead) /\ (Len(s.turns) - lead) % 2 = 0
    BY DEF SessionSound
  <1>3. PICK more \in Seq(Turns) : more = Append(s.turns, turn) BY <1>1, Appended
  <1>4. /\ Len(more) = Len(s.turns) + 1 /\ more[Len(s.turns) + 1] = turn
        /\ \A i \in 1..Len(s.turns) : more[i] = s.turns[i]
    BY <1>1, <1>3, Appended
  <1>5. lead <= Len(s.turns) BY <1>2 DEF Alternate
  <1>6. (Len(s.turns) + 1 - lead) % 2 = 1
    <2>1. PICK n \in Nat : n = Len(s.turns) - lead BY <1>1, <1>2, <1>5
    <2>2. (n + 1) % 2 = 1 BY <1>2, <2>1, Parity
    <2>3. Len(s.turns) + 1 - lead = n + 1 BY <1>1, <1>2, <2>1
    <2> QED BY <2>2, <2>3
  <1>7. Alternate(more, lead)
    <2>1. ASSUME NEW i \in 1..Len(more)
          PROVE  /\ i <= lead => more[i].role = "system"
                 /\ i > lead => IF (i - lead) % 2 = 1 THEN more[i].role \in {"user", "tool"}
                                ELSE more[i].role = "assistant"
      <3>1. CASE i \in 1..Len(s.turns) BY <1>2, <1>4, <3>1 DEF Alternate
      <3>2. CASE i = Len(s.turns) + 1
        <4>1. more[i].role \in {"user", "tool"} BY <1>4, <3>2
        <4>2. (i - lead) % 2 = 1
          <5>1. i - lead = Len(s.turns) + 1 - lead BY <3>2
          <5> QED BY <1>6, <5>1
        <4>3. ~(i <= lead) BY <1>1, <1>2, <1>5, <3>2
        <4> QED BY <4>1, <4>2, <4>3
      <3> QED BY <1>1, <1>4, <3>1, <3>2
    <2>2. lead <= Len(more) BY <1>1, <1>2, <1>4, <1>5
    <2> QED BY <2>1, <2>2 DEF Alternate
  <1>8. Paired(more)
    <2>1. ASSUME NEW i \in 1..Len(more), more[i].role = "tool"
          PROVE  i > 1 /\ more[i - 1].calls = more[i].results
      <3>1. CASE i \in 1..Len(s.turns)
        <4>1. i > 1 /\ s.turns[i - 1].calls = s.turns[i].results
          BY <1>1, <1>4, <2>1, <3>1 DEF Paired
        <4>2. i - 1 \in 1..Len(s.turns) BY <1>1, <3>1, <4>1
        <4> QED BY <1>4, <3>1, <4>1, <4>2
      <3>2. CASE i = Len(s.turns) + 1
        <4>1. Len(s.turns) \in 1..Len(s.turns) /\ i - 1 = Len(s.turns) /\ i > 1
          BY <1>1, <1>4, <2>1, <3>2
        <4> QED BY <1>4, <2>1, <3>2, <4>1
      <3> QED BY <1>1, <1>4, <3>1, <3>2
    <2> QED BY <2>1 DEF Paired
  <1>9. PICK next : next = Extend(s, turn) OBVIOUS
  <1>10. /\ next \in SessionValues /\ next.turns = more /\ next.used = s.used + turn.cost
         /\ next.used = SumTo(Costs(more), Len(more))
    BY <1>1, <1>3, <1>9, ExtendIs
  <1>11. next.used <= TotalTokens BY <1>1, <1>10
  <1>12. (Len(more) - lead) % 2 = 1
    <2>1. Len(more) - lead = Len(s.turns) + 1 - lead BY <1>4
    <2> QED BY <1>6, <2>1
  <1> QED BY <1>2, <1>7, <1>8, <1>9, <1>10, <1>11, <1>12 DEF SessionSound

\* An answer within the budget.
LEMMA AnswerIsSound ==
  ASSUME NEW s, SessionSound(s, 1), NEW turn \in Turns, turn.role = "assistant",
         turn.cost <= TokensLeft(s)
  PROVE  SessionSound(Extend(s, turn), 0)
  <1>1. s \in SessionValues /\ s.turns \in Seq(Turns) /\ Len(s.turns) \in Nat /\ s.used \in Nat
        /\ turn.cost \in Nat
        /\ s.used <= TotalTokens /\ Paired(s.turns) /\ s.used = SumTo(Costs(s.turns), Len(s.turns))
    BY DEF SessionSound, SessionValues, Turns
  <1>2. PICK lead \in {0, 1} : Alternate(s.turns, lead) /\ (Len(s.turns) - lead) % 2 = 1
    BY DEF SessionSound
  <1>3. PICK more \in Seq(Turns) : more = Append(s.turns, turn) BY <1>1, Appended
  <1>4. /\ Len(more) = Len(s.turns) + 1 /\ more[Len(s.turns) + 1] = turn
        /\ \A i \in 1..Len(s.turns) : more[i] = s.turns[i]
    BY <1>1, <1>3, Appended
  <1>5. lead <= Len(s.turns) BY <1>2 DEF Alternate
  <1>6. (Len(s.turns) + 1 - lead) % 2 = 0
    <2>1. PICK n \in Nat : n = Len(s.turns) - lead BY <1>1, <1>2, <1>5
    <2>2. (n + 1) % 2 = 0 BY <1>2, <2>1, Parity
    <2>3. Len(s.turns) + 1 - lead = n + 1 BY <1>1, <1>2, <2>1
    <2> QED BY <2>2, <2>3
  <1>7. Alternate(more, lead)
    <2>1. ASSUME NEW i \in 1..Len(more)
          PROVE  /\ i <= lead => more[i].role = "system"
                 /\ i > lead => IF (i - lead) % 2 = 1 THEN more[i].role \in {"user", "tool"}
                                ELSE more[i].role = "assistant"
      <3>1. CASE i \in 1..Len(s.turns) BY <1>2, <1>4, <3>1 DEF Alternate
      <3>2. CASE i = Len(s.turns) + 1
        <4>1. more[i].role = "assistant" BY <1>4, <3>2
        <4>2. (i - lead) % 2 = 0
          <5>1. i - lead = Len(s.turns) + 1 - lead BY <3>2
          <5> QED BY <1>6, <5>1
        <4>3. ~(i <= lead) BY <1>1, <1>2, <1>5, <3>2
        <4> QED BY <4>1, <4>2, <4>3
      <3> QED BY <1>1, <1>4, <3>1, <3>2
    <2>2. lead <= Len(more) BY <1>1, <1>2, <1>4, <1>5
    <2> QED BY <2>1, <2>2 DEF Alternate
  <1>8. Paired(more)
    <2>1. ASSUME NEW i \in 1..Len(more), more[i].role = "tool"
          PROVE  i > 1 /\ more[i - 1].calls = more[i].results
      <3>1. i \in 1..Len(s.turns) BY <1>1, <1>4, <2>1
      <3>2. i > 1 /\ s.turns[i - 1].calls = s.turns[i].results
        BY <1>1, <1>4, <2>1, <3>1 DEF Paired
      <3>3. i - 1 \in 1..Len(s.turns) BY <1>1, <3>1, <3>2
      <3> QED BY <1>4, <3>1, <3>2, <3>3
    <2> QED BY <2>1 DEF Paired
  <1>9. PICK next : next = Extend(s, turn) OBVIOUS
  <1>10. /\ next \in SessionValues /\ next.turns = more /\ next.used = s.used + turn.cost
         /\ next.used = SumTo(Costs(more), Len(more))
    BY <1>1, <1>3, <1>9, ExtendIs
  <1>11. next.used <= TotalTokens
    BY <1>1, <1>10, SessionAssumption DEF TokensLeft
  <1>12. (Len(more) - lead) % 2 = 0
    <2>1. Len(more) - lead = Len(s.turns) + 1 - lead BY <1>4
    <2> QED BY <1>6, <2>1
  <1> QED BY <1>2, <1>7, <1>8, <1>9, <1>10, <1>11, <1>12 DEF SessionSound

\* The turns a session begins with, those of the user, of the tools and of the model.
LEMMA TurnsAre ==
  /\ System \in Turns /\ System.role = "system" /\ System.cost = 0
  /\ User \in Turns /\ User.role = "user" /\ User.cost = 0
  /\ \A calls \in SUBSET ToolCalls :
       /\ Results(calls) \in Turns /\ Results(calls).role = "tool" /\ Results(calls).cost = 0
       /\ Results(calls).results = calls
  /\ \A calls \in SUBSET ToolCalls, usage \in Usages :
       /\ Answer(calls, usage) \in Turns /\ Answer(calls, usage).role = "assistant"
       /\ Answer(calls, usage).cost = usage.input + usage.output
  <1>1. System \in Turns /\ System.role = "system" /\ System.cost = 0 BY DEF System, Turn, Turns
  <1>2. User \in Turns /\ User.role = "user" /\ User.cost = 0 BY DEF User, Turn, Turns
  <1>3. ASSUME NEW calls \in SUBSET ToolCalls
        PROVE  /\ Results(calls) \in Turns /\ Results(calls).role = "tool" /\ Results(calls).cost = 0
               /\ Results(calls).results = calls
    BY DEF Results, Turn, Turns
  <1>4. ASSUME NEW calls \in SUBSET ToolCalls, NEW usage \in Usages
        PROVE  /\ Answer(calls, usage) \in Turns /\ Answer(calls, usage).role = "assistant"
               /\ Answer(calls, usage).cost = usage.input + usage.output
    <2>1. usage.input + usage.output \in Nat BY SessionAssumption
    <2>2. Answer(calls, usage) =
            [role |-> "assistant", size |-> 1, calls |-> calls, results |-> {},
             cost |-> usage.input + usage.output]
      <3>1. PICK turn : turn = Turn("assistant", 1, calls, {}) OBVIOUS
      <3>2. turn = [role |-> "assistant", size |-> 1, calls |-> calls, results |-> {}, cost |-> 0]
        BY <3>1 DEF Turn
      <3>3. Answer(calls, usage) = [turn EXCEPT !.cost = usage.input + usage.output]
        BY <3>1 DEF Answer
      <3> QED BY <3>2, <3>3
    <2> QED BY <2>1, <2>2 DEF Turns
  <1> QED BY <1>1, <1>2, <1>3, <1>4

\* A new session is sound.
LEMMA NewIsSound ==
  ASSUME NEW turns \in {<<>>, <<System>>}
  PROVE  SessionSound(NewSession(turns), 0)
  <1>1. PICK new : new = NewSession(turns) OBVIOUS
  <1>2. turns \in Seq(Turns) /\ Len(turns) \in {0, 1} /\ \A i \in 1..Len(turns) : turns[i] = System
    <2>1. CASE turns = <<>> BY <2>1
    <2>2. CASE turns = <<System>> BY <2>2, TurnsAre
    <2> QED BY <2>1, <2>2
  <1>3. new \in SessionValues /\ new.turns = turns /\ new.used = 0
    <2>1. new = [revision |-> 0, mode |-> "normal", used |-> 0, turns |-> turns]
      BY <1>1 DEF NewSession
    <2> QED BY <1>2, <2>1 DEF SessionValues
  <1>4. PICK lead \in {0, 1} : lead = Len(turns) BY <1>2
  <1>5. Alternate(turns, lead)
    <2>1. \A i \in 1..Len(turns) : i <= lead /\ turns[i].role = "system" BY <1>2, <1>4, TurnsAre
    <2> QED BY <1>4, <2>1 DEF Alternate
  <1>6. (Len(turns) - lead) % 2 = 0
    <2>1. Len(turns) - lead = 0 BY <1>4
    <2>2. 0 % 2 = 0 OBVIOUS
    <2> QED BY <2>1, <2>2
  <1>7. Paired(turns) BY <1>2, TurnsAre DEF Paired
  <1>8. new.used = SumTo(Costs(turns), Len(turns))
    <2>1. \A i \in 1..Len(turns) : Costs(turns)[i] = 0 BY <1>2, TurnsAre DEF Costs
    <2> QED BY <1>2, <1>3, <2>1, SumOfNone
  <1>9. new.used <= TotalTokens BY <1>3, SessionAssumption
  <1> QED BY <1>1, <1>3, <1>5, <1>6, <1>7, <1>8, <1>9 DEF SessionSound

\* The calls that are pending are those of the model's last turn.
LEMMA PendingIs ==
  ASSUME NEW s \in SessionValues, Pending(s) # {}
  PROVE  /\ Len(s.turns) > 0 /\ s.turns[Len(s.turns)].role = "assistant"
         /\ s.turns[Len(s.turns)].calls = Pending(s) /\ Pending(s) \in SUBSET ToolCalls
  <1>1. s.turns \in Seq(Turns) BY DEF SessionValues
  <1>2. s.turns # <<>> /\ Last(s.turns).role = "assistant" /\ Pending(s) = Last(s.turns).calls
    BY DEF Pending
  <1>3. Len(s.turns) \in 1..Len(s.turns) BY <1>1, <1>2
  <1>4. s.turns[Len(s.turns)] \in Turns BY <1>1, <1>3
  <1>5. Last(s.turns) = s.turns[Len(s.turns)] BY DEF Last
  <1>6. \A t \in Turns : t.calls \in SUBSET ToolCalls BY DEF Turns
  <1> QED BY <1>2, <1>3, <1>4, <1>5, <1>6

\* What holds of a client, whatever the others do.
ClientSound(c) ==
  /\ inHand[c] # NoSession => row # NoSession /\ SessionSound(inHand[c], 0) /\ Continues(c)
  /\ asking[c] # Idle => /\ inHand[c] # NoSession /\ SessionSound(asking[c].session, 1)
                         /\ EvenRecent => Paired(asking[c].context)

\* The invariant gives the two facts about states.
LEMMA SessionGives ==
  ASSUME SessionInv
  PROVE  ContextPaired /\ UsageAccounted
  <1>1. ASSUME EvenRecent, NEW c \in Clients, NEW i \in DOMAIN asking[c].context,
               asking[c].context[i].role = "tool"
        PROVE  i > 1 /\ asking[c].context[i - 1].calls = asking[c].context[i].results
    <2>1. asking[c].context \in Seq(Turns) BY DEF SessionInv
    <2>2. i \in 1..Len(asking[c].context) BY <2>1
    <2>3. asking[c] # Idle
      <3> SUFFICES ASSUME asking[c] = Idle PROVE FALSE OBVIOUS
      <3>1. asking[c].context = <<>> BY DEF Idle
      <3> QED BY <3>1
    <2>4. Paired(asking[c].context) BY <1>1, <2>3 DEF SessionInv
    <2> QED BY <1>1, <2>2, <2>4 DEF Paired
  <1>2. ASSUME NEW s \in {row} \cup {inHand[c] : c \in Clients}, s # NoSession
        PROVE  /\ s.used = SumTo([i \in DOMAIN s.turns |-> s.turns[i].cost], Len(s.turns))
               /\ s.used <= TotalTokens
    <2>1. SessionSound(s, 0)
      <3>1. CASE s = row BY <1>2, <3>1 DEF SessionInv
      <3>2. ASSUME NEW c \in Clients, s = inHand[c] PROVE SessionSound(s, 0)
        BY <1>2, <3>2 DEF SessionInv
      <3> QED BY <3>1, <3>2
    <2> QED BY <2>1 DEF SessionSound, Costs
  <1> QED BY <1>1, <1>2 DEF ContextPaired, UsageAccounted

\* Nothing is stored and nobody holds a session to begin with.
LEMMA SessionStart ==
  ASSUME SessionInit
  PROVE  SessionInv
  <1>1. inHand \in [Clients -> SessionValues \union {NoSession}] BY DEF SessionInit
  <1>2. base \in [Clients -> Nat] BY DEF SessionInit
  <1>3. asking \in [Clients -> [session : SessionValues \union {NoSession}, context : Seq(Turns)]]
    <2>1. Idle \in [session : SessionValues \union {NoSession}, context : Seq(Turns)] BY DEF Idle
    <2> QED BY <2>1 DEF SessionInit
  <1>4. row = NoSession /\ \A c \in Clients : inHand[c] = NoSession /\ asking[c] = Idle
    BY DEF SessionInit
  <1> QED BY <1>1, <1>2, <1>3, <1>4 DEF SessionInv

\* Any beginning of turns is their own.
LEMMA PrefixOfItself ==
  ASSUME NEW s \in Seq(Turns)
  PROVE  IsPrefix(s, s)
  BY PrefixIs

\* The model is asked with a context of which every result has its call.
LEMMA InferSound ==
  ASSUME SessionInv, NEW c \in Clients, Ready(c), NEW s, SessionSound(s, 1),
         base[c] = row.revision => IsPrefix(row.turns, s.turns), Infer(c, s)
  PROVE  SessionInv' /\ row' = row
  <1>1. PICK context \in Compact(s.turns, InputLimit(s)) :
          asking' = [asking EXCEPT ![c] = [session |-> s, context |-> context]]
    BY DEF Infer
  <1>2. row' = row /\ inHand' = inHand /\ base' = base BY DEF Infer
  <1>3. s \in SessionValues /\ s.turns \in Seq(Turns) /\ Paired(s.turns) BY DEF SessionSound, SessionValues
  <1>4. PICK lead \in {0, 1} : Alternate(s.turns, lead) /\ (Len(s.turns) - lead) % 2 = 1
    BY DEF SessionSound
  <1>5. PICK limit : limit = InputLimit(s) OBVIOUS
  <1>6. context \in Seq(Turns) /\ (EvenRecent => Paired(context)) BY <1>1, <1>3, <1>4, <1>5, CompactPairs
  <1>7. asking' \in [Clients -> [session : SessionValues \union {NoSession}, context : Seq(Turns)]]
    BY <1>1, <1>3, <1>6 DEF SessionInv
  <1>8. ASSUME NEW d \in Clients PROVE ClientSound(d)'
    <2>1. CASE d = c
      <3>1. asking'[d] = [session |-> s, context |-> context] BY <1>1, <2>1 DEF SessionInv
      <3>2. inHand[d] # NoSession /\ row # NoSession /\ SessionSound(inHand[d], 0) /\ Continues(d)
        BY <2>1 DEF SessionInv, Ready
      <3>3. Continues(d)' BY <1>2, <2>1, <3>1, <3>2 DEF Continues
      <3> QED BY <1>2, <1>6, <3>1, <3>2, <3>3 DEF ClientSound
    <2>2. CASE d # c
      <3>1. asking'[d] = asking[d] BY <1>1, <2>2 DEF SessionInv
      <3>2. ClientSound(d) BY DEF SessionInv, ClientSound
      <3> QED BY <1>2, <3>1, <3>2 DEF ClientSound, Continues
    <2> QED BY <2>1, <2>2
  <1> QED BY <1>2, <1>7, <1>8 DEF SessionInv, ClientSound

\* Every step keeps the invariant, and what is stored only grows.
LEMMA SessionStep ==
  ASSUME SessionInv, [SessionNext]_sessionVars
  PROVE  SessionInv' /\ (HistoryExtends \/ sessionVars' = sessionVars)
  <1>1. CASE sessionVars' = sessionVars
    BY <1>1 DEF sessionVars, SessionInv, Continues
  <1> SUFFICES ASSUME SessionNext PROVE SessionInv' /\ HistoryExtends
    BY <1>1
  <1>2. PICK c \in Clients : \/ CreateSession(c) \/ LoadSession(c) \/ SaveSession(c)
                             \/ StartTurn(c) \/ ResumeTurn(c) \/ ChangeMode(c)
                             \/ ModelAnswers(c) \/ ModelFails(c)
    BY DEF SessionNext
  <1>3. ASSUME row # NoSession PROVE row \in SessionValues /\ row.turns \in Seq(Turns) /\ row.revision \in Nat
                                     /\ SessionSound(row, 0)
    BY <1>3 DEF SessionInv, SessionSound, SessionValues
  <1>4. ASSUME row' = row PROVE HistoryExtends
    BY <1>3, <1>4, PrefixOfItself DEF HistoryExtends
  <1>5. ASSUME NEW d \in Clients, inHand[d] # NoSession
        PROVE  inHand[d] \in SessionValues /\ inHand[d].turns \in Seq(Turns) /\ inHand[d].revision \in Nat
               /\ row # NoSession /\ SessionSound(inHand[d], 0) /\ Continues(d)
    BY <1>5 DEF SessionInv, SessionSound, SessionValues
  <1>6. ASSUME NEW d \in Clients PROVE ClientSound(d) /\ base[d] \in Nat BY DEF SessionInv, ClientSound
  <1>7. CASE CreateSession(c)
    <2>1. PICK turns \in {<<>>, <<System>>} : row' = NewSession(turns) BY <1>7 DEF CreateSession
    <2>2. SessionSound(NewSession(turns), 0) BY NewIsSound
    <2>3. row = NoSession /\ inHand' = inHand /\ base' = base /\ asking' = asking
      BY <1>7 DEF CreateSession
    <2>4. \A d \in Clients : inHand[d] = NoSession /\ asking[d] = Idle
      BY <1>5, <1>6, <2>3 DEF ClientSound
    <2> QED BY <2>1, <2>2, <2>3, <2>4 DEF SessionInv, HistoryExtends
  <1>8. CASE LoadSession(c)
    <2>1. /\ row # NoSession /\ asking[c] = Idle /\ row' = row /\ asking' = asking
          /\ inHand' = [inHand EXCEPT ![c] = row] /\ base' = [base EXCEPT ![c] = row.revision]
      BY <1>8 DEF LoadSession
    <2>2. inHand' \in [Clients -> SessionValues \union {NoSession}] /\ base' \in [Clients -> Nat]
      BY <1>3, <2>1 DEF SessionInv
    <2>3. ASSUME NEW d \in Clients PROVE ClientSound(d)'
      <3>1. CASE d = c
        <4>1. inHand'[d] = row /\ base'[d] = row.revision /\ asking'[d] = Idle
          BY <2>1, <3>1 DEF SessionInv
        <4>2. Continues(d)' BY <1>3, <2>1, <4>1, PrefixOfItself DEF Continues, SessionInv
        <4> QED BY <1>3, <2>1, <4>1, <4>2 DEF ClientSound
      <3>2. CASE d # c
        <4>1. inHand'[d] = inHand[d] /\ base'[d] = base[d] BY <2>1, <3>2 DEF SessionInv
        <4> QED BY <1>6, <2>1, <4>1 DEF ClientSound, Continues
      <3> QED BY <3>1, <3>2
    <2> QED BY <1>4, <2>1, <2>2, <2>3 DEF SessionInv, ClientSound
  <1>9. CASE SaveSession(c)
    <2>1. /\ inHand[c] # NoSession /\ asking[c] = Idle /\ inHand[c].revision > base[c]
          /\ row.revision = base[c] /\ row' = inHand[c]
          /\ base' = [base EXCEPT ![c] = inHand[c].revision] /\ inHand' = inHand /\ asking' = asking
      BY <1>9 DEF SaveSession, Ready, Unchanged
    <2>2. /\ inHand[c] \in SessionValues /\ inHand[c].turns \in Seq(Turns) /\ inHand[c].revision \in Nat
          /\ row # NoSession /\ SessionSound(inHand[c], 0) /\ IsPrefix(row.turns, inHand[c].turns)
      BY <1>5, <2>1 DEF Continues
    <2>3. base' \in [Clients -> Nat] BY <2>1, <2>2 DEF SessionInv
    <2>4. row' # NoSession /\ row'.revision > row.revision /\ row.revision \in Nat /\ row'.revision \in Nat
      BY <1>3, <2>1, <2>2, NoSessionAssumption
    <2>5. HistoryExtends BY <2>1, <2>2, <2>4 DEF HistoryExtends
    <2>6. ASSUME NEW d \in Clients PROVE ClientSound(d)'
      <3>1. CASE d = c
        <4>1. inHand'[d] = row' /\ base'[d] = row'.revision /\ asking'[d] = Idle
          BY <2>1, <3>1 DEF SessionInv
        <4>2. Continues(d)' BY <2>1, <2>2, <2>4, <4>1, PrefixOfItself DEF Continues
        <4> QED BY <2>1, <2>2, <2>4, <4>1, <4>2 DEF ClientSound
      <3>2. CASE d # c
        <4>1. base'[d] = base[d] BY <2>1, <3>2 DEF SessionInv
        <4>2. ASSUME inHand[d] # NoSession PROVE Continues(d)'
          <5>1. base[d] <= row.revision /\ base[d] \in Nat BY <1>5, <1>6, <4>2 DEF Continues
          <5>2. base[d] < row'.revision BY <2>4, <5>1
          <5> QED BY <2>4, <4>1, <5>1, <5>2 DEF Continues
        <4> QED BY <1>6, <2>1, <2>4, <4>2 DEF ClientSound
      <3> QED BY <3>1, <3>2
    <2>7. row' # NoSession => SessionSound(row, 0)'
      <3>1. PICK new : new = inHand[c] OBVIOUS
      <3>2. SessionSound(new, 0) /\ row' = new BY <2>1, <2>2, <3>1
      <3> QED BY <3>2 DEF SessionSound
    <2> QED BY <2>1, <2>3, <2>5, <2>6, <2>7 DEF SessionInv, ClientSound
  <1>10. CASE StartTurn(c)
    <2>1. inHand[c] # NoSession /\ Ready(c) /\ Infer(c, Extend(inHand[c], User))
      BY <1>10 DEF StartTurn, Ready
    <2>2. PICK s : s = inHand[c] OBVIOUS
    <2>3. SessionSound(s, 0) /\ s \in SessionValues /\ s.turns \in Seq(Turns) /\ Continues(c)
          /\ row # NoSession
      BY <1>5, <2>1, <2>2
    <2>4. PICK turn \in Turns : turn = User BY TurnsAre
    <2>5. turn.role = "user" /\ turn.cost = 0 BY <2>4, TurnsAre
    <2>6. PICK next : next = Extend(s, turn) OBVIOUS
    <2>7. SessionSound(next, 1) BY <2>3, <2>5, <2>6, QuestionIsSound
    <2>8. next.turns = Append(s.turns, turn) BY <2>3, <2>6, ExtendIs
    <2>9. base[c] = row.revision => IsPrefix(row.turns, next.turns)
      BY <1>3, <2>2, <2>3, <2>8, PrefixGrows DEF Continues
    <2>10. Infer(c, next) BY <2>1, <2>2, <2>4, <2>6
    <2>11. SessionInv' /\ row' = row BY <2>1, <2>7, <2>9, <2>10, InferSound
    <2> QED BY <1>4, <2>11
  <1>11. CASE ResumeTurn(c)
    <2>1. /\ inHand[c] # NoSession /\ Ready(c) /\ Pending(inHand[c]) # {}
          /\ Infer(c, Extend(inHand[c], Results(Pending(inHand[c]))))
      BY <1>11 DEF ResumeTurn, Ready
    <2>2. PICK s : s = inHand[c] OBVIOUS
    <2>3. SessionSound(s, 0) /\ s \in SessionValues /\ s.turns \in Seq(Turns) /\ Continues(c)
          /\ row # NoSession
      BY <1>5, <2>1, <2>2
    <2>4. /\ Len(s.turns) > 0 /\ s.turns[Len(s.turns)].role = "assistant"
          /\ s.turns[Len(s.turns)].calls = Pending(s) /\ Pending(s) \in SUBSET ToolCalls
      BY <2>1, <2>2, <2>3, PendingIs
    <2>5. PICK turn : turn = Results(Pending(s)) OBVIOUS
    <2>6. turn \in Turns /\ turn.role = "tool" /\ turn.cost = 0 /\ turn.results = Pending(s)
      BY <2>4, <2>5, TurnsAre
    <2>7. PICK next : next = Extend(s, turn) OBVIOUS
    <2>8. SessionSound(next, 1) BY <2>3, <2>4, <2>6, <2>7, QuestionIsSound
    <2>9. next.turns = Append(s.turns, turn) BY <2>3, <2>6, <2>7, ExtendIs
    <2>10. base[c] = row.revision => IsPrefix(row.turns, next.turns)
      BY <1>3, <2>2, <2>3, <2>6, <2>9, PrefixGrows DEF Continues
    <2>11. Infer(c, next) BY <2>1, <2>2, <2>5, <2>7
    <2>12. SessionInv' /\ row' = row BY <2>1, <2>8, <2>10, <2>11, InferSound
    <2> QED BY <1>4, <2>12
  <1>12. CASE ChangeMode(c)
    <2>1. PICK s : s = inHand[c] OBVIOUS
    <2>2. /\ Ready(c) /\ s # NoSession /\ asking[c] = Idle
          /\ inHand' = [inHand EXCEPT ![c] = [s EXCEPT !.revision = s.revision + 1,
                                       !.mode = IF s.mode = "plan" THEN "normal" ELSE "plan"]]
          /\ row' = row /\ base' = base /\ asking' = asking
      BY <1>12, <2>1 DEF ChangeMode, Ready
    <2>3. s \in SessionValues /\ SessionSound(s, 0) /\ Continues(c) /\ row # NoSession /\ s.turns \in Seq(Turns)
      BY <1>5, <2>1, <2>2
    <2>4. PICK next : next = [s EXCEPT !.revision = s.revision + 1,
                                       !.mode = IF s.mode = "plan" THEN "normal" ELSE "plan"]
      OBVIOUS
    <2>5. next \in SessionValues /\ next.turns = s.turns /\ next.used = s.used
      <3>1. s.revision + 1 \in Nat BY <2>3 DEF SessionValues
      <3>2. next = [revision |-> s.revision + 1,
                    mode |-> IF s.mode = "plan" THEN "normal" ELSE "plan",
                    used |-> s.used, turns |-> s.turns]
        BY <2>3, <2>4 DEF SessionValues
      <3>3. s.used \in Nat BY <2>3 DEF SessionValues
      <3> QED BY <2>3, <3>1, <3>2, <3>3 DEF SessionValues
    <2>6. SessionSound(next, 0) BY <2>3, <2>5 DEF SessionSound
    <2>7. inHand' = [inHand EXCEPT ![c] = next] BY <2>2, <2>4
    <2>8. inHand' \in [Clients -> SessionValues \union {NoSession}] BY <2>5, <2>7 DEF SessionInv
    <2>9. ASSUME NEW d \in Clients PROVE ClientSound(d)'
      <3>1. CASE d = c
        <4>1. inHand'[d] = next BY <2>7, <3>1 DEF SessionInv
        <4>2. Continues(d)' BY <2>1, <2>2, <2>3, <2>5, <3>1, <4>1 DEF Continues
        <4> QED BY <2>2, <2>3, <2>6, <3>1, <4>1, <4>2 DEF ClientSound
      <3>2. CASE d # c
        <4>1. inHand'[d] = inHand[d] BY <2>7, <3>2 DEF SessionInv
        <4> QED BY <1>6, <2>2, <4>1 DEF ClientSound, Continues
      <3> QED BY <3>1, <3>2
    <2> QED BY <1>4, <2>2, <2>8, <2>9 DEF SessionInv, ClientSound
  <1>13. CASE ModelAnswers(c)
    <2>1. PICK s : s = asking[c].session OBVIOUS
    <2>2. PICK calls \in SUBSET ToolCalls, usage \in Usages :
            /\ UsageValid(s, asking[c].context, usage)
            /\ inHand' = [inHand EXCEPT ![c] = Extend(s, Answer(calls, usage))]
      BY <1>13, <2>1 DEF ModelAnswers
    <2>3. /\ asking[c] # Idle /\ asking' = [asking EXCEPT ![c] = Idle] /\ row' = row /\ base' = base
      BY <1>13 DEF ModelAnswers
    <2>4. inHand[c] # NoSession /\ SessionSound(s, 1) BY <1>6, <2>1, <2>3 DEF ClientSound
    <2>5. s \in SessionValues /\ s.turns \in Seq(Turns) BY <2>4 DEF SessionSound, SessionValues
    <2>6. row # NoSession /\ Continues(c) BY <1>5, <2>4
    <2>7. PICK turn \in Turns : turn = Answer(calls, usage) BY TurnsAre
    <2>8. turn.role = "assistant" /\ turn.cost <= TokensLeft(s)
      BY <2>2, <2>7, TurnsAre DEF UsageValid
    <2>9. PICK next : next = Extend(s, turn) OBVIOUS
    <2>10. SessionSound(next, 0) BY <2>4, <2>8, <2>9, AnswerIsSound
    <2>11. next \in SessionValues /\ next.turns = Append(s.turns, turn) BY <2>5, <2>9, ExtendIs
    <2>12. inHand' = [inHand EXCEPT ![c] = next] BY <2>2, <2>7, <2>9
    <2>13. inHand' \in [Clients -> SessionValues \union {NoSession}] BY <2>11, <2>12 DEF SessionInv
    <2>14. asking' \in [Clients -> [session : SessionValues \union {NoSession}, context : Seq(Turns)]]
      <3>1. Idle \in [session : SessionValues \union {NoSession}, context : Seq(Turns)] BY DEF Idle
      <3> QED BY <2>3, <3>1 DEF SessionInv
    <2>15. ASSUME NEW d \in Clients PROVE ClientSound(d)'
      <3>1. CASE d = c
        <4>1. inHand'[d] = next /\ asking'[d] = Idle BY <2>3, <2>12, <3>1 DEF SessionInv
        <4>2. base[c] = row.revision => IsPrefix(row.turns, next.turns)
          BY <1>3, <2>1, <2>3, <2>5, <2>6, <2>11, PrefixGrows DEF Continues
        <4>3. Continues(d)' BY <2>3, <2>6, <3>1, <4>1, <4>2 DEF Continues
        <4> QED BY <2>3, <2>6, <2>10, <4>1, <4>3 DEF ClientSound
      <3>2. CASE d # c
        <4>1. inHand'[d] = inHand[d] /\ asking'[d] = asking[d] BY <2>3, <2>12, <3>2 DEF SessionInv
        <4> QED BY <1>6, <2>3, <4>1 DEF ClientSound, Continues
      <3> QED BY <3>1, <3>2
    <2> QED BY <1>4, <2>3, <2>13, <2>14, <2>15 DEF SessionInv, ClientSound
  <1>14. CASE ModelFails(c)
    <2>1. /\ asking' = [asking EXCEPT ![c] = Idle] /\ row' = row /\ base' = base /\ inHand' = inHand
      BY <1>14 DEF ModelFails
    <2>2. asking' \in [Clients -> [session : SessionValues \union {NoSession}, context : Seq(Turns)]]
      <3>1. Idle \in [session : SessionValues \union {NoSession}, context : Seq(Turns)] BY DEF Idle
      <3> QED BY <2>1, <3>1 DEF SessionInv
    <2>3. ASSUME NEW d \in Clients PROVE ClientSound(d)'
      <3>1. asking'[d] = Idle \/ asking'[d] = asking[d] BY <2>1 DEF SessionInv
      <3> QED BY <1>6, <2>1, <3>1 DEF ClientSound, Continues
    <2> QED BY <1>4, <2>1, <2>2, <2>3 DEF SessionInv, ClientSound
  <1> QED BY <1>2, <1>7, <1>8, <1>9, <1>10, <1>11, <1>12, <1>13, <1>14

\* A session is what happened in it, whatever is asked, answered, cut, saved and reloaded: the
\* store never loses a turn to a writer that had not seen it, the usage it records is what its
\* turns have cost and within the budget, and with an even number of turns that are never cut the
\* model is sent no result without its call (_append(), _validate_usage() and _infer() of loop.py,
\* compact() of context.py, save() of session_store.py).
THEOREM SessionsAreKept == SessionSpec => SessionKept
  <1>1. SessionInit => SessionInv BY SessionStart
  <1>2. SessionInv /\ [SessionNext]_sessionVars => SessionInv' /\ [HistoryExtends]_sessionVars
    BY SessionStep
  <1>3. SessionInv => ContextPaired /\ UsageAccounted BY SessionGives
  <1> QED BY <1>1, <1>2, <1>3, PTL DEF SessionSpec, SessionKept

-----------------------------------------------------------------------------
(* Sets of ids.                                                             *)

\* Sets of subagents are finite.
LEMMA IdSetsFinite == ASSUME NEW S \in SUBSET Ids PROVE IsFiniteSet(S) /\ Cardinality(S) \in Nat
  <1>1. IsFiniteSet(Ids) BY FS_Interval DEF Ids
  <1>2. IsFiniteSet(S) BY <1>1, FS_Subset
  <1> QED BY <1>2, FS_CardinalityType

\* Those the semaphore wakes wait, and are as many as it was asked for, or all.
LEMMA FirstAre ==
  ASSUME NEW n \in Nat, NEW next \in FirstWaiting(n)
  PROVE  /\ next \subseteq Waiting /\ Waiting \subseteq Ids /\ IsFiniteSet(next)
         /\ Cardinality(next) \in Nat /\ Cardinality(next) <= n
         /\ Cardinality(next) = n \/ next = Waiting
  <1>1. next \subseteq Waiting /\ Waiting \subseteq Ids BY DEF FirstWaiting, Waiting
  <1>2. IsFiniteSet(next) /\ Cardinality(next) \in Nat BY <1>1, IdSetsFinite
  <1> QED BY <1>1, <1>2 DEF FirstWaiting

\* Those who hold a slot are finitely many.
LEMMA HoldersFinite == IsFiniteSet(Holders) /\ Cardinality(Holders) \in Nat
  BY IdSetsFinite DEF Holders

\* Slots add up as before when nobody takes or returns one.
LEMMA HoldersAsBefore ==
  ASSUME Holders' = Holders, free' = free, SlotsCounted
  PROVE  SlotsCounted'
  BY DEF SlotsCounted

\* A task leaves its place and some are woken: slots add up, and whoever still waits beside a free
\* one has somebody before it that was woken.
LEMMA WakeSlots ==
  ASSUME Inductive, NEW a \in Ids, a \notin Waiting, NEW place \in {"working", "over"},
         NEW slots \in Nat, NEW n \in Nat, n <= slots, n = slots \/ n = 1,
         NEW next \in FirstWaiting(n),
         slots = free + (IF a \in Holders THEN 1 ELSE 0) - (IF place = "working" THEN 1 ELSE 0),
         pc' = [b \in Ids |-> IF b = a THEN place ELSE IF b \in next THEN "granted" ELSE pc[b]],
         free' = slots - Cardinality(next), \A b \in Ids \ {a} : kick'[b] = kick[b]
  PROVE  free' \in 0..MaxConcurrent /\ SlotsCounted' /\ NoIdleSlot'
  <1>1. /\ next \subseteq Waiting /\ Waiting \subseteq Ids /\ IsFiniteSet(next)
        /\ Cardinality(next) \in Nat /\ Cardinality(next) <= n
        /\ Cardinality(next) = n \/ next = Waiting
    BY FirstAre
  <1>2. PICK m \in Nat : m = Cardinality(next) BY <1>1
  <1>3. PICK held \in Nat : held = Cardinality(Holders) BY HoldersFinite
  <1>4. free + held = MaxConcurrent /\ free \in Nat
    BY <1>3 DEF Inductive, TypeOK, SlotsConserved, SlotsCounted
  <1>5. a \notin next /\ next \cap Holders = {} BY <1>1 DEF Waiting, Holders
  <1> DEFINE left == Holders \ {a}
             stay == IF place = "working" THEN Holders \cup {a} ELSE left
  <1>6. Holders' = stay \cup next
    <2>1. \A b \in Ids : pc'[b] = IF b = a THEN place ELSE IF b \in next THEN "granted" ELSE pc[b]
      OBVIOUS
    <2> QED BY <1>1, <1>5, <2>1 DEF Holders
  <1>7. /\ IsFiniteSet(stay)
        /\ Cardinality(stay) = held - (IF a \in Holders THEN 1 ELSE 0) + (IF place = "working" THEN 1 ELSE 0)
    <2>1. CASE place = "working"
      <3>1. IsFiniteSet(stay) /\ Cardinality(stay) = IF a \in Holders THEN held ELSE held + 1
        BY <1>3, <2>1, HoldersFinite, FS_AddElement
      <3> QED BY <2>1, <3>1
    <2>2. CASE place = "over"
      <3>1. IsFiniteSet(stay) /\ Cardinality(stay) = IF a \in Holders THEN held - 1 ELSE held
        BY <1>3, <2>2, HoldersFinite, FS_RemoveElement
      <3> QED BY <2>2, <3>1
    <2> QED BY <2>1, <2>2
  <1>8. stay \cap next = {} BY <1>5
  <1>9. PICK kept \in Nat : kept = Cardinality(stay)
    <2>1. stay \in SUBSET Ids BY DEF Holders
    <2> QED BY <2>1, IdSetsFinite
  <1> HIDE DEF stay, left
  <1>10. Cardinality(Holders') = kept + m
    <2>1. Cardinality(stay \cup next) = Cardinality(stay) + Cardinality(next) - Cardinality(stay \cap next)
      BY <1>1, <1>7, FS_Union
    <2>2. Cardinality(stay \cap next) = 0 BY <1>8, FS_EmptySet
    <2> QED BY <1>2, <1>6, <1>9, <2>1, <2>2
  <1>11. slots + kept = MaxConcurrent BY <1>4, <1>7, <1>9
  <1>12. free' = slots - m /\ m <= slots BY <1>1, <1>2
  <1>13. free' \in 0..MaxConcurrent BY <1>11, <1>12
  <1>14. SlotsCounted' BY <1>10, <1>11, <1>12 DEF SlotsCounted
  <1>15. NoIdleSlot'
    <2> SUFFICES ASSUME free' > 0, Waiting' # {} PROVE \E b \in Ids : pc'[b] = "granted"
      BY DEF NoIdleSlot
    <2>1. Waiting' \subseteq Waiting \ next
      <3>1. ASSUME NEW b \in Waiting' PROVE b \in Waiting \ next
        <4>1. b \in Ids /\ pc'[b] = "queued" /\ kick'[b] = "none" BY <3>1 DEF Waiting
        <4>2. b # a /\ b \notin next /\ pc[b] = "queued" BY <4>1
        <4> QED BY <4>1, <4>2 DEF Waiting
      <3> QED BY <3>1
    <2>2. m = n BY <1>1, <1>2, <2>1
    <2>3. n = 1 BY <1>12, <2>2
    <2>4. next # {}
      <3>1. Cardinality({}) = 0 BY FS_EmptySet
      <3>2. Cardinality(next) = 1 BY <1>2, <2>2, <2>3
      <3> QED BY <3>1, <3>2
    <2>5. PICK b \in next : TRUE BY <2>4
    <2>6. b \in Ids /\ b # a BY <1>1, <1>5, <2>5
    <2>7. pc'[b] = "granted" BY <2>5, <2>6
    <2> QED BY <2>6, <2>7
  <1> QED BY <1>13, <1>14, <1>15

-----------------------------------------------------------------------------
(* One lemma per operation.                                                 *)

\* A new manager satisfies the invariant.
LEMMA InitInductive == ASSUME Init PROVE Inductive
  <1>1. Holders = {} BY DEF Init, Holders
  <1>2. Cardinality(Holders) = 0 BY <1>1, FS_EmptySet
  <1>3. SlotsCounted BY <1>2 DEF Init, SlotsCounted
  <1>4. NoIdleSlot BY DEF Init, NoIdleSlot, Waiting
  <1>5. TypeOK
    <2>1. (CHOOSE s \in Sessions : TRUE) \in Sessions OBVIOUS
    <2>2. NoId \in Ids \cup {NoId} /\ 0 \in 0..MaxDepth /\ 0 \in 0..MaxPerAgent OBVIOUS
    <2>3. tree \in [Ids -> Requests] BY <2>1, <2>2 DEF Init, Requests
    <2>4. pc \in [Ids -> Places] /\ status \in [Ids -> Statuses]
      BY DEF Init, Places, Statuses
    <2>5. /\ token \in [Ids -> BOOLEAN] /\ kick \in [Ids -> {"none", "timeout", "cancel"}]
          /\ doomed \subseteq Ids
      BY DEF Init
    <2>6. started \in 0..MaxTotal /\ consumed \in Int /\ reserved \in Int /\ free \in 0..MaxConcurrent
      BY DEF Init
    <2> QED BY <2>3, <2>4, <2>5, <2>6 DEF TypeOK
  <1>6. NoOvercommit BY DEF Init, NoOvercommit
  <1>7. Numbered BY DEF Init, Numbered, Ids
  <1>8. DoomedTold BY DEF Init, DoomedTold
  <1> QED BY <1>3, <1>4, <1>5, <1>6, <1>7, <1>8 DEF Inductive, SlotsConserved

\* spawn(), within depth, number and budget, keeps the invariant.
LEMMA SpawnInductive ==
  ASSUME Inductive, NEW parent \in Ids \cup {NoId}, NEW s \in Sessions, NEW b \in Budget,
         Spawn(parent, s, b)
  PROVE  Inductive'
  <1> DEFINE id == started + 1
             depth == IF parent = NoId THEN 1 ELSE tree[parent].depth + 1
  <1>1. id \in Ids /\ b \in 0..MaxPerAgent
    BY DEF Inductive, TypeOK, Spawn, Ids, Budget
  <1>2. depth \in 0..MaxDepth
    <2>1. CASE parent = NoId BY <2>1
    <2>2. CASE parent # NoId
      <3>1. tree[parent] \in Requests BY <2>2 DEF Inductive, TypeOK
      <3>2. tree[parent].depth \in Nat BY <3>1 DEF Requests
      <3> QED BY <2>2, <3>2 DEF Spawn
    <2> QED BY <2>1, <2>2
  <1>3. /\ tree' = [tree EXCEPT ![id] = [parent |-> parent, depth |-> depth, session |-> s,
                                         budget |-> b]]
        /\ pc' = [pc EXCEPT ![id] = "new"] /\ started' = id /\ reserved' = reserved + b
        /\ UNCHANGED <<token, kick, status, consumed, free, doomed>> /\ Within(b)
    BY DEF Spawn
  <1>4. pc[id] = "none" BY <1>1 DEF Inductive, TypeOK, Numbered
  <1> HIDE DEF id, depth
  <1>5. TypeOK'
    <2>1. [parent |-> parent, depth |-> depth, session |-> s, budget |-> b] \in Requests
      BY <1>1, <1>2 DEF Requests
    <2>2. tree' \in [Ids -> Requests] BY <1>1, <1>3, <2>1 DEF Inductive, TypeOK
    <2>3. pc' \in [Ids -> Places] BY <1>1, <1>3 DEF Inductive, TypeOK, Places
    <2>4. started' \in 0..MaxTotal /\ reserved' \in Int
      BY <1>1, <1>3 DEF Inductive, TypeOK, Ids, Budget
    <2> QED BY <1>3, <2>2, <2>3, <2>4 DEF Inductive, TypeOK
  <1>6. NoOvercommit'
    <2>1. consumed \in Int /\ reserved \in Int /\ b \in Int BY <1>1 DEF Inductive, TypeOK
    <2> QED BY <1>3, <2>1 DEF NoOvercommit, Within
  <1>7. Holders' = Holders BY <1>1, <1>3, <1>4 DEF Inductive, TypeOK, Holders
  <1>8. SlotsCounted' BY <1>3, <1>7, HoldersAsBefore DEF Inductive, SlotsConserved
  <1>9. NoIdleSlot'
    <2>1. pc \in [Ids -> Places] /\ NoIdleSlot BY DEF Inductive, TypeOK, SlotsConserved
    <2>2. \A c \in Ids : pc'[c] = pc[c] \/ (pc'[c] = "new" /\ pc[c] = "none")
      BY <1>1, <1>3, <1>4, <2>1
    <2>3. \A c \in Ids : pc[c] = "granted" => pc'[c] = "granted" BY <2>2
    <2>4. Waiting' \subseteq Waiting BY <1>3, <2>2 DEF Waiting
    <2> QED BY <1>3, <2>1, <2>3, <2>4 DEF NoIdleSlot
  <1>10. Numbered' BY <1>1, <1>3 DEF Inductive, TypeOK, Numbered, Ids, id
  <1>11. DoomedTold' BY <1>1, <1>3, <1>4 DEF Inductive, TypeOK, DoomedTold
  <1> QED BY <1>5, <1>6, <1>8, <1>9, <1>10, <1>11 DEF Inductive, SlotsConserved

\* A task that gets its slot and starts its worker keeps the invariant.
LEMMA BeginInductive == ASSUME Inductive, NEW a \in Ids, Begin(a) PROVE Inductive'
  <1>1. /\ kick[a] = "none" /\ pc[a] \in {"granted", "new"}
        /\ UNCHANGED <<tree, token, kick, status, started, consumed, reserved, doomed>>
    BY DEF Begin, First
  <1>2. /\ free \in Nat /\ pc \in [Ids -> Places] /\ a \notin Waiting
        /\ pc[a] = "granted" <=> a \in Holders
    BY <1>1 DEF Inductive, TypeOK, Waiting, Holders
  <1>3. PICK n \in Nat : n = free + (IF a \in Holders THEN 1 ELSE 0) - 1
    BY <1>1, <1>2 DEF Begin, Locked
  <1> DEFINE Woken(next) ==
               pc' = [b \in Ids |-> IF b = a THEN "working" ELSE IF b \in next THEN "granted" ELSE pc[b]]
  <1>4. \E next \in FirstWaiting(n) : Woken(next) /\ free' = n - Cardinality(next)
    <2>1. CASE pc[a] = "new" /\ ~Locked /\ free' = free - 1 /\ pc' = [pc EXCEPT ![a] = "working"]
      <3>1. Waiting = {} /\ n = free - 1 BY <1>2, <1>3, <2>1 DEF Locked
      <3>2. Cardinality({}) = 0 BY FS_EmptySet
      <3>3. {} \in FirstWaiting(n) BY <1>3, <3>1, <3>2 DEF FirstWaiting
      <3>4. Woken({}) BY <1>2, <2>1
      <3>5. free' = n - Cardinality({}) BY <1>2, <2>1, <3>1, <3>2
      <3> HIDE DEF Woken
      <3> QED BY <3>3, <3>4, <3>5
    <2>2. CASE /\ pc[a] = "granted"
               /\ \E next \in FirstWaiting(free) : free' = free - Cardinality(next) /\ Woken(next)
      <3> HIDE DEF Woken
      <3>1. n = free BY <1>2, <1>3, <2>2
      <3> QED BY <2>2, <3>1
    <2>3. \/ ~Locked /\ free' = free - 1 /\ pc' = [pc EXCEPT ![a] = "working"] /\ pc[a] = "new"
          \/ /\ pc[a] = "granted"
             /\ \E next \in FirstWaiting(free) : free' = free - Cardinality(next) /\ Woken(next)
      BY Zenon DEF Begin, First
    <2> HIDE DEF Woken
    <2> QED BY <2>1, <2>2, <2>3
  <1>5. PICK next \in FirstWaiting(n) : Woken(next) /\ free' = n - Cardinality(next) BY <1>4
  <1>6. free' \in 0..MaxConcurrent /\ SlotsCounted' /\ NoIdleSlot'
    <2>1. n = free + (IF a \in Holders THEN 1 ELSE 0) - (IF "working" = "working" THEN 1 ELSE 0)
      BY <1>3
    <2>2. \A b \in Ids \ {a} : kick'[b] = kick[b] BY <1>1
    <2> QED BY <1>2, <1>3, <1>5, <2>1, <2>2, WakeSlots
  <1>7. next \subseteq Waiting BY <1>5 DEF FirstWaiting
  <1>8. TypeOK' BY <1>1, <1>5, <1>6 DEF Inductive, TypeOK, Places
  <1>9. Numbered' /\ NoOvercommit'
    BY <1>1, <1>5, <1>7 DEF Inductive, TypeOK, Numbered, NoOvercommit, Waiting
  <1>10. DoomedTold'
    BY <1>1, <1>5, <1>7 DEF Inductive, TypeOK, DoomedTold, Waiting
  <1> QED BY <1>6, <1>8, <1>9, <1>10 DEF Inductive, SlotsConserved

\* Steps of a task that leave its slot and its tokens as they are.
LEMMA MoveInductive ==
  ASSUME Inductive, NEW a \in Ids, NEW to \in {"queued", "aborted", "stopping"},
         pc' = [pc EXCEPT ![a] = to], kick' \in [Ids -> {"none", "timeout", "cancel"}],
         \A b \in Ids \ {a} : kick'[b] = kick[b],
         to = "queued" => pc[a] = "new" /\ Locked /\ kick' = kick,
         to = "aborted" => pc[a] = "new",
         to = "stopping" => pc[a] = "working",
         UNCHANGED <<tree, token, status, started, consumed, reserved, free, doomed>>
  PROVE  Inductive'
  <1>1. Holders' = Holders BY DEF Inductive, TypeOK, Holders
  <1>2. SlotsCounted' BY <1>1, HoldersAsBefore DEF Inductive, SlotsConserved
  <1>3. NoIdleSlot'
    <2>1. \A b \in Ids : pc[b] = "granted" => pc'[b] = "granted"
      BY DEF Inductive, TypeOK
    <2>2. to # "queued" => Waiting' \subseteq Waiting BY DEF Inductive, TypeOK, Waiting
    <2> QED BY <2>1, <2>2 DEF Inductive, TypeOK, SlotsConserved, NoIdleSlot, Locked
  <1>4. TypeOK' BY DEF Inductive, TypeOK, Places
  <1>5. Numbered' /\ NoOvercommit' BY DEF Inductive, TypeOK, Numbered, NoOvercommit
  <1>6. DoomedTold' BY DEF Inductive, TypeOK, DoomedTold
  <1> QED BY <1>2, <1>3, <1>4, <1>5, <1>6 DEF Inductive, SlotsConserved

\* A task that finds no slot and waits keeps the invariant.
LEMMA QueueInductive == ASSUME Inductive, NEW a \in Ids, Queue(a) PROVE Inductive'
  <1>1. kick' \in [Ids -> {"none", "timeout", "cancel"}] /\ kick' = kick
    BY DEF Queue, Inductive, TypeOK
  <1> QED BY <1>1, MoveInductive DEF Queue, First

\* A task cancelled before its first step keeps the invariant.
LEMMA AbortInductive == ASSUME Inductive, NEW a \in Ids, Abort(a) PROVE Inductive'
  <1>1. /\ kick' \in [Ids -> {"none", "timeout", "cancel"}]
        /\ \A b \in Ids \ {a} : kick'[b] = kick[b]
    BY DEF Abort, Inductive, TypeOK
  <1> QED BY <1>1, MoveInductive DEF Abort, First

\* A worker that takes an interruption and cleans up first keeps the invariant.
LEMMA StopInductive == ASSUME Inductive, NEW a \in Ids, Stop(a) PROVE Inductive'
  <1>1. /\ kick' \in [Ids -> {"none", "timeout", "cancel"}]
        /\ \A b \in Ids \ {a} : kick'[b] = kick[b]
    BY DEF Stop, Inductive, TypeOK
  <1> QED BY <1>1, MoveInductive DEF Stop

\* Steps that only interrupt.
LEMMA TellInductive ==
  ASSUME Inductive,
         kick' \in [Ids -> {"none", "timeout", "cancel"}], token' \in [Ids -> BOOLEAN],
         \A b \in Ids : kick[b] = "cancel" => kick'[b] = "cancel",
         \A b \in Ids : kick'[b] = "none" => kick[b] = "none",
         doomed' \subseteq Ids,
         \A b \in doomed' \ doomed :
           pc[b] # "none" /\ (pc[b] # "aborted" => kick'[b] = "cancel"),
         UNCHANGED <<tree, pc, status, started, consumed, reserved, free>>
  PROVE  Inductive'
  <1>1. Holders' = Holders BY DEF Holders
  <1>2. SlotsCounted' BY <1>1, HoldersAsBefore DEF Inductive, SlotsConserved
  <1>3. NoIdleSlot' BY DEF Inductive, SlotsConserved, NoIdleSlot, Waiting
  <1>4. TypeOK' BY DEF Inductive, TypeOK
  <1>5. Numbered' /\ NoOvercommit' BY DEF Inductive, Numbered, NoOvercommit
  <1>6. DoomedTold' BY DEF Inductive, TypeOK, DoomedTold
  <1> QED BY <1>2, <1>3, <1>4, <1>5, <1>6 DEF Inductive, SlotsConserved

\* A timer that fires keeps the invariant.
LEMMA TimeoutInductive == ASSUME Inductive, NEW a \in Ids, Timeout(a) PROVE Inductive'
  <1>1. /\ kick' \in [Ids -> {"none", "timeout", "cancel"}] /\ token' \in [Ids -> BOOLEAN]
        /\ \A b \in Ids : kick[b] = "cancel" => kick'[b] = "cancel"
        /\ \A b \in Ids : kick'[b] = "none" => kick[b] = "none"
        /\ doomed' \subseteq Ids /\ doomed' \ doomed = {}
    BY DEF Timeout, Inductive, TypeOK
  <1> QED BY <1>1, TellInductive DEF Timeout

\* cancel() of a subagent and its descendants keeps the invariant.
LEMMA CancelInductive == ASSUME Inductive, NEW root \in Ids, Cancel(root) PROVE Inductive'
  <1> DEFINE hit == Targets(root) \cap Unsettled
  <1>1. /\ token' = [b \in Ids |-> token[b] \/ b \in hit]
        /\ kick' = [b \in Ids |-> IF b \in hit /\ pc[b] # "aborted" THEN "cancel" ELSE kick[b]]
        /\ doomed' = doomed \cup {b \in Unsettled : root \in Line(b)}
        /\ UNCHANGED <<tree, pc, status, started, consumed, reserved, free>>
    BY DEF Cancel
  <1>2. \A b \in Unsettled : root \in Line(b) => b \in hit /\ b \in Ids /\ pc[b] # "none"
    BY DEF Targets, Unsettled
  <1> HIDE DEF hit
  <1>3. token' \in [Ids -> BOOLEAN] BY <1>1
  <1>4. /\ kick' \in [Ids -> {"none", "timeout", "cancel"}]
        /\ \A b \in Ids : kick[b] = "cancel" => kick'[b] = "cancel"
        /\ \A b \in Ids : kick'[b] = "none" => kick[b] = "none"
    BY <1>1 DEF Inductive, TypeOK
  <1>5. doomed' \subseteq Ids BY <1>1, <1>2 DEF Inductive, TypeOK
  <1>6. \A b \in doomed' \ doomed : pc[b] # "none" /\ (pc[b] # "aborted" => kick'[b] = "cancel")
    BY <1>1, <1>2
  <1> QED BY <1>1, <1>3, <1>4, <1>5, <1>6, TellInductive

\* The end of a task: those who come after it take the slots it leaves.
LEMMA SettleInductive ==
  ASSUME Inductive, NEW a \in Ids, NEW result \in Statuses \ {"none"}, NEW use \in Nat,
         a \notin Waiting, pc[a] \in {"queued", "granted", "working", "stopping"},
         result = "completed" => use <= tree[a].budget,
         NEW n \in Nat, n <= Slots(a, result), n = Slots(a, result) \/ n = 1,
         Settle(a, result, use, n)
  PROVE  Inductive'
  <1>1. PICK next \in FirstWaiting(n) :
          /\ pc' = [b \in Ids |-> IF b = a THEN "over" ELSE IF b \in next THEN "granted" ELSE pc[b]]
          /\ free' = Slots(a, result) - Cardinality(next)
    BY DEF Settle
  <1>2. /\ kick' = [kick EXCEPT ![a] = "none"]
        /\ token' = [token EXCEPT ![a] = @ \/ result \in {"timed_out", "cancelled"}]
        /\ status' = [status EXCEPT ![a] = result]
        /\ reserved' = reserved - tree[a].budget
        /\ consumed' = consumed + Charge(a, result, use)
        /\ UNCHANGED <<tree, started, doomed>>
    BY DEF Settle, Released
  <1>3. next \subseteq Waiting /\ Waiting \subseteq Ids
    BY <1>1 DEF Waiting, FirstWaiting
  <1>4. a \notin next BY <1>3
  <1>5. free' \in 0..MaxConcurrent /\ SlotsCounted' /\ NoIdleSlot'
    <2>1. free \in Nat /\ kick \in [Ids -> {"none", "timeout", "cancel"}]
      BY DEF Inductive, TypeOK
    <2>2. PICK slots \in Nat : slots = Slots(a, result) BY <2>1 DEF Slots
    <2>3. slots = free + (IF a \in Holders THEN 1 ELSE 0) - (IF "over" = "working" THEN 1 ELSE 0)
      BY <2>1, <2>2 DEF Slots, Leaves
    <2>4. \A b \in Ids \ {a} : kick'[b] = kick[b] BY <1>2, <2>1
    <2>5. n <= slots /\ (n = slots \/ n = 1) /\ free' = slots - Cardinality(next)
      BY <1>1, <2>2
    <2> QED BY <1>1, <2>3, <2>4, <2>5, WakeSlots
  <1>6. tree[a] \in Requests /\ tree[a].budget \in Nat
    <2>1. tree[a] \in Requests BY DEF Inductive, TypeOK
    <2> QED BY <2>1 DEF Requests
  <1>7. Charge(a, result, use) \in Nat /\ Charge(a, result, use) <= tree[a].budget
    BY <1>6 DEF Charge
  <1>8. NoOvercommit'
    <2>1. consumed \in Int /\ reserved \in Int /\ consumed + reserved <= MaxTokens
      BY DEF Inductive, TypeOK, NoOvercommit
    <2> QED BY <1>2, <1>6, <1>7, <2>1 DEF NoOvercommit
  <1>9. TypeOK'
    <2>1. consumed' \in Int /\ reserved' \in Int BY <1>2, <1>6, <1>7 DEF Inductive, TypeOK
    <2>2. pc' \in [Ids -> Places] BY <1>1 DEF Inductive, TypeOK, Places
    <2>3. kick' \in [Ids -> {"none", "timeout", "cancel"}] BY <1>2 DEF Inductive, TypeOK
    <2>4. token' \in [Ids -> BOOLEAN]
      <3>1. (token[a] \/ result \in {"timed_out", "cancelled"}) \in BOOLEAN OBVIOUS
      <3> QED BY <1>2, <3>1 DEF Inductive, TypeOK
    <2>5. status' \in [Ids -> Statuses] BY <1>2 DEF Inductive, TypeOK
    <2> QED BY <1>2, <1>5, <2>1, <2>2, <2>3, <2>4, <2>5 DEF Inductive, TypeOK
  <1>10. Numbered' BY <1>1, <1>2, <1>3 DEF Inductive, Numbered, Waiting
  <1>11. DoomedTold' BY <1>1, <1>2, <1>3, <1>4 DEF Inductive, TypeOK, DoomedTold, Waiting
  <1> QED BY <1>5, <1>8, <1>9, <1>10, <1>11 DEF Inductive, SlotsConserved

\* Leaving a slot with a result, whichever it is, keeps the invariant.
LEMMA LeaveInductive ==
  ASSUME Inductive, NEW a \in Ids, NEW result \in Statuses \ {"none"}, NEW use \in Nat,
         pc[a] \in {"working", "stopping"}, result = "completed" => use <= tree[a].budget,
         Leave(a, result, use)
  PROVE  Inductive'
  <1>1. a \notin Waiting /\ a \in Holders BY DEF Waiting, Holders
  <1>2. Settle(a, result, use, 1) BY <1>1 DEF Leave, Leaves
  <1>3. free \in Nat BY DEF Inductive, TypeOK
  <1>4. 1 <= Slots(a, result) BY <1>1, <1>3 DEF Slots, Leaves
  <1> QED BY <1>1, <1>2, <1>4, SettleInductive

\* A task that is cancelled in the semaphore, or whose worker is interrupted or fails.
LEMMA EndInductive ==
  ASSUME Inductive, NEW a \in Ids, Withdraw(a) \/ Interrupted(a) \/ Raise(a)
  PROVE  Inductive'
  <1>1. CASE Withdraw(a)
    <2>1. /\ pc[a] \in {"queued", "granted"} /\ kick[a] = "cancel" /\ a \notin Waiting
          /\ Settle(a, "cancelled", 0, Slots(a, "cancelled"))
      BY <1>1 DEF Withdraw, Waiting
    <2>2. Slots(a, "cancelled") \in Nat BY DEF Inductive, TypeOK, Slots
    <2>3. "cancelled" \in Statuses \ {"none"} /\ 0 \in Nat BY DEF Statuses
    <2> QED BY <2>1, <2>2, <2>3, SettleInductive
  <1>2. CASE Interrupted(a) \/ Raise(a)
    <2>1. /\ pc[a] \in {"working", "stopping"}
          /\ \E result \in {"failed", "timed_out", "cancelled"} : Leave(a, result, 0)
      BY <1>2 DEF Interrupted, Raise, Working, Free
    <2>2. PICK result \in {"failed", "timed_out", "cancelled"} : Leave(a, result, 0) BY <2>1
    <2>3. result \in Statuses \ {"none"} /\ result # "completed" /\ 0 \in Nat
      BY <2>2 DEF Statuses
    <2> QED BY <2>1, <2>2, <2>3, LeaveInductive
  <1> QED BY <1>1, <1>2

\* A worker that completes, within its budget or not, keeps the invariant.
LEMMA CompleteInductive ==
  ASSUME Inductive, NEW a \in Ids, NEW use \in 0..MaxUse, Complete(a, use)
  PROVE  Inductive'
  <1> DEFINE result == IF WithinBudget(a, use) THEN "completed" ELSE "failed"
  <1>1. pc[a] \in {"working", "stopping"} /\ Leave(a, result, use) BY DEF Complete, Free
  <1>2. result \in Statuses \ {"none"} /\ use \in Nat BY DEF Statuses
  <1>3. result = "completed" => use <= tree[a].budget BY DEF WithinBudget
  <1> HIDE DEF result
  <1> QED BY <1>1, <1>2, <1>3, LeaveInductive

\* Every step of the manager keeps the invariant.
LEMMA StepInductive == ASSUME Inductive, [Next]_vars PROVE Inductive'
  <1>1. CASE UNCHANGED vars
    <2>1. Holders' = Holders /\ Waiting' = Waiting BY <1>1 DEF vars, Holders, Waiting
    <2>2. SlotsConserved'
      BY <1>1, <2>1 DEF vars, Inductive, SlotsConserved, SlotsCounted, NoIdleSlot
    <2>3. TypeOK' /\ NoOvercommit' BY <1>1 DEF vars, Inductive, TypeOK, NoOvercommit
    <2>4. Numbered' /\ DoomedTold' BY <1>1 DEF vars, Inductive, Numbered, DoomedTold
    <2> QED BY <2>2, <2>3, <2>4 DEF Inductive
  <1>2. CASE \E parent \in Ids \cup {NoId}, s \in Sessions, b \in Budget : Spawn(parent, s, b)
    BY <1>2, SpawnInductive
  <1>3. CASE \E a \in Ids : Task(a) \/ Timeout(a) \/ Worker(a) \/ Cancel(a)
    <2>1. PICK a \in Ids : Task(a) \/ Timeout(a) \/ Worker(a) \/ Cancel(a) BY <1>3
    <2>2. CASE Task(a)
      BY <2>2, BeginInductive, QueueInductive, AbortInductive, EndInductive DEF Task
    <2>3. CASE Worker(a)
      BY <2>3, EndInductive, StopInductive, CompleteInductive DEF Worker
    <2> QED BY <2>1, <2>2, <2>3, TimeoutInductive, CancelInductive
  <1> QED BY <1>1, <1>2, <1>3 DEF Next

-----------------------------------------------------------------------------
(* Theorems.                                                                *)

\* The inductive invariant.
THEOREM SubagentInvariant == Spec => []Inductive
  BY InitInductive, StepInductive, PTL DEF Spec

\* Every state of the manager is well formed.
THEOREM SubagentTypes == Spec => []TypeOK
  <1>1. Inductive => TypeOK BY DEF Inductive
  <1> QED BY <1>1, SubagentInvariant, PTL

\* docs/design/agent-subagents.md:13, "preventing concurrent overcommit": charged and reserved
\* tokens never exceed the aggregate budget, however subagents end.
THEOREM BudgetHolds == Spec => []NoOvercommit
  <1>1. Inductive => NoOvercommit BY DEF Inductive
  <1> QED BY <1>1, SubagentInvariant, PTL

\* Every way out of _execute gives the slot back once, and nobody waits beside a free one unless
\* one that was given a slot is about to run and wakes the next.
THEOREM SlotsHold == Spec => []SlotsConserved
  <1>1. Inductive => SlotsConserved BY DEF Inductive
  <1> QED BY <1>1, SubagentInvariant, PTL

\* No step lets a doomed subagent begin, or end without having been told.
LEMMA StepReaches ==
  ASSUME Inductive, Next, NEW a \in doomed
  PROVE  /\ pc[a] \notin {"working", "stopping"} => pc'[a] \notin {"working", "stopping"}
         /\ pc[a] = "working" /\ pc'[a] = "over" => status'[a] = "cancelled"
  <1>1. /\ a \in Ids /\ pc[a] # "none" /\ pc \in [Ids -> Places] /\ status \in [Ids -> Statuses]
        /\ pc[a] \in {"new", "queued", "granted", "working"} => kick[a] = "cancel"
    BY DEF Inductive, TypeOK, DoomedTold
  <1>2. ASSUME NEW parent \in Ids \cup {NoId}, NEW s \in Sessions, NEW b \in Budget,
               Spawn(parent, s, b)
        PROVE  pc'[a] = pc[a] \/ pc'[a] = "new"
    BY <1>1, <1>2 DEF Spawn
  <1>3. ASSUME NEW b \in Ids, Begin(b) PROVE pc'[a] = pc[a] \/ (pc[a] = "queued" /\ pc'[a] = "granted")
    <2>1. pc[b] \in {"new", "granted"} /\ kick[b] = "none" BY <1>3 DEF Begin, First
    <2>2. a # b BY <1>1, <2>1
    <2>3. CASE pc' = [pc EXCEPT ![b] = "working"] BY <1>1, <2>2, <2>3
    <2>4. ASSUME NEW next \in FirstWaiting(free),
                 pc' = [c \in Ids |-> IF c = b THEN "working" ELSE IF c \in next THEN "granted"
                                     ELSE pc[c]]
          PROVE  pc'[a] = pc[a] \/ (pc[a] = "queued" /\ pc'[a] = "granted")
      <3>1. a \in next => pc[a] = "queued" BY DEF FirstWaiting, Waiting
      <3> QED BY <1>1, <2>2, <2>4, <3>1
    <2> QED BY <1>3, <2>3, <2>4 DEF Begin
  <1>4. ASSUME NEW b \in Ids, Queue(b) \/ Abort(b) \/ Stop(b) \/ Timeout(b) \/ Cancel(b)
        PROVE  \/ pc'[a] = pc[a] \/ pc'[a] \in {"queued", "aborted"}
               \/ pc[a] = "working" /\ pc'[a] = "stopping"
    <2>1. CASE Queue(b) BY <1>1, <2>1 DEF Queue
    <2>2. CASE Abort(b) BY <1>1, <2>2 DEF Abort
    <2>3. CASE Stop(b) BY <1>1, <2>3 DEF Stop
    <2>4. CASE Timeout(b) BY <2>4 DEF Timeout
    <2>5. CASE Cancel(b) BY <2>5 DEF Cancel
    <2> QED BY <1>4, <2>1, <2>2, <2>3, <2>4, <2>5
  <1>5. ASSUME NEW b \in Ids, NEW result, NEW use, NEW n, Settle(b, result, use, n)
        PROVE  \/ a # b /\ (pc'[a] = pc[a] \/ (pc[a] = "queued" /\ pc'[a] = "granted"))
               \/ a = b /\ pc'[a] = "over" /\ status'[a] = result
    <2>1. PICK next \in FirstWaiting(n) :
            pc' = [c \in Ids |-> IF c = b THEN "over" ELSE IF c \in next THEN "granted" ELSE pc[c]]
      BY <1>5 DEF Settle
    <2>2. status' = [status EXCEPT ![b] = result] BY <1>5 DEF Settle
    <2>3. \A c \in next : pc[c] = "queued" BY <2>1 DEF FirstWaiting, Waiting
    <2> QED BY <1>1, <2>1, <2>2, <2>3
  <1>6. ASSUME NEW b \in Ids, Withdraw(b) \/ Interrupted(b) \/ Raise(b)
                              \/ \E use \in 0..MaxUse : Complete(b, use)
        PROVE  \/ a # b /\ (pc'[a] = pc[a] \/ (pc[a] = "queued" /\ pc'[a] = "granted"))
               \/ a = b /\ pc'[a] = "over" /\ (pc[a] = "working" => status'[a] = "cancelled")
    <2>1. CASE Withdraw(b) BY <1>5, <2>1 DEF Withdraw
    <2>2. CASE Interrupted(b) BY <1>1, <1>5, <2>2 DEF Interrupted, Leave
    <2>3. ASSUME Free(b), a = b PROVE pc[a] # "working" BY <1>1, <2>3 DEF Free
    <2>4. CASE Raise(b) BY <1>5, <2>3, <2>4 DEF Raise, Leave
    <2>5. CASE \E use \in 0..MaxUse : Complete(b, use) BY <1>5, <2>3, <2>5 DEF Complete, Leave
    <2> QED BY <1>6, <2>1, <2>2, <2>4, <2>5
  <1>7. CASE \E parent \in Ids \cup {NoId}, s \in Sessions, b \in Budget : Spawn(parent, s, b)
    BY <1>2, <1>7
  <1>8. CASE \E b \in Ids : Task(b) \/ Timeout(b) \/ Worker(b) \/ Cancel(b)
    <2>1. PICK b \in Ids : Task(b) \/ Timeout(b) \/ Worker(b) \/ Cancel(b) BY <1>8
    <2>2. CASE Begin(b) BY <1>3, <2>2
    <2>3. CASE Queue(b) \/ Abort(b) \/ Stop(b) \/ Timeout(b) \/ Cancel(b) BY <1>4, <2>3
    <2>4. CASE Withdraw(b) \/ Interrupted(b) \/ Raise(b) \/ \E use \in 0..MaxUse : Complete(b, use)
      BY <1>6, <2>4
    <2> QED BY <2>1, <2>2, <2>3, <2>4 DEF Task, Worker
  <1> QED BY <1>7, <1>8 DEF Next

\* cancel() reaches every descendant there is: no queued one ever begins, and no worker under
\* way gets past it with another result before it has been told.
THEOREM CancellationReaches == Spec => CancelReaches
  <1>1. ASSUME Inductive, [Next]_vars
        PROVE  [\A a \in doomed :
                  /\ pc[a] \notin {"working", "stopping"} => pc'[a] \notin {"working", "stopping"}
                  /\ pc[a] = "working" /\ pc'[a] = "over" => status'[a] = "cancelled"]_vars
    BY <1>1, StepReaches
  <1> QED BY <1>1, SubagentInvariant, PTL DEF Spec, CancelReaches

-----------------------------------------------------------------------------
(* Tokens.                                                                  *)

\* What those without a result were granted, one by one.
Granted == [a \in Ids |-> IF a \in Unsettled THEN tree[a].budget ELSE 0]

\* Only a task that is over has a result.
ResultsAtTheEnd == \A a \in Ids : pc[a] # "over" => status[a] = "none"

Conserved == TokensConserved /\ ResultsAtTheEnd

\* Grants are numbers.
LEMMA GrantedType == Inductive => \A a \in Ids : Granted[a] \in Int
  <1> SUFFICES ASSUME Inductive, NEW a \in Ids PROVE Granted[a] \in Int
    OBVIOUS
  <1>1. tree[a] \in Requests BY DEF Inductive, TypeOK
  <1>2. tree[a].budget \in 0..MaxPerAgent BY <1>1 DEF Requests
  <1> QED BY <1>2 DEF Granted

\* A new manager has granted nothing.
LEMMA InitConserved == Init => Conserved
  <1> SUFFICES ASSUME Init PROVE Conserved
    OBVIOUS
  <1>1. \A a \in 1..MaxTotal : Granted[a] = 0 BY DEF Init, Granted, Unsettled, Ids
  <1>2. SumTo(Granted, MaxTotal) = 0 BY <1>1, SumOfNone
  <1> QED BY <1>2 DEF Init, Conserved, TokensConserved, ResultsAtTheEnd, Granted

\* Steps that neither grant nor settle.
LEMMA MoveConserves ==
  ASSUME Inductive, Inductive', Conserved, reserved' = reserved, status' = status, tree' = tree,
         \A a \in Ids : /\ (pc'[a] = "none") <=> (pc[a] = "none")
                        /\ (pc'[a] = "over") <=> (pc[a] = "over")
  PROVE  Conserved'
  <1>1. \A a \in Ids : a \in Unsettled' <=> a \in Unsettled BY DEF Unsettled
  <1>2. Granted' = Granted BY <1>1 DEF Granted
  <1>3. TokensConserved' BY <1>2 DEF Conserved, TokensConserved, Granted
  <1> QED BY <1>3 DEF Conserved, ResultsAtTheEnd

\* The sum of the grants changes by one of them.
LEMMA GrantChanges ==
  ASSUME Inductive, Inductive', NEW i \in Ids, \A a \in Ids \ {i} : Granted'[a] = Granted[a]
  PROVE  SumTo(Granted, MaxTotal)' = SumTo(Granted, MaxTotal) + Granted'[i] - Granted[i]
  <1>1. \A a \in 1..MaxTotal : Granted[a] \in Int BY GrantedType DEF Ids
  <1>2. \A a \in 1..MaxTotal : Granted'[a] \in Int
    <2>1. (Inductive => \A a \in Ids : Granted[a] \in Int)'
      BY GrantedType, PTL
    <2> QED BY <2>1 DEF Ids
  <1>3. PICK f : f = Granted' OBVIOUS
  <1>4. PICK g : g = Granted OBVIOUS
  <1>5. \A k \in 1..MaxTotal : g[k] \in Int /\ f[k] \in Int /\ (k # i => f[k] = g[k])
    BY <1>1, <1>2, <1>3, <1>4 DEF Ids
  <1>6. MaxTotal \in Nat /\ i \in 1..MaxTotal BY DEF Ids
  <1>7. SumTo(f, MaxTotal) = SumTo(g, MaxTotal) + f[i] - g[i]
    BY <1>5, <1>6, SumChanges
  <1> QED BY <1>3, <1>4, <1>7

\* spawn() reserves what it grants.
LEMMA SpawnConserves ==
  ASSUME Inductive, Inductive', Conserved,
         NEW parent \in Ids \cup {NoId}, NEW s \in Sessions, NEW b \in Budget,
         Spawn(parent, s, b)
  PROVE  Conserved'
  <1>1. PICK id : id = started + 1 OBVIOUS
  <1>2. /\ id \in Ids /\ b \in Int
    BY <1>1 DEF Inductive, TypeOK, Spawn, Ids, Budget
  <1>3. /\ pc' = [pc EXCEPT ![id] = "new"] /\ reserved' = reserved + b
        /\ status' = status /\ tree'[id].budget = b
        /\ \A a \in Ids \ {id} : tree'[a] = tree[a]
    BY <1>1, <1>2 DEF Spawn, Inductive, TypeOK
  <1>4. pc[id] = "none" /\ status[id] = "none"
    BY <1>1, <1>2 DEF Inductive, TypeOK, Numbered, Conserved, ResultsAtTheEnd
  <1>5. \A a \in Ids : pc'[a] = IF a = id THEN "new" ELSE pc[a]
    BY <1>2, <1>3 DEF Inductive, TypeOK
  <1>6. Granted[id] = 0 /\ Granted'[id] = b
    BY <1>2, <1>3, <1>4, <1>5 DEF Granted, Unsettled
  <1>7. \A a \in Ids \ {id} : Granted'[a] = Granted[a]
    BY <1>3, <1>5 DEF Granted, Unsettled
  <1>8. SumTo(Granted, MaxTotal)' = SumTo(Granted, MaxTotal) + b - 0
    BY <1>2, <1>6, <1>7, GrantChanges
  <1>9. TokensConserved'
    BY <1>2, <1>3, <1>8 DEF Conserved, TokensConserved, Granted, Inductive, TypeOK
  <1> QED BY <1>3, <1>4, <1>5, <1>9 DEF Conserved, ResultsAtTheEnd

\* Whatever its result, a task that settles gives back what it was granted.
LEMMA SettleConserves ==
  ASSUME Inductive, Inductive', Conserved, NEW a \in Ids, NEW result \in Statuses \ {"none"}, NEW use,
         NEW n, Settle(a, result, use, n), pc[a] \notin {"none", "over"}
  PROVE  Conserved'
  <1>0. PICK next \in FirstWaiting(n) :
          pc' = [b \in Ids |-> IF b = a THEN "over" ELSE IF b \in next THEN "granted" ELSE pc[b]]
    BY DEF Settle
  <1>1. /\ pc' = [b \in Ids |-> IF b = a THEN "over" ELSE IF b \in next THEN "granted" ELSE pc[b]]
        /\ status' = [status EXCEPT ![a] = result]
        /\ reserved' = reserved - tree[a].budget
        /\ tree' = tree
    BY <1>0 DEF Settle, Released
  <1>2. \A b \in next : pc[b] = "queued" BY <1>0 DEF FirstWaiting, Waiting
  <1>3. \A b \in Ids : b # a => /\ (pc'[b] = "none") <=> (pc[b] = "none")
                                /\ (pc'[b] = "over") <=> (pc[b] = "over")
                                /\ status'[b] = status[b]
    BY <1>1, <1>2 DEF Inductive, TypeOK
  <1>4. pc'[a] = "over" /\ status'[a] # "none" /\ status[a] = "none"
    BY <1>1 DEF Inductive, TypeOK, Conserved, ResultsAtTheEnd
  <1>5. tree[a].budget \in Int /\ reserved \in Int
    <2>1. tree[a] \in Requests /\ reserved \in Int BY DEF Inductive, TypeOK
    <2>2. tree[a].budget \in 0..MaxPerAgent BY <2>1 DEF Requests
    <2> QED BY <2>1, <2>2
  <1>6. Granted[a] = tree[a].budget /\ Granted'[a] = 0
    BY <1>4 DEF Granted, Unsettled
  <1>7. \A b \in Ids \ {a} : Granted'[b] = Granted[b]
    BY <1>1, <1>3 DEF Granted, Unsettled
  <1>8. SumTo(Granted, MaxTotal)' = SumTo(Granted, MaxTotal) + 0 - tree[a].budget
    BY <1>6, <1>7, GrantChanges
  <1>9. SumTo(Granted, MaxTotal) = reserved BY DEF Conserved, TokensConserved, Granted
  <1>10. SumTo(Granted, MaxTotal)' = reserved' BY <1>1, <1>5, <1>8, <1>9
  <1>11. TokensConserved' BY <1>10 DEF TokensConserved, Granted
  <1> QED BY <1>3, <1>4, <1>11 DEF Conserved, ResultsAtTheEnd

\* One step.
LEMMA StepConserves ==
  ASSUME Inductive, Inductive', Conserved, [Next]_vars PROVE Conserved'
  <1>1. CASE UNCHANGED vars
    <2>1. reserved' = reserved /\ status' = status /\ tree' = tree /\ pc' = pc BY <1>1 DEF vars
    <2> QED BY <2>1, MoveConserves
  <1>2. CASE \E parent \in Ids \cup {NoId}, s \in Sessions, b \in Budget : Spawn(parent, s, b)
    BY <1>2, SpawnConserves
  <1>3. ASSUME NEW a \in Ids, Task(a) \/ Timeout(a) \/ Worker(a) \/ Cancel(a) PROVE Conserved'
    <2>1. pc \in [Ids -> Places] BY DEF Inductive, TypeOK
    <2>2. CASE Begin(a) \/ Queue(a) \/ Abort(a) \/ Stop(a)
      <3>1. pc[a] \notin {"none", "over"} BY <2>2 DEF Begin, Queue, Abort, Stop, First
      <3>2. pc'[a] \notin {"none", "over"}
            /\ \A b \in Ids \ {a} : pc'[b] = pc[b] \/ (pc[b] = "queued" /\ pc'[b] = "granted")
        <4>1. CASE Queue(a) \/ Abort(a) \/ Stop(a) BY <2>1, <4>1 DEF Queue, Abort, Stop
        <4>2. CASE pc' = [pc EXCEPT ![a] = "working"] BY <2>1, <4>2
        <4>3. ASSUME NEW next \in FirstWaiting(free),
                     pc' = [b \in Ids |-> IF b = a THEN "working" ELSE IF b \in next THEN "granted"
                                         ELSE pc[b]]
              PROVE  pc'[a] = "working"
                     /\ \A b \in Ids \ {a} : pc'[b] = pc[b] \/ (pc[b] = "queued" /\ pc'[b] = "granted")
          <5>1. \A b \in next : pc[b] = "queued" BY DEF FirstWaiting, Waiting
          <5> QED BY <4>3, <5>1
        <4> QED BY <2>2, <4>1, <4>2, <4>3 DEF Begin
      <3>3. reserved' = reserved /\ status' = status /\ tree' = tree
        BY <2>2 DEF Begin, Queue, Abort, Stop
      <3>4. \A b \in Ids : (pc'[b] = "none" <=> pc[b] = "none") /\ (pc'[b] = "over" <=> pc[b] = "over")
        BY <3>1, <3>2
      <3> QED BY <3>3, <3>4, MoveConserves
    <2>3. CASE Timeout(a) \/ Cancel(a)
      <3>1. reserved' = reserved /\ status' = status /\ tree' = tree /\ pc' = pc
        BY <2>3 DEF Timeout, Cancel
      <3> QED BY <3>1, MoveConserves
    <2>4. CASE Withdraw(a)
      BY <2>4, SettleConserves DEF Withdraw, Statuses
    <2>5. CASE Interrupted(a)
      BY <2>5, SettleConserves DEF Interrupted, Leave, Working, Statuses
    <2>6. CASE Raise(a)
      <3>1. pc[a] \notin {"none", "over"} BY <2>6 DEF Raise, Free
      <3>2. PICK result \in {"failed", "timed_out", "cancelled"} : Leave(a, result, 0)
        BY <2>6 DEF Raise
      <3> QED BY <3>1, <3>2, SettleConserves DEF Leave, Statuses
    <2>7. CASE \E use \in 0..MaxUse : Complete(a, use)
      <3>1. PICK use \in 0..MaxUse : Complete(a, use) BY <2>7
      <3>2. pc[a] \notin {"none", "over"} BY <3>1 DEF Complete, Free
      <3>3. PICK result \in {"completed", "failed"} : Leave(a, result, use)
        BY <3>1 DEF Complete
      <3> QED BY <3>2, <3>3, SettleConserves DEF Leave, Statuses
    <2> QED BY <1>3, <2>2, <2>3, <2>4, <2>5, <2>6, <2>7 DEF Task, Worker
  <1> QED BY <1>1, <1>2, <1>3 DEF Next

\* Whatever way a task ends (_execute() and _finalize() of subagents.py), what is reserved is
\* what those without a result were granted.
THEOREM TokensAreConserved == Spec => []TokensConserved
  <1>1. Inductive /\ Inductive' /\ Conserved /\ [Next]_vars => Conserved'
    BY StepConserves
  <1>2. Conserved => TokensConserved BY DEF Conserved
  <1> QED BY InitConserved, <1>1, <1>2, SubagentInvariant, PTL DEF Spec
=============================================================================
