------------------------------ MODULE Sandbox ------------------------------
(***************************************************************************)
(* The job service of zeaz-sandbox: SandboxService.execute, cancel and     *)
(* reconcile, the SQLite store behind them, and the Docker backend and     *)
(* egress controller they drive, one action per stretch of code between    *)
(* two awaits.  A call is one invocation of execute(); its container and   *)
(* its proxy are identified by the call, because the runtime gives every   *)
(* container it creates a fresh id, while names (and networks) are derived *)
(* from the job id and are therefore shared by all calls for one job.      *)
(*                                                                         *)
(* A runtime command is a child process: when the coroutine awaiting it is *)
(* cancelled, or the service crashes, the command is not killed and may    *)
(* still take effect later (abandoned, LateEffect).                        *)
(***************************************************************************)
EXTENDS Integers, FiniteSets

CONSTANTS
  Jobs,          \* job ids
  AllowListed,   \* the jobs whose policy asks for allow-listed egress
  Calls,         \* invocations of SandboxService.execute
  Approvals,     \* whether an approval presented may be current: subset of BOOLEAN
  MaxCrashes,    \* bound: process crashes
  MaxFaults,     \* bound: runtime commands that fail
  LateFaults,    \* whether a command that fails may have taken effect
  TaskCancels,   \* whether callers may cancel the task awaiting execute()
  NoCall, NoJob, NoId, NoReceipt, NoEntry

ASSUME SandboxAssumption ==
  /\ AllowListed \subseteq Jobs
  /\ Approvals \subseteq BOOLEAN
  /\ MaxCrashes \in Nat /\ MaxFaults \in Nat
  /\ LateFaults \in BOOLEAN /\ TaskCancels \in BOOLEAN
  /\ NoCall \notin Calls /\ NoJob \notin Jobs

VARIABLES
  receipts,    \* durable: receipts table, job -> receipt or NoReceipt
  journal,     \* durable: active_executions table, job -> lease or NoEntry
  containers,  \* runtime: <<kind, call>> of every container carrying the job label
  networks,    \* runtime: jobs whose internal network exists
  abandoned,   \* runtime: commands whose caller is gone
  owner,       \* volatile: _cancel_events, job -> the call that registered it
  cancelSet,   \* volatile: calls whose cancel event is set
  call,        \* volatile: the frame of each execute() call
  rec,         \* volatile: the frame of reconcile()
  ready,       \* volatile: _ready
  crashes, faults

store   == <<receipts, journal>>
runtime == <<containers, networks>>
vars == <<receipts, journal, containers, networks, abandoned, owner, cancelSet,
          call, rec, ready, crashes, faults>>

-----------------------------------------------------------------------------
Kinds == {"job", "proxy"}
Ids   == Kinds \X Calls

States   == {"rejected", "completed", "failed", "cancelled"}
Outcomes == {"completed", "failed", "cancelled"}
Receipt  == {r \in [by : Calls, state : States, clean : BOOLEAN] :
               r.state = "completed" => r.clean}
Lease    == [by : Calls, container : BOOLEAN]

Preparing == {"net", "proxy", "link", "undo_proxy", "undo_net"}
Trying    == Preparing \cup {"create", "verify", "undo_create", "run"}
Cleaning  == {"rm", "rm_proxy", "rm_net"}
Over      == {"returned", "refused", "raised", "escaped", "dead"}
CallPcs   == {"idle"} \cup Trying \cup Cleaning \cup Over

Frame == [job : Jobs \cup {NoJob}, pc : CallPcs, outcome : Outcomes, clean : BOOLEAN]

RecPcs == {"idle", "listing", "rm", "rm_proxy", "rm_net", "orphan"}
RecFrame == [pc : RecPcs, managed : SUBSET Ids, lease : [Jobs -> Lease \cup {NoEntry}],
             jobs : SUBSET Jobs, orphans : SUBSET Ids,
             job : Jobs \cup {NoJob}, id : Ids \cup {NoId}, clean : BOOLEAN]

Commands ==
  {cmd \in [op : {"net_create", "net_rm", "create", "rm"}, id : Ids \cup {NoId},
            job : Jobs \cup {NoJob}] :
     /\ cmd.op = "create" => cmd.id \in Ids
     /\ cmd.op = "net_create" => cmd.job \in Jobs}

JobOf(c)  == call[c].job
Active(c) == call[c].pc \in Trying \cup Cleaning

ASSUME SentinelAssumption ==
  NoReceipt \notin Receipt /\ NoEntry \notin Lease /\ NoId \notin Ids

TypeOK ==
  /\ receipts \in [Jobs -> Receipt \cup {NoReceipt}]
  /\ journal \in [Jobs -> Lease \cup {NoEntry}]
  /\ containers \subseteq Ids /\ networks \subseteq Jobs
  /\ abandoned \subseteq Commands
  /\ owner \in [Jobs -> Calls \cup {NoCall}]
  /\ cancelSet \subseteq Calls
  /\ call \in [Calls -> Frame]
  /\ rec \in RecFrame
  /\ ready \in BOOLEAN /\ crashes \in 0..MaxCrashes /\ faults \in 0..MaxFaults

IdleRec == [pc |-> "idle", managed |-> {}, lease |-> [j \in Jobs |-> NoEntry],
            jobs |-> {}, orphans |-> {}, job |-> NoJob, id |-> NoId, clean |-> TRUE]

Init ==
  /\ receipts = [j \in Jobs |-> NoReceipt] /\ journal = [j \in Jobs |-> NoEntry]
  /\ containers = {} /\ networks = {} /\ abandoned = {}
  /\ owner = [j \in Jobs |-> NoCall] /\ cancelSet = {}
  /\ call = [c \in Calls |-> [job |-> NoJob, pc |-> "idle", outcome |-> "failed",
                              clean |-> TRUE]]
  /\ rec = IdleRec
  /\ ready = FALSE /\ crashes = 0 /\ faults = 0

-----------------------------------------------------------------------------
(* The container runtime.  Names are unique: a second container of one kind *)
(* for a job, or a second network, is refused.  rm --force of a container   *)
(* that is gone succeeds; network rm fails if the network is gone or the    *)
(* proxy is still attached to it.                                           *)

NameTaken(kind, j) == \E id \in containers : id[1] = kind /\ JobOf(id[2]) = j

Accepts(cmd) ==
  CASE cmd.op = "net_create" -> cmd.job \notin networks
    [] cmd.op = "net_rm"     -> cmd.job \in networks /\ ~NameTaken("proxy", cmd.job)
    [] cmd.op = "create"     -> ~NameTaken(cmd.id[1], cmd.job)
    [] cmd.op = "rm"         -> TRUE

Effect(cmd) ==
  /\ networks' = CASE cmd.op = "net_create" -> networks \cup {cmd.job}
                   [] cmd.op = "net_rm"     -> networks \ {cmd.job}
                   [] OTHER                 -> networks
  /\ containers' = CASE cmd.op = "create" -> containers \cup {cmd.id}
                     [] cmd.op = "rm"     -> containers \ {cmd.id}
                     [] OTHER             -> containers

Succeeds(cmd) == Accepts(cmd) /\ Effect(cmd) /\ UNCHANGED faults

\* A refused command, a fault without effect, or a fault after the effect.
Fails(cmd) ==
  \/ ~Accepts(cmd) /\ UNCHANGED <<containers, networks, faults>>
  \/ /\ faults < MaxFaults /\ faults' = faults + 1
     /\ \/ UNCHANGED runtime
        \/ LateFaults /\ Accepts(cmd) /\ Effect(cmd)

NetCreate(j)     == [op |-> "net_create", id |-> NoId, job |-> j]
NetRm(j)         == [op |-> "net_rm", id |-> NoId, job |-> j]
Create(kind, c)  == [op |-> "create", id |-> <<kind, c>>, job |-> JobOf(c)]
RmId(id, j)      == [op |-> "rm", id |-> id, job |-> j]
Rm(kind, c)      == RmId(<<kind, c>>, JobOf(c))

\* The command a call is awaiting at each of its suspension points.
InFlight(c) ==
  LET pc == call[c].pc IN
    CASE pc = "net"                          -> {NetCreate(JobOf(c))}
      [] pc = "proxy"                        -> {Create("proxy", c)}
      [] pc \in {"undo_proxy", "rm_proxy"}   -> {Rm("proxy", c)}
      [] pc \in {"undo_net", "rm_net"}       -> {NetRm(JobOf(c))}
      [] pc = "create"                       -> {Create("job", c)}
      [] pc \in {"undo_create", "rm"}        -> {Rm("job", c)}
      [] OTHER                               -> {}

RecInFlight ==
  CASE rec.pc \in {"rm", "rm_proxy", "orphan"} -> {RmId(rec.id, rec.job)}
    [] rec.pc = "rm_net"                       -> {NetRm(rec.job)}
    [] OTHER                                   -> {}

LateEffect ==
  \E cmd \in abandoned :
    /\ abandoned' = abandoned \ {cmd}
    /\ IF Accepts(cmd) THEN Effect(cmd) ELSE UNCHANGED runtime
    /\ UNCHANGED <<store, owner, cancelSet, call, rec, ready, crashes, faults>>

-----------------------------------------------------------------------------
(* SQLiteSandboxStore.                                                      *)

\* Mutation: the second write forgets the container id.
RecordActiveWithoutId(c, hasContainer) ==
  journal' = [journal EXCEPT ![JobOf(c)] = [by |-> c, container |-> FALSE]]

RecordActive(c, hasContainer) ==
  journal' = [journal EXCEPT ![JobOf(c)] = [by |-> c, container |-> hasContainer]]

\* INSERT of the receipt and, when cleanup is complete, DELETE of the lease,
\* in one transaction; the insert of a second receipt aborts it.
Finalize(c, j, state, clean) ==
  IF receipts[j] = NoReceipt
    THEN /\ receipts' = [receipts EXCEPT ![j] = [by |-> c, state |-> state, clean |-> clean]]
         /\ journal' = IF clean THEN [journal EXCEPT ![j] = NoEntry] ELSE journal
    ELSE UNCHANGED store

-----------------------------------------------------------------------------
(* SandboxService.execute.                                                  *)

Put(c, pc, outcome, clean) ==
  call' = [call EXCEPT ![c] = [job |-> JobOf(c), pc |-> pc, outcome |-> outcome, clean |-> clean]]

Goto(c, pc) == Put(c, pc, call[c].outcome, call[c].clean)

Verdict(outcome, clean) == IF outcome = "completed" /\ ~clean THEN "failed" ELSE outcome

\* Mutation: the cancel event is popped only when finalize succeeds.
SettleWithoutFinally(c, outcome, clean) ==
  LET j == JobOf(c) IN
    /\ Finalize(c, j, Verdict(outcome, clean), clean)
    /\ Put(c, IF receipts[j] = NoReceipt THEN "returned" ELSE "raised", outcome, clean)
    /\ owner' = IF receipts[j] = NoReceipt THEN [owner EXCEPT ![j] = NoCall] ELSE owner

\* The end of execute(): map the outcome, finalize, and forget the cancel event
\* whether or not finalize raised.
Settle(c, outcome, clean) ==
  LET j == JobOf(c) IN
    /\ Finalize(c, j, Verdict(outcome, clean), clean)
    /\ Put(c, IF receipts[j] = NoReceipt THEN "returned" ELSE "raised", outcome, clean)
    /\ owner' = [owner EXCEPT ![j] = NoCall]

\* Leaving the try block for the first cleanup step that has anything to await.
Unwind(c, outcome, hasContainer, attached) ==
  \/ /\ hasContainer
     /\ Put(c, "rm", outcome, call[c].clean)
     /\ UNCHANGED <<store, owner>>
  \/ /\ ~hasContainer /\ attached /\ JobOf(c) \in AllowListed
     /\ Put(c, "rm_proxy", outcome, call[c].clean)
     /\ UNCHANGED <<store, owner>>
  \/ /\ ~hasContainer /\ ~(attached /\ JobOf(c) \in AllowListed)
     /\ Settle(c, outcome, TRUE)

Start ==
  /\ ~ready /\ ready' = TRUE
  /\ UNCHANGED <<store, runtime, abandoned, owner, cancelSet, call, rec, crashes, faults>>

Enter(c, j, pc) ==
  call' = [call EXCEPT ![c] = [job |-> j, pc |-> pc, outcome |-> "failed", clean |-> TRUE]]

\* An approval that is not current is receipted before the duplicate check.
SubmitRejected(c, j) ==
  /\ ready /\ call[c].pc = "idle" /\ FALSE \in Approvals
  /\ Finalize(c, j, "rejected", TRUE)
  /\ Enter(c, j, IF receipts[j] = NoReceipt THEN "returned" ELSE "raised")
  /\ UNCHANGED <<runtime, abandoned, owner, cancelSet, rec, ready, crashes, faults>>

\* Mutation: only receipts are consulted.
AdmissibleIfUnreceipted(j) == receipts[j] = NoReceipt

\* Mutation: only live jobs are consulted.
AdmissibleIfNotLive(j) == owner[j] = NoCall

Admissible(j) == owner[j] = NoCall /\ receipts[j] = NoReceipt

SubmitDuplicate(c, j) ==
  /\ ready /\ call[c].pc = "idle" /\ TRUE \in Approvals
  /\ ~Admissible(j)
  /\ Enter(c, j, "refused")
  /\ UNCHANGED <<store, runtime, abandoned, owner, cancelSet, rec, ready, crashes, faults>>

\* Without egress prepare_network does not suspend: the lease is journaled at once.
Submit(c, j) ==
  /\ ready /\ call[c].pc = "idle" /\ TRUE \in Approvals
  /\ Admissible(j)
  /\ owner' = [owner EXCEPT ![j] = c]
  /\ Enter(c, j, IF j \in AllowListed THEN "net" ELSE "create")
  /\ journal' = IF j \in AllowListed THEN journal
                ELSE [journal EXCEPT ![j] = [by |-> c, container |-> FALSE]]
  /\ UNCHANGED <<receipts, runtime, abandoned, cancelSet, rec, ready, crashes, faults>>

callFrame == <<abandoned, cancelSet, rec, ready, crashes>>

\* DockerProxyEgressController.prepare, with its rollback.
PrepareNetwork(c) ==
  /\ \/ /\ call[c].pc = "net"
        /\ \/ Succeeds(NetCreate(JobOf(c))) /\ Goto(c, "proxy")
           \/ Fails(NetCreate(JobOf(c))) /\ Goto(c, "undo_net")
        /\ UNCHANGED <<store, owner>>
     \/ /\ call[c].pc = "proxy"
        /\ \/ Succeeds(Create("proxy", c)) /\ Goto(c, "link")
           \/ Fails(Create("proxy", c)) /\ Goto(c, "undo_net")
        /\ UNCHANGED <<store, owner>>
     \/ /\ call[c].pc = "link"
        /\ UNCHANGED <<runtime, receipts, owner>>
        /\ \/ Goto(c, "create") /\ RecordActive(c, FALSE) /\ UNCHANGED faults
           \/ /\ faults < MaxFaults /\ faults' = faults + 1
              /\ Goto(c, "undo_proxy") /\ UNCHANGED journal
     \/ /\ call[c].pc = "undo_proxy"
        /\ Succeeds(Rm("proxy", c)) \/ Fails(Rm("proxy", c))
        /\ Goto(c, "undo_net") /\ UNCHANGED <<store, owner>>
     \/ /\ call[c].pc = "undo_net"
        /\ Succeeds(NetRm(JobOf(c))) \/ Fails(NetRm(JobOf(c)))
        /\ Unwind(c, "failed", FALSE, FALSE)
  /\ UNCHANGED callFrame

\* RootlessDockerBackend.create: the container exists before its isolation is
\* verified, and the caller learns its id only after that.
CreateContainer(c) ==
  /\ \/ /\ call[c].pc = "create"
        /\ \/ /\ Succeeds(Create("job", c)) /\ Goto(c, "verify")
              /\ UNCHANGED <<store, owner>>
           \/ /\ Fails(Create("job", c)) /\ Unwind(c, "failed", FALSE, TRUE)
     \/ /\ call[c].pc = "verify"
        /\ UNCHANGED <<runtime, receipts, owner>>
        /\ \/ Goto(c, "run") /\ RecordActive(c, TRUE) /\ UNCHANGED faults
           \/ /\ faults < MaxFaults /\ faults' = faults + 1
              /\ Goto(c, "undo_create") /\ UNCHANGED journal
     \/ /\ call[c].pc = "undo_create"
        /\ Succeeds(Rm("job", c)) \/ Fails(Rm("job", c))
        /\ Unwind(c, "failed", FALSE, TRUE)
  /\ UNCHANGED callFrame

\* backend.execute returns: exit code zero, any other stop reason, or cancelled
\* once the event is set.
Run(c) ==
  /\ call[c].pc = "run"
  /\ \E outcome \in Outcomes :
       /\ outcome = "cancelled" => c \in cancelSet
       /\ Unwind(c, outcome, TRUE, TRUE)
  /\ UNCHANGED <<runtime, faults, callFrame>>

\* Mutation: the last step's result overwrites the verdict.
TallyLast(clean, ok) == ok

Tally(clean, ok) == clean /\ ok

\* The finally block: remove, then cleanup_network (proxy, then network).
\* Network rm runs whatever became of the proxy; only the verdict remembers.
CleanupContainer(c) ==
  /\ call[c].pc = "rm"
  /\ \E ok \in BOOLEAN :
       /\ IF ok THEN Succeeds(Rm("job", c)) ELSE Fails(Rm("job", c))
       /\ \/ /\ JobOf(c) \in AllowListed
             /\ Put(c, "rm_proxy", call[c].outcome, ok)
             /\ UNCHANGED <<store, owner>>
          \/ JobOf(c) \notin AllowListed /\ Settle(c, call[c].outcome, ok)
  /\ UNCHANGED callFrame

CleanupNetwork(c) ==
  /\ \/ /\ call[c].pc = "rm_proxy"
        /\ \E ok \in BOOLEAN :
             /\ IF ok THEN Succeeds(Rm("proxy", c))
                      ELSE Fails(Rm("proxy", c))
             /\ Put(c, "rm_net", call[c].outcome, Tally(call[c].clean, ok))
        /\ UNCHANGED <<store, owner>>
     \/ /\ call[c].pc = "rm_net"
        /\ \E ok \in BOOLEAN :
             /\ IF ok THEN Succeeds(NetRm(JobOf(c))) ELSE Fails(NetRm(JobOf(c)))
             /\ Settle(c, call[c].outcome, Tally(call[c].clean, ok))
  /\ UNCHANGED callFrame

\* SandboxService.cancel.
Cancel(j) ==
  /\ owner[j] # NoCall /\ owner[j] \notin cancelSet
  /\ cancelSet' = cancelSet \cup {owner[j]}
  /\ UNCHANGED <<store, runtime, abandoned, owner, call, rec, ready, crashes, faults>>

\* The task awaiting execute() is cancelled: inside the try block the error is
\* caught once; inside the finally block it escapes, past finalize and the pop.
Attached(c) == call[c].pc \in {"create", "verify", "undo_create", "run"}

CancelTask(c) ==
  /\ TaskCancels /\ Active(c)
  /\ abandoned' = abandoned \cup InFlight(c)
  /\ \/ /\ call[c].pc \in Trying
        /\ Unwind(c, "cancelled", call[c].pc = "run", Attached(c))
     \/ /\ call[c].pc \in Cleaning
        /\ Goto(c, "escaped") /\ UNCHANGED <<store, owner>>
  /\ UNCHANGED <<runtime, cancelSet, rec, ready, crashes, faults>>

-----------------------------------------------------------------------------
(* SandboxService.reconcile: one pass at a time, over what docker ps        *)
(* answered and over the journal and the live jobs as they were read after. *)

recRest == <<receipts, abandoned, owner, cancelSet, call, ready, crashes>>

ReconcileList ==
  /\ ready /\ rec.pc = "idle"
  /\ rec' = [rec EXCEPT !.pc = "listing", !.managed = containers]
  /\ UNCHANGED <<recRest, journal, runtime, faults>>

Listed(r, j) == r.lease[j].container /\ <<"job", r.lease[j].by>> \in r.managed
NeedsAwait(r, j) == Listed(r, j) \/ j \in AllowListed

BeginEntry(r, j) ==
  LET by == r.lease[j].by IN
    IF Listed(r, j)
      THEN [r EXCEPT !.pc = "rm", !.job = j, !.id = <<"job", by>>]
      ELSE [r EXCEPT !.pc = "rm_proxy", !.job = j, !.id = <<"proxy", by>>]

Clear(rows, done) == [j \in Jobs |-> IF j \in done THEN NoEntry ELSE rows[j]]

\* From one await to the next: entries that need none are cleared on the way
\* (clear_active is by job id, whatever lease the row holds by then); when the
\* entries are done come the labelled containers no lease named.
Advance(r, rows) ==
  \E now \in SUBSET {j \in r.jobs : ~NeedsAwait(r, j)} :
    LET left == r.jobs \ now IN
      /\ journal' = Clear(rows, now)
      /\ \/ \E j \in left :
              NeedsAwait(r, j) /\ rec' = BeginEntry([r EXCEPT !.jobs = left \ {j}], j)
         \/ /\ left = {}
            /\ \/ \E id \in r.orphans :
                    rec' = [r EXCEPT !.pc = "orphan", !.jobs = {}, !.id = id,
                              !.job = JobOf(id[2]), !.orphans = @ \ {id}]
               \/ r.orphans = {} /\ rec' = IdleRec

ReconcileSnapshot ==
  /\ rec.pc = "listing"
  /\ LET journaled == {j \in Jobs : journal[j] # NoEntry}
         known == {<<"job", journal[j].by>> : j \in {k \in journaled : journal[k].container}} IN
       Advance([rec EXCEPT !.lease = journal, !.orphans = rec.managed \ known,
                           !.jobs = {j \in journaled : owner[j] = NoCall}], journal)
  /\ UNCHANGED <<recRest, runtime, faults>>

Cleared == Clear(journal, {rec.job})

ReconcileRemove ==
  /\ rec.pc = "rm"
  /\ LET proxy == [rec EXCEPT !.pc = "rm_proxy", !.id = <<"proxy", @[2]>>] IN
       \/ /\ Succeeds(RmId(rec.id, rec.job))
          /\ \/ rec.job \in AllowListed /\ rec' = proxy /\ UNCHANGED journal
             \/ rec.job \notin AllowListed /\ Advance(rec, Cleared)
       \/ Fails(RmId(rec.id, rec.job)) /\ Advance(rec, journal)
  /\ UNCHANGED recRest

\* cleanup_network runs both commands and fails if either did.
ReconcileNetwork ==
  /\ \/ /\ rec.pc = "rm_proxy"
        /\ \E ok \in BOOLEAN :
             /\ IF ok THEN Succeeds(RmId(rec.id, rec.job)) ELSE Fails(RmId(rec.id, rec.job))
             /\ rec' = [rec EXCEPT !.pc = "rm_net", !.clean = ok]
        /\ UNCHANGED journal
     \/ /\ rec.pc = "rm_net"
        /\ \/ Succeeds(NetRm(rec.job)) /\ Advance(rec, IF rec.clean THEN Cleared ELSE journal)
           \/ Fails(NetRm(rec.job)) /\ Advance(rec, journal)
  /\ UNCHANGED recRest

ReconcileOrphan ==
  /\ rec.pc = "orphan"
  /\ Succeeds(RmId(rec.id, rec.job)) \/ Fails(RmId(rec.id, rec.job))
  /\ Advance(rec, journal)
  /\ UNCHANGED recRest

Reconcile ==
  ReconcileList \/ ReconcileSnapshot \/ ReconcileRemove \/ ReconcileNetwork \/ ReconcileOrphan

-----------------------------------------------------------------------------
\* The process dies: everything volatile is lost, commands in flight are not.
Crash ==
  /\ ready /\ crashes < MaxCrashes /\ crashes' = crashes + 1
  /\ ready' = FALSE
  /\ owner' = [j \in Jobs |-> NoCall] /\ cancelSet' = {}
  /\ call' = [c \in Calls |-> IF Active(c) THEN [call[c] EXCEPT !.pc = "dead"] ELSE call[c]]
  /\ rec' = IdleRec
  /\ abandoned' = abandoned \cup RecInFlight \cup UNION {InFlight(c) : c \in Calls}
  /\ UNCHANGED <<store, runtime, faults>>

Work(c) == PrepareNetwork(c) \/ CreateContainer(c) \/ Run(c) \/ CleanupContainer(c)
             \/ CleanupNetwork(c)

Next ==
  \/ Start
  \/ \E c \in Calls, j \in Jobs :
       SubmitRejected(c, j) \/ SubmitDuplicate(c, j) \/ Submit(c, j)
  \/ \E c \in Calls : Work(c)
  \/ \E c \in Calls : CancelTask(c)
  \/ \E j \in Jobs : Cancel(j)
  \/ Reconcile
  \/ LateEffect
  \/ Crash

Spec == Init /\ [][Next]_vars

\* Every runtime command has a deadline, so a call and a reconcile pass always
\* come to their next step; the operator keeps scheduling reconcile.
Fairness == WF_vars(Start) /\ (\A c \in Calls : WF_vars(Work(c))) /\ WF_vars(Reconcile)

FairSpec == Spec /\ Fairness

-----------------------------------------------------------------------------
(* Properties.                                                              *)

\* What the store promises (JobLedger): a job is decided once, and never begun
\* again after that, whatever order calls, rejections and crashes come in.
Ledger == INSTANCE JobLedger WITH
  running <- {j \in Jobs : owner[j] # NoCall}, receipt <- receipts
LedgerSpec == Ledger!Spec

\* At any time at most one call is working on a job: execute() refuses a job
\* that is live or receipted, and nothing but the end of the call or of the
\* process makes a live job admissible again.
OneRunPerJob ==
  \A c, d \in Calls : Active(c) /\ Active(d) /\ JobOf(c) = JobOf(d) => c = d

\* A receipt is never replaced or withdrawn, whichever of a run, a rejected
\* resubmission or a reconcile pass comes later (SQLiteSandboxStore.finalize).
ReceiptsAreFinal ==
  [][\A j \in Jobs : receipts[j] # NoReceipt => receipts'[j] = receipts[j]]_vars

\* A COMPLETED receipt means the run's container and proxy are gone and will
\* never come back: no command that could still create them is pending.
CompletedLeavesNothing ==
  \A j \in Jobs, kind \in Kinds :
    receipts[j] # NoReceipt /\ receipts[j].state = "completed" =>
      LET id == <<kind, receipts[j].by>> IN
        /\ id \notin containers
        /\ \A cmd \in abandoned : cmd.op = "create" => cmd.id # id

\* Why a completed receipt can be trusted.  A live call owns its job; a command
\* abandoned by a call belongs to one that died or was cancelled; a completed
\* clean-up has removed what it passed; only allow-listed jobs have proxies.
Owned ==
  \A c \in Calls :
    /\ call[c].pc = "idle" <=> JobOf(c) = NoJob
    /\ Active(c) => owner[JobOf(c)] = c
    /\ call[c].pc \in {"idle"} \cup Trying => call[c].outcome = "failed"

OrphanedCommands ==
  \A cmd \in abandoned : cmd.op = "create" =>
    /\ cmd.id \in Ids
    /\ \/ call[cmd.id[2]].pc = "dead"
       \/ call[cmd.id[2]].outcome = "cancelled" /\ call[cmd.id[2]].pc \in Cleaning \cup Over
    /\ cmd.id[1] = "proxy" => JobOf(cmd.id[2]) \in AllowListed

RemovedSoFar ==
  \A c \in Calls : call[c].outcome = "completed" /\ call[c].clean =>
    /\ call[c].pc \in {"rm_proxy", "rm_net", "returned"} => <<"job", c>> \notin containers
    /\ call[c].pc \in {"rm_net", "returned"} => <<"proxy", c>> \notin containers

ProxiesAllowListed ==
  \A c \in Calls : JobOf(c) \notin AllowListed =>
    /\ <<"proxy", c>> \notin containers
    /\ call[c].pc \notin Preparing \cup {"rm_proxy", "rm_net"}

CompletedReceipts ==
  \A j \in Jobs : receipts[j] # NoReceipt /\ receipts[j].state = "completed" =>
    LET frame == call[receipts[j].by] IN
      frame.pc = "returned" /\ frame.outcome = "completed" /\ frame.clean

\* What reconcile holds on to: entries that had a lease, ids the runtime listed.
ReconcileEntries ==
  /\ \A j \in rec.jobs : rec.lease[j] # NoEntry
  /\ rec.pc \in {"rm", "rm_proxy", "orphan"} => rec.id \in Ids

Inductive ==
  /\ TypeOK /\ Owned /\ OrphanedCommands /\ RemovedSoFar /\ ProxiesAllowListed
  /\ CompletedReceipts /\ ReconcileEntries

\* From the moment its network is ready until it is receipted, a call's lease is
\* in the journal, with the container id once the call knows it: neither another
\* call nor a reconcile pass takes it away (unless the process has crashed, or a
\* call with an expired approval has taken the job's receipt; see the findings).
\* And a network whose cleanup a receipt reports as incomplete stays journaled for
\* as long as it exists: reconcile, which cannot list networks, can find it.
LeaseHeld ==
  /\ \A c \in Calls :
       /\ Attached(c) \/ (call[c].pc \in Cleaning)
       /\ crashes = 0 /\ receipts[JobOf(c)] = NoReceipt
       => LET row == journal[JobOf(c)] IN
            /\ row # NoEntry /\ row.by = c
            /\ call[c].pc \in {"run", "rm"} => row.container
  /\ \A j \in networks :
       crashes = 0 /\ receipts[j] # NoReceipt /\ ~receipts[j].clean => journal[j] # NoEntry

\* A live job eventually stops being live, also when its receipt could not be
\* inserted because a rejected resubmission was receipted first, and when the task
\* awaiting execute() is cancelled; unless that cancellation comes in the finally
\* block: it escapes past the pop of the cancel event, and the job stays live until
\* the process ends (a divergence of README section 5).  And the lease of a job that
\* is not live is eventually released by reconcile, or its job is submitted again.
\* The latter holds of jobs without egress, whose cleanup can be repeated; not of
\* allow-listed ones, because network rm of a network that is gone fails for ever
\* (runtime commands otherwise fail finitely often).
Escaped(j) == owner[j] # NoCall /\ call[owner[j]].pc = "escaped"

JobsSettle ==
  \A j \in Jobs :
    /\ owner[j] # NoCall ~> owner[j] = NoCall \/ Escaped(j)
    /\ journal[j] # NoEntry /\ owner[j] = NoCall ~> journal[j] = NoEntry \/ owner[j] # NoCall

-----------------------------------------------------------------------------
(* Claims of the documentation that the code does not meet.                 *)

\* docs/design/sandbox-runtime.md, the same sentence: a run that completed has its
\* receipt.  A resubmission whose approval has expired is receipted while the run
\* is on, and takes the job's only receipt.
CompletedRunReceipted ==
  \A c \in Calls : call[c].pc \in Over /\ call[c].outcome = "completed" =>
    receipts[JobOf(c)] # NoReceipt /\ receipts[JobOf(c)].by = c

=============================================================================
