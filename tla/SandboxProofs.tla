--------------------------- MODULE SandboxProofs ---------------------------
(***************************************************************************)
(* Machine-checked proofs about Sandbox, for every set of jobs and calls   *)
(* and every bound on crashes and faults.                                  *)
(***************************************************************************)
EXTENDS Sandbox, TLAPS

USE SandboxAssumption, SentinelAssumption

-----------------------------------------------------------------------------
(* Runtime commands.                                                        *)

WellFormed(cmd) == cmd \in Commands

\* What a command may do to the runtime, whether it succeeds, fails or fails
\* after having taken effect: only a create adds a container, only its own.
LEMMA CommandEffect ==
  ASSUME TypeOK, NEW cmd, WellFormed(cmd), Succeeds(cmd) \/ Fails(cmd)
  PROVE  /\ networks' \subseteq Jobs /\ containers' \subseteq Ids /\ faults' \in 0..MaxFaults
         /\ cmd.op # "create" => containers' \subseteq containers
         /\ cmd.op = "create" => containers' \subseteq containers \cup {cmd.id}
         /\ Succeeds(cmd) /\ cmd.op = "rm" => cmd.id \notin containers'
  <1>1. CASE UNCHANGED <<networks, containers>>
    <2>1. Succeeds(cmd) /\ cmd.op = "rm" => cmd.id \notin containers'
      BY DEF Succeeds, Effect
    <2>2. QED BY <1>1, <2>1 DEF Succeeds, Fails, runtime, TypeOK
  <1>2. CASE Effect(cmd)
    BY <1>2 DEF Succeeds, Fails, Effect, WellFormed, Commands, TypeOK, runtime
  <1>3. QED BY <1>1, <1>2 DEF Succeeds, Fails, runtime

\* A command that takes effect after its caller is gone changes no more than one that is waited for.
LEMMA LateCommandEffect ==
  ASSUME TypeOK, NEW cmd, WellFormed(cmd),
         IF Accepts(cmd) THEN Effect(cmd) ELSE UNCHANGED runtime
  PROVE  /\ networks' \subseteq Jobs /\ containers' \subseteq Ids
         /\ cmd.op # "create" => containers' \subseteq containers
         /\ cmd.op = "create" => containers' \subseteq containers \cup {cmd.id}
  BY DEF Effect, WellFormed, runtime, Commands, TypeOK

\* The commands the service issues are well formed.
LEMMA CommandTypes ==
  ASSUME NEW c \in Calls, JobOf(c) \in Jobs
  PROVE  /\ WellFormed(NetCreate(JobOf(c))) /\ WellFormed(NetRm(JobOf(c)))
         /\ WellFormed(Create("proxy", c)) /\ WellFormed(Create("job", c))
         /\ WellFormed(Rm("proxy", c)) /\ WellFormed(Rm("job", c))
  BY DEF WellFormed, NetCreate, NetRm, RmId, Create, Rm, Commands, Ids, Kinds

\* The command a call awaits is well formed and is its own.
LEMMA InFlightTypes ==
  ASSUME TypeOK, Owned, NEW c \in Calls, Active(c), NEW cmd \in InFlight(c)
  PROVE  /\ WellFormed(cmd)
         /\ cmd.op = "create" => \/ cmd.id = <<"proxy", c>> /\ call[c].pc = "proxy"
                                 \/ cmd.id = <<"job", c>> /\ call[c].pc = "create"
  <1>1. JobOf(c) \in Jobs
    BY DEF TypeOK, Owned, Active, Frame, JobOf, Trying, Preparing, Cleaning
  <1>3. /\ WellFormed(NetCreate(JobOf(c))) /\ WellFormed(NetRm(JobOf(c)))
        /\ WellFormed(Create("proxy", c)) /\ WellFormed(Create("job", c))
        /\ WellFormed(Rm("proxy", c)) /\ WellFormed(Rm("job", c))
    BY <1>1, CommandTypes
  <1>4. \/ call[c].pc = "net" /\ cmd = NetCreate(JobOf(c))
        \/ call[c].pc = "proxy" /\ cmd = Create("proxy", c)
        \/ call[c].pc = "create" /\ cmd = Create("job", c)
        \/ cmd \in {Rm("proxy", c), NetRm(JobOf(c)), Rm("job", c)}
    BY DEF InFlight
  <1>5. WellFormed(cmd) BY <1>3, <1>4
  <1>6. QED BY <1>4, <1>5 DEF NetCreate, NetRm, RmId, Create, Rm

-----------------------------------------------------------------------------
(* Steps of one call.                                                       *)

\* What every step of a call c does to its frame, its job's owner and the store.
FrameStep(c) ==
  LET f == call'[c] IN
    /\ call' = [call EXCEPT ![c] = f]
    /\ f \in Frame /\ f.job = JobOf(c) /\ f.pc # "idle"
    /\ f.pc \in Trying => f.outcome = "failed" /\ call[c].pc \in Trying
    /\ f.pc \in Trying \cup Cleaning => owner' = owner
    /\ owner' = owner \/ owner' = [owner EXCEPT ![JobOf(c)] = NoCall]
    /\ JobOf(c) \notin AllowListed => f.pc \notin Preparing \cup {"rm_proxy", "rm_net"}
    /\ call[c].pc \in Cleaning => f.outcome = call[c].outcome
    /\ receipts' \in [Jobs -> Receipt \cup {NoReceipt}]
    /\ journal' \in [Jobs -> Lease \cup {NoEntry}]
    /\ \A j \in Jobs : receipts'[j] # receipts[j] /\ receipts'[j].state = "completed" =>
         receipts'[j].by = c /\ f.pc = "returned" /\ f.outcome = "completed" /\ f.clean
    /\ \A j \in Jobs : receipts'[j] # receipts[j] => j = JobOf(c) /\ receipts[j] = NoReceipt
    /\ owner' # owner => receipts'[JobOf(c)] # NoReceipt

\* What it does to the runtime and to the abandoned commands.
RuntimeStep(c) ==
  LET f == call'[c] IN
    /\ networks' \subseteq Jobs /\ containers' \subseteq Ids /\ faults' \in 0..MaxFaults
    /\ call[c].pc \in Cleaning => containers' \subseteq containers
    /\ containers' \subseteq containers \cup {<<"job", c>>, <<"proxy", c>>}
    /\ JobOf(c) \notin AllowListed => <<"proxy", c>> \notin containers'
    /\ f.outcome = "completed" /\ f.clean =>
         /\ f.pc \in {"rm_proxy", "rm_net", "returned"} => <<"job", c>> \notin containers'
         /\ f.pc \in {"rm_net", "returned"} => <<"proxy", c>> \notin containers'
    /\ abandoned' \subseteq Commands
    /\ \A cmd \in abandoned' \ abandoned : cmd.op = "create" =>
         /\ cmd.id = <<"job", c>> \/ cmd.id = <<"proxy", c>>
         /\ f.outcome = "cancelled" /\ f.pc \in Cleaning \cup Over
         /\ cmd.id[1] = "proxy" => JobOf(c) \in AllowListed

CallStep(c) ==
  Active(c) /\ FrameStep(c) /\ RuntimeStep(c)
    /\ cancelSet' = cancelSet /\ rec' = rec /\ ready' = ready /\ crashes' = crashes

\* A step of one call that keeps its own frame in order keeps the invariant of all.
LEMMA CallStepInductive ==
  ASSUME Inductive, NEW c \in Calls, CallStep(c)
  PROVE  Inductive'
  <1> DEFINE f == call'[c]
  <1> USE DEF Inductive, CallStep
  <1>1. /\ \A d \in Calls : d # c => call'[d] = call[d]
        /\ call' = [call EXCEPT ![c] = f] /\ f \in Frame
        /\ JobOf(c) \in Jobs /\ f.job = JobOf(c)
        /\ call[c].pc \in Trying \cup Cleaning
    BY DEF FrameStep, TypeOK, Active, Owned, JobOf, Frame, Trying, Preparing, Cleaning
  <1>2. TypeOK'
    BY <1>1 DEF FrameStep, RuntimeStep, TypeOK
  <1>3. Owned'
    <2> SUFFICES ASSUME NEW d \in Calls
                 PROVE  /\ (call[d].pc = "idle" <=> JobOf(d) = NoJob)'
                        /\ (Active(d) => owner[JobOf(d)] = d)'
                        /\ (call[d].pc \in {"idle"} \cup Trying => call[d].outcome = "failed")'
      BY DEF Owned
    <2>1. CASE d = c
      <3>1. f.pc # "idle" /\ call'[c].job # NoJob
        BY <1>1 DEF FrameStep
      <3>2. f.pc \in Trying \cup Cleaning => owner'[JobOf(c)] = c
        BY <1>1 DEF FrameStep, Owned, Active
      <3>3. f.pc \in Trying => f.outcome = "failed"
        BY DEF FrameStep
      <3>4. (call[d].pc = "idle" <=> JobOf(d) = NoJob)'
        BY <2>1, <3>1 DEF JobOf
      <3>5. (Active(d) => owner[JobOf(d)] = d)'
        BY <1>1, <2>1, <3>2 DEF Active, JobOf
      <3>6. (call[d].pc \in {"idle"} \cup Trying => call[d].outcome = "failed")'
        BY <2>1, <3>1, <3>3
      <3>7. QED BY <3>4, <3>5, <3>6
    <2>2. CASE d # c
      <3>1. Active(d) => JobOf(d) # JobOf(c)
        BY <1>1, <2>2 DEF Owned
      <3>2. call'[d] = call[d] /\ JobOf(d)' = JobOf(d)
        BY <1>1, <2>2 DEF JobOf
      <3>3. Active(d) => owner'[JobOf(d)] = owner[JobOf(d)]
        <4>1. Active(d) => JobOf(d) \in Jobs
          BY DEF TypeOK, Owned, Active, JobOf, Frame, Trying, Preparing, Cleaning
        <4>2. QED BY <3>1, <4>1 DEF FrameStep, TypeOK
      <3>4. (call[d].pc = "idle" <=> JobOf(d) = NoJob)'
        BY <3>2 DEF Owned
      <3>5. (Active(d) => owner[JobOf(d)] = d)'
        BY <3>2, <3>3 DEF Owned, Active
      <3>6. (call[d].pc \in {"idle"} \cup Trying => call[d].outcome = "failed")'
        BY <3>2 DEF Owned
      <3>7. QED BY <3>4, <3>5, <3>6
    <2>3. QED BY <2>1, <2>2
  <1>4. OrphanedCommands'
    <2> SUFFICES ASSUME NEW cmd \in abandoned', cmd.op = "create"
                 PROVE  (/\ cmd.id \in Ids
                         /\ \/ call[cmd.id[2]].pc = "dead"
                            \/ /\ call[cmd.id[2]].outcome = "cancelled"
                               /\ call[cmd.id[2]].pc \in Cleaning \cup Over
                         /\ cmd.id[1] = "proxy" => JobOf(cmd.id[2]) \in AllowListed)'
      BY DEF OrphanedCommands
    <2>1. CASE cmd \notin abandoned
      <3>1. /\ cmd.id = <<"job", c>> \/ cmd.id = <<"proxy", c>>
            /\ f.outcome = "cancelled" /\ f.pc \in Cleaning \cup Over
            /\ cmd.id[1] = "proxy" => JobOf(c) \in AllowListed
        BY <2>1 DEF RuntimeStep
      <3>2. QED BY <1>1, <3>1 DEF Ids, Kinds, JobOf
    <2>2. CASE cmd \in abandoned
      <3>1. /\ cmd.id \in Ids
            /\ \/ call[cmd.id[2]].pc = "dead"
               \/ /\ call[cmd.id[2]].outcome = "cancelled"
                  /\ call[cmd.id[2]].pc \in Cleaning \cup Over
            /\ cmd.id[1] = "proxy" => JobOf(cmd.id[2]) \in AllowListed
        BY <2>2 DEF OrphanedCommands
      <3>2. CASE cmd.id[2] = c
        BY <1>1, <3>1, <3>2
           DEF FrameStep, JobOf, Frame, CallPcs, Trying, Preparing, Cleaning, Over
      <3>3. CASE cmd.id[2] # c
        BY <1>1, <3>1, <3>3 DEF JobOf, Ids
      <3>4. QED BY <3>2, <3>3
    <2>3. QED BY <2>1, <2>2
  <1>5. \A d \in Calls : d # c => /\ <<"job", d>> \in containers' => <<"job", d>> \in containers
                                  /\ <<"proxy", d>> \in containers' => <<"proxy", d>> \in containers
    BY DEF RuntimeStep
  <1>6. RemovedSoFar'
    BY <1>1, <1>5 DEF RemovedSoFar, RuntimeStep
  <1>7. ProxiesAllowListed'
    BY <1>1, <1>5 DEF ProxiesAllowListed, RuntimeStep, FrameStep, JobOf
  <1>8. CompletedReceipts'
    <2> SUFFICES ASSUME NEW j \in Jobs, receipts'[j] # NoReceipt, receipts'[j].state = "completed"
                 PROVE  /\ call'[receipts'[j].by].pc = "returned"
                        /\ call'[receipts'[j].by].outcome = "completed"
                        /\ call'[receipts'[j].by].clean
      BY DEF CompletedReceipts
    <2>1. CASE receipts'[j] # receipts[j]
      BY <2>1 DEF FrameStep
    <2>2. CASE receipts'[j] = receipts[j]
      <3>1. call[receipts[j].by].pc = "returned" /\ receipts[j].by \in Calls
        BY <2>2 DEF CompletedReceipts, TypeOK, Receipt
      <3>2. receipts[j].by # c
        BY <1>1, <3>1 DEF Trying, Preparing, Cleaning
      <3>3. QED BY <1>1, <2>2, <3>1, <3>2 DEF CompletedReceipts
    <2>3. QED BY <2>1, <2>2
  <1>9. ReconcileEntries'
    BY DEF ReconcileEntries
  <1>10. QED BY <1>2, <1>3, <1>4, <1>6, <1>7, <1>8, <1>9

\* The ends of execute(): Settle, Unwind.
LEMMA ActiveFrame ==
  ASSUME Inductive, NEW c \in Calls, Active(c)
  PROVE  /\ JobOf(c) \in Jobs /\ call[c] \in Frame /\ owner[JobOf(c)] = c
         /\ call \in [Calls -> Frame] /\ owner \in [Jobs -> Calls \cup {NoCall}]
         /\ call[c].job = JobOf(c) /\ call[c].outcome \in Outcomes /\ call[c].clean \in BOOLEAN
         /\ call[c].pc \in Trying => call[c].outcome = "failed"
  BY DEF Inductive, TypeOK, Owned, Active, JobOf, Frame, Trying, Preparing, Cleaning

\* The transaction that inserts a receipt and clears a lease keeps the types of both tables.
LEMMA FinalizeTypes ==
  ASSUME Inductive, NEW c \in Calls, NEW j \in Jobs, NEW state \in States, NEW clean \in BOOLEAN,
         state = "completed" => clean, Finalize(c, j, state, clean)
  PROVE  /\ receipts' \in [Jobs -> Receipt \cup {NoReceipt}]
         /\ journal' \in [Jobs -> Lease \cup {NoEntry}]
         /\ \A k \in Jobs : receipts'[k] # receipts[k] =>
              /\ k = j /\ receipts[j] = NoReceipt
              /\ receipts'[k] = [by |-> c, state |-> state, clean |-> clean]
  BY DEF Inductive, TypeOK, Finalize, store, Receipt

\* The end of execute(), with or without a receipt, leaves a frame that has returned or raised.
LEMMA SettleFrame ==
  ASSUME Inductive, NEW c \in Calls, Active(c), NEW o \in Outcomes, NEW cl \in BOOLEAN,
         call[c].pc \in Cleaning => o = call[c].outcome, Settle(c, o, cl)
  PROVE  /\ FrameStep(c) /\ call'[c].outcome = o /\ call'[c].clean = cl
         /\ call'[c].pc \in {"returned", "raised"}
  <1> DEFINE end == IF receipts[JobOf(c)] = NoReceipt THEN "returned" ELSE "raised"
  <1>1. Verdict(o, cl) \in States /\ (Verdict(o, cl) = "completed" => cl /\ o = "completed")
    BY DEF Verdict, Outcomes, States
  <1>2. /\ receipts' \in [Jobs -> Receipt \cup {NoReceipt}]
        /\ journal' \in [Jobs -> Lease \cup {NoEntry}]
        /\ \A k \in Jobs : receipts'[k] # receipts[k] =>
              /\ k = JobOf(c) /\ receipts[JobOf(c)] = NoReceipt
              /\ receipts'[k] = [by |-> c, state |-> Verdict(o, cl), clean |-> cl]
    BY <1>1, ActiveFrame, FinalizeTypes DEF Settle
  <1>3. /\ call' = [call EXCEPT ![c] = [job |-> JobOf(c), pc |-> end, outcome |-> o, clean |-> cl]]
        /\ call'[c] = [job |-> JobOf(c), pc |-> end, outcome |-> o, clean |-> cl]
    BY ActiveFrame DEF Settle, Put
  <1>4. end \in Over /\ end \notin Trying \cup Cleaning \cup Preparing /\ end # "idle"
    BY DEF Over, Trying, Preparing, Cleaning
  <1>5. call'[c] \in Frame
    BY <1>3, <1>4, ActiveFrame DEF Frame, CallPcs
  <1>6. \A j \in Jobs : receipts'[j] # receipts[j] /\ receipts'[j].state = "completed" =>
         receipts'[j].by = c /\ end = "returned" /\ o = "completed" /\ cl
    BY <1>1, <1>2
  <1>7. receipts'[JobOf(c)] # NoReceipt
    <2>1. CASE receipts[JobOf(c)] = NoReceipt
      <3>1. receipts' = [receipts EXCEPT ![JobOf(c)] = [by |-> c, state |-> Verdict(o, cl),
                                                        clean |-> cl]]
        BY <2>1 DEF Settle, Finalize
      <3>2. [by |-> c, state |-> Verdict(o, cl), clean |-> cl] \in Receipt
        BY <1>1 DEF Receipt
      <3>3. QED BY <3>1, <3>2, ActiveFrame DEF Inductive, TypeOK
    <2>2. CASE receipts[JobOf(c)] # NoReceipt
      BY <2>2 DEF Settle, Finalize, store
    <2>3. QED BY <2>1, <2>2
  <1>8. QED
    BY <1>2, <1>3, <1>4, <1>5, <1>6, <1>7, ActiveFrame DEF FrameStep, Settle

\* Leaving the try block leaves a frame in the finally block, or over when nothing is to be cleaned up.
LEMMA UnwindFrame ==
  ASSUME Inductive, NEW c \in Calls, Active(c), call[c].pc \in Trying, NEW o \in Outcomes,
         NEW has \in BOOLEAN, NEW att \in BOOLEAN, Unwind(c, o, has, att)
  PROVE  /\ FrameStep(c) /\ call'[c].outcome = o
         /\ call'[c].pc \in Cleaning \cup {"returned", "raised", "escaped"}
         /\ has => call'[c].pc = "rm"
  <1>1. ASSUME NEW pc \in {"rm", "rm_proxy"}, pc = "rm_proxy" => JobOf(c) \in AllowListed,
               Put(c, pc, o, call[c].clean), UNCHANGED <<store, owner>>
        PROVE  FrameStep(c) /\ call'[c].outcome = o /\ call'[c].pc = pc
    <2>1. /\ call' = [call EXCEPT ![c] = [job |-> JobOf(c), pc |-> pc, outcome |-> o,
                                         clean |-> call[c].clean]]
          /\ call'[c] = [job |-> JobOf(c), pc |-> pc, outcome |-> o, clean |-> call[c].clean]
      BY <1>1, ActiveFrame DEF Put
    <2>2. pc \in Cleaning /\ pc \notin Trying \cup Preparing /\ pc # "rm_net" /\ pc # "idle"
      BY DEF Trying, Preparing, Cleaning
    <2>3. call'[c] \in Frame
      BY <2>1, <2>2, ActiveFrame DEF Frame, CallPcs
    <2>4. call[c].pc \notin Cleaning
      BY DEF Trying, Preparing, Cleaning
    <2>5. receipts' = receipts /\ journal' = journal /\ owner' = owner
      BY <1>1 DEF store
    <2>6. QED
      BY <1>1, <2>1, <2>2, <2>3, <2>4, <2>5, ActiveFrame DEF FrameStep, Inductive, TypeOK
  <1>2. CASE has /\ Put(c, "rm", o, call[c].clean) /\ UNCHANGED <<store, owner>>
    BY <1>1, <1>2 DEF Cleaning
  <1>3. CASE /\ ~has /\ JobOf(c) \in AllowListed
             /\ Put(c, "rm_proxy", o, call[c].clean)
             /\ UNCHANGED <<store, owner>>
    BY <1>1, <1>3 DEF Cleaning
  <1>4. CASE ~has /\ Settle(c, o, TRUE)
    <2>1. call[c].pc \notin Cleaning
      BY DEF Trying, Preparing, Cleaning
    <2>2. QED BY <1>4, <2>1, SettleFrame
  <1>5. QED BY <1>2, <1>3, <1>4 DEF Unwind

\* A step inside the try block or between two cleanup steps.
LEMMA GotoFrame ==
  ASSUME Inductive, NEW c \in Calls, Active(c), NEW pc \in CallPcs, NEW cl \in BOOLEAN,
         Put(c, pc, call[c].outcome, cl), pc # "idle",
         pc \in Trying => call[c].pc \in Trying,
         JobOf(c) \notin AllowListed => pc \notin Preparing \cup {"rm_proxy", "rm_net"},
         receipts' = receipts, owner' = owner, journal' \in [Jobs -> Lease \cup {NoEntry}]
  PROVE  /\ FrameStep(c) /\ call'[c].pc = pc /\ call'[c].outcome = call[c].outcome
         /\ call'[c].clean = cl
  <1>1. /\ call' = [call EXCEPT ![c] = [job |-> JobOf(c), pc |-> pc, outcome |-> call[c].outcome,
                                       clean |-> cl]]
        /\ call'[c] = [job |-> JobOf(c), pc |-> pc, outcome |-> call[c].outcome, clean |-> cl]
    BY ActiveFrame DEF Put
  <1>2. call'[c] \in Frame
    BY <1>1, ActiveFrame DEF Frame
  <1>3. QED
    BY <1>1, <1>2, ActiveFrame DEF FrameStep, Inductive, TypeOK

-----------------------------------------------------------------------------
(* Every action of execute() is such a step.                                *)

\* Journaling a lease keeps the types.
LEMMA RecordActiveTypes ==
  ASSUME Inductive, NEW c \in Calls, Active(c), NEW b \in BOOLEAN, RecordActive(c, b)
  PROVE  journal' \in [Jobs -> Lease \cup {NoEntry}]
  BY ActiveFrame DEF RecordActive, Lease, Inductive, TypeOK

\* The number of faults keeps within its bound.
LEMMA FaultBound ==
  ASSUME Inductive, UNCHANGED faults \/ (faults < MaxFaults /\ faults' = faults + 1)
  PROVE  faults' \in 0..MaxFaults
  <1>1. faults \in 0..MaxFaults /\ MaxFaults \in Nat
    BY DEF Inductive, TypeOK
  <1>2. QED BY <1>1

\* Creating a container or a proxy, whatever the runtime answers.
LEMMA CreateCommand ==
  ASSUME Inductive, NEW c \in Calls, Active(c), NEW kind \in Kinds,
         Succeeds(Create(kind, c)) \/ Fails(Create(kind, c)), UNCHANGED callFrame, FrameStep(c),
         call[c].pc \in Trying, call'[c].outcome = "failed",
         kind = "proxy" => JobOf(c) \in AllowListed
  PROVE  CallStep(c)
  <1> DEFINE cmd == Create(kind, c)
  <1>1. WellFormed(cmd) /\ cmd.id = <<kind, c>> /\ (Succeeds(cmd) \/ Fails(cmd))
    BY ActiveFrame DEF WellFormed, Create, Commands, Ids
  <1>2. /\ networks' \subseteq Jobs /\ containers' \subseteq Ids /\ faults' \in 0..MaxFaults
        /\ containers' \subseteq containers \cup {<<kind, c>>}
    <2> HIDE DEF cmd
    <2>1. QED BY <1>1, CommandEffect DEF Inductive
  <1>3. call[c].pc \notin Cleaning
    BY DEF Trying, Preparing, Cleaning
  <1>4. JobOf(c) \notin AllowListed => <<"proxy", c>> \notin containers'
    BY <1>2 DEF Inductive, ProxiesAllowListed
  <1>5. abandoned' = abandoned /\ abandoned \subseteq Commands
    BY DEF callFrame, Inductive, TypeOK
  <1>6. RuntimeStep(c)
    BY <1>2, <1>3, <1>4, <1>5 DEF RuntimeStep, Kinds
  <1>7. QED BY <1>6 DEF CallStep, callFrame

\* Any other command: nothing is created, and what a verdict of success rests on
\* is the caller's to show.
LEMMA OtherCommand ==
  ASSUME Inductive, NEW c \in Calls, Active(c), NEW cmd, WellFormed(cmd), cmd.op # "create",
         Succeeds(cmd) \/ Fails(cmd), UNCHANGED callFrame, FrameStep(c),
         call'[c].outcome = "completed" /\ call'[c].clean =>
           /\ call'[c].pc \in {"rm_proxy", "rm_net", "returned"} => <<"job", c>> \notin containers'
           /\ call'[c].pc \in {"rm_net", "returned"} => <<"proxy", c>> \notin containers'
  PROVE  CallStep(c)
  <1>1. /\ networks' \subseteq Jobs /\ containers' \subseteq Ids /\ faults' \in 0..MaxFaults
        /\ containers' \subseteq containers
    BY CommandEffect DEF Inductive
  <1>2. JobOf(c) \notin AllowListed => <<"proxy", c>> \notin containers'
    BY <1>1 DEF Inductive, ProxiesAllowListed
  <1>3. RuntimeStep(c)
    BY <1>1, <1>2 DEF RuntimeStep, callFrame, Inductive, TypeOK
  <1>4. QED BY <1>3 DEF CallStep, callFrame

\* A step that leaves the runtime alone but may spend a fault.
LEMMA QuietStep ==
  ASSUME Inductive, NEW c \in Calls, Active(c), call[c].pc \in Trying,
         UNCHANGED <<runtime, callFrame>>, faults' \in 0..MaxFaults, FrameStep(c),
         call'[c].outcome = "completed" => call'[c].pc = "rm"
  PROVE  CallStep(c)
  <1>1. networks' = networks /\ containers' = containers /\ abandoned' = abandoned
    BY DEF runtime, callFrame
  <1>2. RuntimeStep(c)
    BY <1>1 DEF RuntimeStep, Inductive, TypeOK, ProxiesAllowListed
  <1>3. QED BY <1>2 DEF CallStep, callFrame

\* The preparation of a network, its failures and its undo are orderly steps of one call.
LEMMA PrepareNetworkStep ==
  ASSUME Inductive, NEW c \in Calls, PrepareNetwork(c)
  PROVE  CallStep(c)
  <1>1. call[c].pc \in Preparing /\ call[c].pc \in Trying /\ Active(c) /\ UNCHANGED callFrame
    BY DEF PrepareNetwork, Preparing, Trying, Active
  <1>2. /\ JobOf(c) \in AllowListed /\ JobOf(c) \in Jobs /\ call[c].outcome = "failed"
        /\ call[c].clean \in BOOLEAN /\ "failed" \in Outcomes
    BY <1>1, ActiveFrame DEF Inductive, ProxiesAllowListed, Outcomes
  <1>3. /\ WellFormed(NetCreate(JobOf(c))) /\ WellFormed(NetRm(JobOf(c)))
        /\ WellFormed(Create("proxy", c)) /\ WellFormed(Rm("proxy", c))
    BY <1>2, CommandTypes
  <1>4. ASSUME NEW pc \in {"proxy", "link", "undo_proxy", "undo_net", "create"}, Goto(c, pc),
               receipts' = receipts, owner' = owner,
               journal' \in [Jobs -> Lease \cup {NoEntry}]
        PROVE  FrameStep(c) /\ call'[c].outcome = "failed"
    <2>1. pc \in Trying /\ pc \in CallPcs /\ pc # "idle"
      BY DEF Trying, Preparing, CallPcs
    <2>2. QED BY <1>1, <1>2, <1>4, <2>1, GotoFrame DEF Goto
  <1>5. journal \in [Jobs -> Lease \cup {NoEntry}]
    BY DEF Inductive, TypeOK
  <1>6. CASE /\ \/ Succeeds(NetCreate(JobOf(c))) /\ Goto(c, "proxy")
                \/ Fails(NetCreate(JobOf(c))) /\ Goto(c, "undo_net")
             /\ UNCHANGED <<store, owner>>
    <2>1. FrameStep(c) /\ call'[c].outcome = "failed"
      BY <1>4, <1>5, <1>6 DEF store
    <2>2. NetCreate(JobOf(c)).op # "create"
      BY DEF NetCreate
    <2>3. QED BY <1>1, <1>3, <1>6, <2>1, <2>2, OtherCommand
  <1>7. CASE /\ \/ Succeeds(Create("proxy", c)) /\ Goto(c, "link")
                \/ Fails(Create("proxy", c)) /\ Goto(c, "undo_net")
             /\ UNCHANGED <<store, owner>>
    <2>1. FrameStep(c) /\ call'[c].outcome = "failed"
      BY <1>4, <1>5, <1>7 DEF store
    <2>2. QED BY <1>1, <1>2, <1>7, <2>1, CreateCommand DEF Kinds
  <1>8. CASE /\ UNCHANGED <<runtime, receipts, owner>>
             /\ \/ Goto(c, "create") /\ RecordActive(c, FALSE) /\ UNCHANGED faults
                \/ /\ faults < MaxFaults /\ faults' = faults + 1
                   /\ Goto(c, "undo_proxy") /\ UNCHANGED journal
    <2>1. journal' \in [Jobs -> Lease \cup {NoEntry}]
      BY <1>1, <1>5, <1>8, RecordActiveTypes
    <2>2. FrameStep(c) /\ call'[c].outcome = "failed"
      BY <1>4, <1>8, <2>1
    <2>3. faults' \in 0..MaxFaults
      <3>1. UNCHANGED faults \/ (faults < MaxFaults /\ faults' = faults + 1)
        BY <1>8
      <3>2. QED BY <3>1, FaultBound
    <2>4. QED BY <1>1, <1>8, <2>2, <2>3, QuietStep
  <1>9. CASE /\ Succeeds(Rm("proxy", c)) \/ Fails(Rm("proxy", c))
             /\ Goto(c, "undo_net") /\ UNCHANGED <<store, owner>>
    <2>1. FrameStep(c) /\ call'[c].outcome = "failed"
      BY <1>4, <1>5, <1>9 DEF store
    <2>2. Rm("proxy", c).op # "create"
      BY DEF Rm, RmId
    <2>3. QED BY <1>1, <1>3, <1>9, <2>1, <2>2, OtherCommand
  <1>10. CASE /\ Succeeds(NetRm(JobOf(c))) \/ Fails(NetRm(JobOf(c)))
              /\ Unwind(c, "failed", FALSE, FALSE)
    <2>1. FrameStep(c) /\ call'[c].outcome = "failed"
      BY <1>1, <1>2, <1>10, UnwindFrame
    <2>2. NetRm(JobOf(c)).op # "create"
      BY DEF NetRm
    <2>3. QED BY <1>1, <1>3, <1>10, <2>1, <2>2, OtherCommand
  <1>11. QED BY <1>6, <1>7, <1>8, <1>9, <1>10 DEF PrepareNetwork

\* The creation of a container, its check and their failures are orderly steps of one call.
LEMMA CreateContainerStep ==
  ASSUME Inductive, NEW c \in Calls, CreateContainer(c)
  PROVE  CallStep(c)
  <1>1. /\ call[c].pc \in {"create", "verify", "undo_create"} /\ call[c].pc \in Trying
        /\ Active(c) /\ UNCHANGED callFrame
    BY DEF CreateContainer, Trying, Active
  <1>2. /\ JobOf(c) \in Jobs /\ call[c].outcome = "failed" /\ call[c].clean \in BOOLEAN
        /\ "failed" \in Outcomes
    BY <1>1, ActiveFrame DEF Outcomes
  <1>3. WellFormed(Create("job", c)) /\ WellFormed(Rm("job", c))
    BY <1>2, CommandTypes
  <1>4. ASSUME NEW pc \in {"verify", "run", "undo_create"}, Goto(c, pc),
               receipts' = receipts, owner' = owner,
               journal' \in [Jobs -> Lease \cup {NoEntry}]
        PROVE  FrameStep(c) /\ call'[c].outcome = "failed"
    <2>1. pc \in Trying /\ pc \in CallPcs /\ pc # "idle" /\ pc \notin Preparing \cup {"rm_proxy", "rm_net"}
      BY DEF Trying, Preparing, CallPcs
    <2>2. QED BY <1>1, <1>2, <1>4, <2>1, GotoFrame DEF Goto
  <1>5. journal \in [Jobs -> Lease \cup {NoEntry}]
    BY DEF Inductive, TypeOK
  <1>6. ASSUME Unwind(c, "failed", FALSE, TRUE)
        PROVE  FrameStep(c) /\ call'[c].outcome = "failed"
    BY <1>1, <1>2, <1>6, UnwindFrame
  <1>7. ASSUME FrameStep(c), call'[c].outcome = "failed",
               Succeeds(Create("job", c)) \/ Fails(Create("job", c))
        PROVE  CallStep(c)
    BY <1>1, <1>7, CreateCommand DEF Kinds
  <1>8. CASE Succeeds(Create("job", c)) /\ Goto(c, "verify") /\ UNCHANGED <<store, owner>>
    BY <1>4, <1>5, <1>7, <1>8 DEF store
  <1>9. CASE Fails(Create("job", c)) /\ Unwind(c, "failed", FALSE, TRUE)
    BY <1>6, <1>7, <1>9
  <1>10. CASE /\ UNCHANGED <<runtime, receipts, owner>>
              /\ \/ Goto(c, "run") /\ RecordActive(c, TRUE) /\ UNCHANGED faults
                 \/ /\ faults < MaxFaults /\ faults' = faults + 1
                    /\ Goto(c, "undo_create") /\ UNCHANGED journal
    <2>1. journal' \in [Jobs -> Lease \cup {NoEntry}]
      BY <1>1, <1>5, <1>10, RecordActiveTypes
    <2>2. FrameStep(c) /\ call'[c].outcome = "failed"
      BY <1>4, <1>10, <2>1
    <2>3. faults' \in 0..MaxFaults
      <3>1. UNCHANGED faults \/ (faults < MaxFaults /\ faults' = faults + 1)
        BY <1>10
      <3>2. QED BY <3>1, FaultBound
    <2>4. QED BY <1>1, <1>10, <2>2, <2>3, QuietStep
  <1>11. CASE /\ Succeeds(Rm("job", c)) \/ Fails(Rm("job", c))
              /\ Unwind(c, "failed", FALSE, TRUE)
    <2>1. Rm("job", c).op # "create"
      BY DEF Rm, RmId
    <2>2. QED BY <1>1, <1>3, <1>6, <1>11, <2>1, OtherCommand
  <1>12. QED BY <1>8, <1>9, <1>10, <1>11 DEF CreateContainer

\* A run that completes, fails or is cancelled is an orderly step of one call.
LEMMA RunStep ==
  ASSUME Inductive, NEW c \in Calls, Run(c)
  PROVE  CallStep(c)
  <1>1. call[c].pc = "run" /\ call[c].pc \in Trying /\ Active(c)
    BY DEF Run, Trying, Active
  <1>2. PICK o \in Outcomes : Unwind(c, o, TRUE, TRUE)
    BY DEF Run
  <1>3. FrameStep(c) /\ call'[c].pc = "rm"
    BY <1>1, <1>2, UnwindFrame
  <1>4. faults' \in 0..MaxFaults
    BY DEF Run, Inductive, TypeOK
  <1>5. QED BY <1>1, <1>3, <1>4, QuietStep DEF Run

\* The removal of the container in the finally block is an orderly step of one call.
LEMMA CleanupContainerStep ==
  ASSUME Inductive, NEW c \in Calls, CleanupContainer(c)
  PROVE  CallStep(c)
  <1>1. call[c].pc = "rm" /\ call[c].pc \in Cleaning /\ Active(c) /\ UNCHANGED callFrame
    BY DEF CleanupContainer, Cleaning, Active
  <1>2. JobOf(c) \in Jobs /\ call[c].outcome \in Outcomes
    BY <1>1, ActiveFrame
  <1>3. WellFormed(Rm("job", c)) /\ Rm("job", c).op = "rm" /\ Rm("job", c).id = <<"job", c>>
    BY <1>2, CommandTypes DEF Rm, RmId
  <1>4. PICK ok \in BOOLEAN :
          /\ IF ok THEN Succeeds(Rm("job", c)) ELSE Fails(Rm("job", c))
          /\ \/ /\ JobOf(c) \in AllowListed
                /\ Put(c, "rm_proxy", call[c].outcome, ok)
                /\ UNCHANGED <<store, owner>>
             \/ JobOf(c) \notin AllowListed /\ Settle(c, call[c].outcome, ok)
    BY DEF CleanupContainer
  <1>5. ok => <<"job", c>> \notin containers'
    BY <1>3, <1>4, CommandEffect DEF Inductive
  <1>6. /\ FrameStep(c) /\ call'[c].clean = ok
        /\ call'[c].pc \in {"rm_net", "returned"} => JobOf(c) \notin AllowListed
    <2>1. CASE /\ JobOf(c) \in AllowListed
               /\ Put(c, "rm_proxy", call[c].outcome, ok)
               /\ UNCHANGED <<store, owner>>
      <3>1. "rm_proxy" \in CallPcs /\ "rm_proxy" \notin Trying
        BY DEF CallPcs, Cleaning, Trying, Preparing
      <3>2. receipts' = receipts /\ owner' = owner /\ journal' \in [Jobs -> Lease \cup {NoEntry}]
        BY <2>1 DEF store, Inductive, TypeOK
      <3>3. QED BY <1>1, <2>1, <3>1, <3>2, GotoFrame
    <2>2. CASE JobOf(c) \notin AllowListed /\ Settle(c, call[c].outcome, ok)
      BY <1>1, <1>2, <2>2, SettleFrame
    <2>3. QED BY <1>4, <2>1, <2>2
  <1>7. containers' \subseteq containers
    BY <1>3, <1>4, CommandEffect DEF Inductive
  <1>8. JobOf(c) \notin AllowListed => <<"proxy", c>> \notin containers'
    BY <1>7 DEF Inductive, ProxiesAllowListed
  <1>9. Succeeds(Rm("job", c)) \/ Fails(Rm("job", c))
    BY <1>4
  <1>10. QED BY <1>1, <1>3, <1>5, <1>6, <1>8, <1>9, OtherCommand

\* The clean-up of the network, and the receipt that follows it, are orderly steps of one call.
LEMMA CleanupNetworkStep ==
  ASSUME Inductive, NEW c \in Calls, CleanupNetwork(c)
  PROVE  CallStep(c)
  <1>1. /\ call[c].pc \in {"rm_proxy", "rm_net"} /\ call[c].pc \in Cleaning /\ Active(c)
        /\ UNCHANGED callFrame
    BY DEF CleanupNetwork, Cleaning, Active
  <1>2. /\ JobOf(c) \in Jobs /\ JobOf(c) \in AllowListed
        /\ call[c].outcome \in Outcomes /\ call[c].clean \in BOOLEAN
    BY <1>1, ActiveFrame DEF Inductive, ProxiesAllowListed
  <1>3. /\ WellFormed(Rm("proxy", c)) /\ Rm("proxy", c).op = "rm"
        /\ Rm("proxy", c).id = <<"proxy", c>>
        /\ WellFormed(NetRm(JobOf(c))) /\ NetRm(JobOf(c)).op # "create"
    BY <1>2, CommandTypes DEF Rm, RmId, NetRm
  <1>4. CASE /\ call[c].pc = "rm_proxy"
             /\ \E ok \in BOOLEAN :
                  /\ IF ok THEN Succeeds(Rm("proxy", c)) ELSE Fails(Rm("proxy", c))
                  /\ Put(c, "rm_net", call[c].outcome, Tally(call[c].clean, ok))
             /\ UNCHANGED <<store, owner>>
    <2>1. PICK ok \in BOOLEAN :
            /\ IF ok THEN Succeeds(Rm("proxy", c)) ELSE Fails(Rm("proxy", c))
            /\ Put(c, "rm_net", call[c].outcome, Tally(call[c].clean, ok))
      BY <1>4
    <2>2. "rm_net" \in CallPcs /\ "rm_net" \notin Trying /\ Tally(call[c].clean, ok) \in BOOLEAN
      BY <1>2 DEF CallPcs, Cleaning, Trying, Preparing, Tally
    <2>3. receipts' = receipts /\ owner' = owner /\ journal' \in [Jobs -> Lease \cup {NoEntry}]
      BY <1>4 DEF store, Inductive, TypeOK
    <2>4. /\ FrameStep(c) /\ call'[c].pc = "rm_net" /\ call'[c].outcome = call[c].outcome
          /\ call'[c].clean = Tally(call[c].clean, ok)
      BY <1>1, <1>2, <2>1, <2>2, <2>3, GotoFrame
    <2>5. ok => <<"proxy", c>> \notin containers'
      BY <1>3, <2>1, CommandEffect DEF Inductive
    <2>6. Succeeds(Rm("proxy", c)) \/ Fails(Rm("proxy", c))
      BY <2>1
    <2>7. containers' \subseteq containers
      BY <1>3, <2>6, CommandEffect DEF Inductive
    <2>8. call[c].outcome = "completed" /\ call[c].clean => <<"job", c>> \notin containers'
      BY <1>4, <2>7 DEF Inductive, RemovedSoFar
    <2>9. call'[c].outcome = "completed" /\ call'[c].clean =>
            <<"job", c>> \notin containers' /\ <<"proxy", c>> \notin containers'
      BY <2>4, <2>5, <2>8 DEF Tally
    <2>10. QED BY <1>1, <1>3, <2>4, <2>6, <2>9, OtherCommand
  <1>5. CASE /\ call[c].pc = "rm_net"
             /\ \E ok \in BOOLEAN :
                  /\ IF ok THEN Succeeds(NetRm(JobOf(c))) ELSE Fails(NetRm(JobOf(c)))
                  /\ Settle(c, call[c].outcome, Tally(call[c].clean, ok))
    <2>1. PICK ok \in BOOLEAN :
            /\ IF ok THEN Succeeds(NetRm(JobOf(c))) ELSE Fails(NetRm(JobOf(c)))
            /\ Settle(c, call[c].outcome, Tally(call[c].clean, ok))
      BY <1>5
    <2>2. Tally(call[c].clean, ok) \in BOOLEAN
      BY <1>2 DEF Tally
    <2>3. /\ FrameStep(c) /\ call'[c].outcome = call[c].outcome
          /\ call'[c].clean = Tally(call[c].clean, ok)
      BY <1>1, <1>2, <2>1, <2>2, SettleFrame
    <2>4. Succeeds(NetRm(JobOf(c))) \/ Fails(NetRm(JobOf(c)))
      BY <2>1
    <2>5. containers' \subseteq containers
      BY <1>3, <2>4, CommandEffect DEF Inductive
    <2>6. call'[c].outcome = "completed" /\ call'[c].clean =>
            <<"job", c>> \notin containers' /\ <<"proxy", c>> \notin containers'
      BY <1>5, <2>3, <2>5 DEF Tally, Inductive, RemovedSoFar
    <2>7. QED BY <1>1, <1>3, <2>3, <2>4, <2>6, OtherCommand
  <1>6. QED BY <1>1, <1>4, <1>5 DEF CleanupNetwork

\* The cancellation of the task that awaits execute(), wherever it is, is an orderly step of one call.
LEMMA CancelTaskStep ==
  ASSUME Inductive, NEW c \in Calls, CancelTask(c)
  PROVE  CallStep(c)
  <1>1. /\ Active(c) /\ abandoned' = abandoned \cup InFlight(c)
        /\ containers' = containers /\ networks' = networks /\ faults' = faults
        /\ UNCHANGED <<cancelSet, rec, ready, crashes>>
    BY DEF CancelTask, runtime, Unwind, Settle, Finalize
  <1>2. FrameStep(c) /\ (call[c].pc \in Trying => call'[c].outcome = "cancelled")
          /\ call'[c].pc \in Cleaning \cup {"returned", "raised", "escaped"}
          /\ (call[c].pc \in Cleaning => call'[c].pc = "escaped")
    <2>1. CASE /\ call[c].pc \in Trying
               /\ Unwind(c, "cancelled", call[c].pc = "run", Attached(c))
      <3> DEFINE has == call[c].pc = "run"
      <3> DEFINE att == Attached(c)
      <3>1. /\ "cancelled" \in Outcomes /\ has \in BOOLEAN /\ att \in BOOLEAN
            /\ Unwind(c, "cancelled", has, att)
        BY <2>1 DEF Outcomes, Attached
      <3> HIDE DEF has, att
      <3>2. call[c].pc \notin Cleaning
        BY <2>1 DEF Trying, Preparing, Cleaning
      <3>3. QED BY <1>1, <2>1, <3>1, <3>2, UnwindFrame
    <2>2. CASE call[c].pc \in Cleaning /\ Goto(c, "escaped") /\ UNCHANGED <<store, owner>>
      <3>1. "escaped" \in CallPcs /\ "escaped" \notin Trying \cup Preparing /\ call[c].clean \in BOOLEAN
              /\ call[c].pc \notin Trying
        BY <1>1, <2>2, ActiveFrame DEF CallPcs, Over, Trying, Preparing, Cleaning
      <3>2. receipts' = receipts /\ owner' = owner /\ journal' \in [Jobs -> Lease \cup {NoEntry}]
        BY <2>2 DEF store, Inductive, TypeOK
      <3>3. QED BY <1>1, <2>2, <3>1, <3>2, GotoFrame DEF Goto
    <2>3. QED BY <2>1, <2>2 DEF CancelTask
  <1>3. \A cmd \in InFlight(c) :
          /\ WellFormed(cmd)
          /\ cmd.op = "create" => \/ cmd.id = <<"proxy", c>> /\ call[c].pc = "proxy"
                                  \/ cmd.id = <<"job", c>> /\ call[c].pc = "create"
    BY <1>1, InFlightTypes DEF Inductive
  <1>4. \A cmd \in abandoned' \ abandoned : cmd.op = "create" =>
          /\ cmd.id = <<"job", c>> \/ cmd.id = <<"proxy", c>>
          /\ call'[c].outcome = "cancelled" /\ call'[c].pc \in Cleaning \cup Over
          /\ cmd.id[1] = "proxy" => JobOf(c) \in AllowListed
    <2>1. "proxy" \in Trying /\ "create" \in Trying
      BY DEF Trying, Preparing
    <2>2. call[c].pc = "proxy" => JobOf(c) \in AllowListed
      BY DEF Inductive, ProxiesAllowListed, Preparing
    <2>3. call'[c].pc \in Cleaning \cup Over
      BY <1>2 DEF Over
    <2>4. QED BY <1>1, <1>2, <1>3, <2>1, <2>2, <2>3
  <1>5. abandoned' \subseteq Commands
    BY <1>1, <1>3 DEF WellFormed, Inductive, TypeOK
  <1>6. call'[c].outcome = "completed" /\ call'[c].clean => call'[c].pc = "escaped"
    BY <1>1, <1>2 DEF Active
  <1>7. /\ networks \subseteq Jobs /\ containers \subseteq Ids /\ faults \in 0..MaxFaults
        /\ JobOf(c) \notin AllowListed => <<"proxy", c>> \notin containers
    BY DEF Inductive, TypeOK, ProxiesAllowListed
  <1>8. RuntimeStep(c)
    BY <1>1, <1>4, <1>5, <1>6, <1>7 DEF RuntimeStep
  <1>9. QED BY <1>1, <1>2, <1>8 DEF CallStep

-----------------------------------------------------------------------------
(* The other actions.                                                       *)

\* Steps that leave the calls and the receipts alone and create nothing.
LEMMA OutsideStep ==
  ASSUME Inductive, UNCHANGED <<receipts, owner, call>>, TypeOK', ReconcileEntries',
         abandoned' \subseteq abandoned, containers' \subseteq containers
  PROVE  Inductive'
  <1>1. Owned' /\ CompletedReceipts'
    BY DEF Inductive, Owned, CompletedReceipts, Active, JobOf
  <1>2. OrphanedCommands'
    BY DEF Inductive, OrphanedCommands, JobOf
  <1>3. RemovedSoFar' /\ ProxiesAllowListed'
    BY DEF Inductive, RemovedSoFar, ProxiesAllowListed, JobOf
  <1>4. QED BY <1>1, <1>2, <1>3 DEF Inductive

\* A call that was idle takes a job and stops at once or starts working.
LEMMA EnterStep ==
  ASSUME Inductive, NEW c \in Calls, NEW j \in Jobs, NEW pc \in CallPcs, call[c].pc = "idle",
         Enter(c, j, pc), pc # "idle", UNCHANGED <<runtime, abandoned, rec>>, TypeOK',
         j \notin AllowListed => pc \notin Preparing \cup {"rm_proxy", "rm_net"},
         \/ owner' = owner /\ pc \notin Trying \cup Cleaning
         \/ owner' = [owner EXCEPT ![j] = c] /\ owner[j] = NoCall,
         \A k \in Jobs : receipts'[k] # receipts[k] => receipts'[k].state # "completed"
  PROVE  Inductive'
  <1>1. /\ call'[c] = [job |-> j, pc |-> pc, outcome |-> "failed", clean |-> TRUE]
        /\ \A d \in Calls : d # c => call'[d] = call[d]
        /\ containers' = containers /\ networks' = networks /\ abandoned' = abandoned
        /\ JobOf(c) = NoJob /\ NoJob \notin Jobs
    BY DEF Enter, runtime, Inductive, TypeOK, Owned
  <1>2. Owned'
    <2> SUFFICES ASSUME NEW d \in Calls
                 PROVE  /\ (call[d].pc = "idle" <=> JobOf(d) = NoJob)'
                        /\ (Active(d) => owner[JobOf(d)] = d)'
                        /\ (call[d].pc \in {"idle"} \cup Trying => call[d].outcome = "failed")'
      BY DEF Owned
    <2>1. owner \in [Jobs -> Calls \cup {NoCall}]
      BY DEF Inductive, TypeOK
    <2>2. CASE d = c
      BY <1>1, <2>1, <2>2 DEF Active, JobOf
    <2>3. CASE d # c
      <3>1. Active(d) => JobOf(d) \in Jobs /\ owner[JobOf(d)] = d
        BY <2>3, ActiveFrame
      <3>2. Active(d) => owner'[JobOf(d)] = owner[JobOf(d)]
        BY <2>1, <3>1
      <3>3. QED BY <1>1, <2>3, <3>1, <3>2 DEF Inductive, Owned, Active, JobOf
    <2>4. QED BY <2>2, <2>3
  <1>3. OrphanedCommands'
    <2> SUFFICES ASSUME NEW cmd \in abandoned, cmd.op = "create"
                 PROVE  (/\ cmd.id \in Ids
                         /\ \/ call[cmd.id[2]].pc = "dead"
                            \/ /\ call[cmd.id[2]].outcome = "cancelled"
                               /\ call[cmd.id[2]].pc \in Cleaning \cup Over
                         /\ cmd.id[1] = "proxy" => JobOf(cmd.id[2]) \in AllowListed)'
      BY <1>1 DEF OrphanedCommands
    <2>1. /\ cmd.id \in Ids /\ cmd.id[2] \in Calls
          /\ \/ call[cmd.id[2]].pc = "dead"
             \/ /\ call[cmd.id[2]].outcome = "cancelled"
                /\ call[cmd.id[2]].pc \in Cleaning \cup Over
          /\ cmd.id[1] = "proxy" => JobOf(cmd.id[2]) \in AllowListed
      BY DEF Inductive, OrphanedCommands, Ids
    <2>2. cmd.id[2] # c
      BY <2>1 DEF Inductive, Owned, Cleaning, Over
    <2>3. QED BY <1>1, <2>1, <2>2 DEF JobOf
  <1>4. RemovedSoFar'
    BY <1>1 DEF Inductive, RemovedSoFar
  <1>5. ProxiesAllowListed'
    <2>1. NoJob \notin AllowListed => <<"proxy", c>> \notin containers
      BY <1>1 DEF Inductive, ProxiesAllowListed
    <2>2. <<"proxy", c>> \notin containers'
      BY <1>1, <2>1
    <2>3. QED BY <1>1, <2>2 DEF Inductive, ProxiesAllowListed, JobOf
  <1>6. CompletedReceipts'
    <2> SUFFICES ASSUME NEW k \in Jobs, receipts'[k] # NoReceipt, receipts'[k].state = "completed"
                 PROVE  /\ call'[receipts'[k].by].pc = "returned"
                        /\ call'[receipts'[k].by].outcome = "completed"
                        /\ call'[receipts'[k].by].clean
      BY DEF CompletedReceipts
    <2>1. receipts'[k] = receipts[k]
      OBVIOUS
    <2>2. /\ call[receipts[k].by].pc = "returned" /\ call[receipts[k].by].outcome = "completed"
          /\ call[receipts[k].by].clean /\ receipts[k].by \in Calls
      BY <2>1 DEF Inductive, CompletedReceipts, TypeOK, Receipt
    <2>3. QED BY <1>1, <2>1, <2>2
  <1>7. ReconcileEntries'
    BY DEF Inductive, ReconcileEntries
  <1>8. QED BY <1>2, <1>3, <1>4, <1>5, <1>6, <1>7 DEF Inductive

\* A submission rejected for its approval, and its receipt, keep the invariant.
LEMMA SubmitRejectedStep ==
  ASSUME Inductive, NEW c \in Calls, NEW j \in Jobs, SubmitRejected(c, j)
  PROVE  Inductive'
  <1> DEFINE pc == IF receipts[j] = NoReceipt THEN "returned" ELSE "raised"
  <1>1. /\ pc \in CallPcs /\ pc # "idle" /\ pc \notin Trying \cup Cleaning
        /\ pc \notin Preparing \cup {"rm_proxy", "rm_net"}
    BY DEF CallPcs, Over, Trying, Cleaning, Preparing
  <1>2. /\ receipts' \in [Jobs -> Receipt \cup {NoReceipt}]
        /\ journal' \in [Jobs -> Lease \cup {NoEntry}]
        /\ \A k \in Jobs : receipts'[k] # receipts[k] =>
              receipts'[k] = [by |-> c, state |-> "rejected", clean |-> TRUE]
    <2>1. "rejected" \in States /\ Finalize(c, j, "rejected", TRUE)
      BY DEF States, SubmitRejected
    <2> DEFINE r == [by |-> c, state |-> "rejected", clean |-> TRUE]
    <2>2. r \in Receipt
      BY DEF Receipt, States
    <2>3. /\ receipts \in [Jobs -> Receipt \cup {NoReceipt}]
          /\ journal \in [Jobs -> Lease \cup {NoEntry}]
      BY DEF Inductive, TypeOK
    <2>4. \/ receipts' = receipts /\ journal' = journal
          \/ /\ receipts[j] = NoReceipt /\ receipts' = [receipts EXCEPT ![j] = r]
             /\ journal' = [journal EXCEPT ![j] = NoEntry]
      BY <2>1 DEF Finalize, store
    <2> HIDE DEF r
    <2>5. /\ receipts' \in [Jobs -> Receipt \cup {NoReceipt}]
          /\ journal' \in [Jobs -> Lease \cup {NoEntry}]
          /\ \A k \in Jobs : receipts'[k] # receipts[k] => receipts'[k] = r
      BY <2>2, <2>3, <2>4
    <2>6. QED BY <2>1, <2>5 DEF r
  <1>3. \A k \in Jobs : receipts'[k] # receipts[k] => receipts'[k].state # "completed"
    BY <1>2
  <1>4. Enter(c, j, pc) /\ call[c].pc = "idle" /\ owner' = owner
    BY DEF SubmitRejected
  <1> HIDE DEF pc
  <1>5. call' \in [Calls -> Frame]
    BY <1>1, <1>4 DEF Enter, Frame, Outcomes, Inductive, TypeOK
  <1>6. TypeOK'
    BY <1>2, <1>5 DEF SubmitRejected, runtime, Inductive, TypeOK
  <1>7. UNCHANGED <<runtime, abandoned, rec>>
    BY DEF SubmitRejected
  <1>8. QED BY <1>1, <1>3, <1>4, <1>6, <1>7, EnterStep

\* A submission refused as a duplicate keeps the invariant.
LEMMA SubmitDuplicateStep ==
  ASSUME Inductive, NEW c \in Calls, NEW j \in Jobs, SubmitDuplicate(c, j)
  PROVE  Inductive'
  <1>1. /\ "refused" \in CallPcs /\ "refused" \notin Trying \cup Cleaning
        /\ "refused" \notin Preparing \cup {"rm_proxy", "rm_net"}
    BY DEF CallPcs, Over, Trying, Cleaning, Preparing
  <1>2. Enter(c, j, "refused") /\ call[c].pc = "idle"
    BY DEF SubmitDuplicate
  <1>3. UNCHANGED <<runtime, abandoned, rec, owner, receipts>>
    BY DEF SubmitDuplicate, store
  <1>4. call' \in [Calls -> Frame]
    BY <1>1, <1>2 DEF Enter, Frame, Outcomes, Inductive, TypeOK
  <1>5. TypeOK'
    BY <1>4 DEF SubmitDuplicate, runtime, store, Inductive, TypeOK
  <1>6. QED BY <1>1, <1>2, <1>3, <1>5, EnterStep

\* An admitted submission keeps the invariant.
LEMMA SubmitStep ==
  ASSUME Inductive, NEW c \in Calls, NEW j \in Jobs, Submit(c, j)
  PROVE  Inductive'
  <1> DEFINE pc == IF j \in AllowListed THEN "net" ELSE "create"
  <1>1. /\ pc \in CallPcs /\ pc # "idle"
        /\ j \notin AllowListed => pc \notin Preparing \cup {"rm_proxy", "rm_net"}
    BY DEF CallPcs, Trying, Preparing
  <1>2. Enter(c, j, pc) /\ call[c].pc = "idle"
    BY DEF Submit
  <1> HIDE DEF pc
  <1>3. /\ owner' = [owner EXCEPT ![j] = c] /\ owner[j] = NoCall
        /\ UNCHANGED <<runtime, abandoned, rec>> /\ receipts' = receipts
    BY DEF Submit, Admissible
  <1>4. call' \in [Calls -> Frame]
    BY <1>1, <1>2 DEF Enter, Frame, Outcomes, Inductive, TypeOK
  <1>5. journal' \in [Jobs -> Lease \cup {NoEntry}]
    BY DEF Submit, Lease, Inductive, TypeOK
  <1>6. TypeOK'
    BY <1>3, <1>4, <1>5 DEF Submit, runtime, Inductive, TypeOK
  <1>7. QED BY <1>1, <1>2, <1>3, <1>6, EnterStep

\* start() keeps the invariant.
LEMMA StartStep ==
  ASSUME Inductive, Start
  PROVE  Inductive'
  <1>1. TypeOK' /\ ReconcileEntries'
    BY DEF Start, store, runtime, Inductive, TypeOK, ReconcileEntries
  <1>2. QED BY <1>1, OutsideStep DEF Start, store, runtime

\* cancel() keeps the invariant.
LEMMA CancelStep ==
  ASSUME Inductive, NEW j \in Jobs, Cancel(j)
  PROVE  Inductive'
  <1>1. cancelSet' \subseteq Calls
    BY DEF Cancel, Inductive, TypeOK
  <1>2. TypeOK' /\ ReconcileEntries'
    BY <1>1 DEF Cancel, store, runtime, Inductive, TypeOK, ReconcileEntries
  <1>3. QED BY <1>2, OutsideStep DEF Cancel, store, runtime

\* reconcile moving on: the frame it leaves behind is well formed.
LEMMA AdvanceTypes ==
  ASSUME Inductive, NEW r \in RecFrame, \A j \in r.jobs : r.lease[j] # NoEntry,
         NEW rows \in [Jobs -> Lease \cup {NoEntry}], Advance(r, rows)
  PROVE  /\ journal' \in [Jobs -> Lease \cup {NoEntry}]
         /\ rec' \in RecFrame /\ ReconcileEntries'
  <1>1. PICK now \in SUBSET {j \in r.jobs : ~NeedsAwait(r, j)} :
          /\ journal' = Clear(rows, now)
          /\ \/ \E j \in r.jobs \ now :
                  NeedsAwait(r, j) /\ rec' = BeginEntry([r EXCEPT !.jobs = (r.jobs \ now) \ {j}], j)
             \/ /\ r.jobs \ now = {}
                /\ \/ \E id \in r.orphans :
                        rec' = [r EXCEPT !.pc = "orphan", !.jobs = {}, !.id = id,
                                  !.job = JobOf(id[2]), !.orphans = @ \ {id}]
                   \/ r.orphans = {} /\ rec' = IdleRec
    BY DEF Advance
  <1>2. journal' \in [Jobs -> Lease \cup {NoEntry}]
    BY <1>1 DEF Clear
  <1>3. CASE \E j \in r.jobs \ now : rec' = BeginEntry([r EXCEPT !.jobs = (r.jobs \ now) \ {j}], j)
    <2>1. PICK j \in r.jobs \ now : rec' = BeginEntry([r EXCEPT !.jobs = (r.jobs \ now) \ {j}], j)
      BY <1>3
    <2> DEFINE left == (r.jobs \ now) \ {j}
    <2> DEFINE s == [r EXCEPT !.jobs = left]
    <2>2. left \subseteq r.jobs /\ left \in SUBSET Jobs /\ j \in Jobs /\ r.lease[j].by \in Calls
      BY DEF RecFrame, Lease
    <2> HIDE DEF left
    <2>3. s \in RecFrame /\ s.lease = r.lease /\ s.jobs = left
      BY <2>2 DEF RecFrame
    <2>4. rec' = BeginEntry(s, j)
      BY <2>1 DEF left
    <2> HIDE DEF s
    <2> DEFINE by == r.lease[j].by
    <2>5. \/ rec' = [s EXCEPT !.pc = "rm", !.job = j, !.id = <<"job", by>>]
          \/ rec' = [s EXCEPT !.pc = "rm_proxy", !.job = j, !.id = <<"proxy", by>>]
      BY <2>3, <2>4 DEF BeginEntry
    <2>6. rec' \in RecFrame /\ rec'.id \in Ids /\ rec'.jobs = left /\ rec'.lease = r.lease
      <3>1. <<"job", by>> \in Ids /\ <<"proxy", by>> \in Ids
        BY <2>2 DEF Ids, Kinds
      <3>2. PICK pc \in {"rm", "rm_proxy"}, id \in Ids :
              rec' = [s EXCEPT !.pc = pc, !.job = j, !.id = id]
        BY <2>5, <3>1
      <3>3. pc \in RecPcs
        BY DEF RecPcs
      <3>4. QED BY <2>2, <2>3, <3>2, <3>3 DEF RecFrame
    <2>7. QED BY <1>2, <2>2, <2>6 DEF ReconcileEntries
  <1>4. CASE \E id \in r.orphans :
               rec' = [r EXCEPT !.pc = "orphan", !.jobs = {}, !.id = id,
                         !.job = JobOf(id[2]), !.orphans = @ \ {id}]
    <2>1. PICK id \in r.orphans :
               rec' = [r EXCEPT !.pc = "orphan", !.jobs = {}, !.id = id,
                         !.job = JobOf(id[2]), !.orphans = r.orphans \ {id}]
      BY <1>4
    <2> DEFINE j == JobOf(id[2])
    <2> DEFINE os == r.orphans \ {id}
    <2>2. id \in Ids /\ j \in Jobs \cup {NoJob} /\ os \in SUBSET Ids
      BY DEF RecFrame, Ids, JobOf, Inductive, TypeOK, Frame
    <2>3. rec' = [r EXCEPT !.pc = "orphan", !.jobs = {}, !.id = id, !.job = j, !.orphans = os]
      BY <2>1
    <2> HIDE DEF j, os
    <2>4. rec' \in RecFrame /\ rec'.id \in Ids /\ rec'.jobs = {}
      BY <2>2, <2>3 DEF RecFrame, RecPcs
    <2>5. QED BY <1>2, <2>4 DEF ReconcileEntries
  <1>5. CASE rec' = IdleRec
    BY <1>2, <1>5 DEF IdleRec, RecFrame, RecPcs, ReconcileEntries
  <1>6. QED BY <1>1, <1>3, <1>4, <1>5

\* A command of reconcile, then its frame and the journal.
LEMMA ReconcileCommand ==
  ASSUME Inductive, NEW cmd, WellFormed(cmd), cmd.op # "create", Succeeds(cmd) \/ Fails(cmd),
         UNCHANGED recRest, journal' \in [Jobs -> Lease \cup {NoEntry}],
         rec' \in RecFrame, ReconcileEntries'
  PROVE  Inductive'
  <1>1. /\ networks' \subseteq Jobs /\ containers' \subseteq Ids /\ faults' \in 0..MaxFaults
        /\ containers' \subseteq containers
    BY CommandEffect DEF Inductive
  <1>2. TypeOK'
    BY <1>1 DEF recRest, Inductive, TypeOK
  <1>3. QED BY <1>1, <1>2, OutsideStep DEF recRest

\* Every step of a reconcile pass keeps the invariant.
LEMMA ReconcileStep ==
  ASSUME Inductive, Reconcile
  PROVE  Inductive'
  <1>1. /\ rec \in RecFrame /\ journal \in [Jobs -> Lease \cup {NoEntry}]
        /\ containers \subseteq Ids /\ rec.job \in Jobs \cup {NoJob}
        /\ rec.pc \in {"rm", "rm_proxy", "orphan"} => rec.id \in Ids
        /\ \A j \in rec.jobs : rec.lease[j] # NoEntry
    BY DEF Inductive, TypeOK, ReconcileEntries, RecFrame
  <1>2. /\ rec.pc \in {"rm", "rm_proxy", "orphan"} => WellFormed(RmId(rec.id, rec.job))
        /\ WellFormed(NetRm(rec.job))
        /\ RmId(rec.id, rec.job).op # "create" /\ NetRm(rec.job).op # "create"
    BY <1>1 DEF WellFormed, RmId, NetRm, Commands
  <1>3. Cleared \in [Jobs -> Lease \cup {NoEntry}]
    BY <1>1 DEF Cleared, Clear
  <1>4. ASSUME NEW rows \in [Jobs -> Lease \cup {NoEntry}], Advance(rec, rows)
        PROVE  /\ journal' \in [Jobs -> Lease \cup {NoEntry}]
               /\ rec' \in RecFrame /\ ReconcileEntries'
    BY <1>1, <1>4, AdvanceTypes
  <1>5. CASE ReconcileList
    <2>1. rec' = [rec EXCEPT !.pc = "listing", !.managed = containers]
      BY <1>5 DEF ReconcileList
    <2>2. rec' \in RecFrame /\ rec'.pc = "listing" /\ rec'.jobs = rec.jobs /\ rec'.lease = rec.lease
      BY <1>1, <2>1 DEF RecFrame, RecPcs
    <2>3. ReconcileEntries'
      BY <1>1, <2>2 DEF ReconcileEntries
    <2>4. TypeOK'
      BY <1>5, <2>2 DEF ReconcileList, recRest, runtime, Inductive, TypeOK
    <2>5. QED BY <1>5, <2>3, <2>4, OutsideStep DEF ReconcileList, recRest, runtime
  <1>6. CASE ReconcileSnapshot
    <2> DEFINE journaled == {j \in Jobs : journal[j] # NoEntry}
               known == {<<"job", journal[j].by>> : j \in {k \in journaled : journal[k].container}}
               os == rec.managed \ known
               js == {j \in journaled : owner[j] = NoCall}
               r == [rec EXCEPT !.lease = journal, !.orphans = os, !.jobs = js]
    <2>1. Advance(r, journal)
      BY <1>6 DEF ReconcileSnapshot
    <2>2. os \in SUBSET Ids /\ js \in SUBSET Jobs /\ \A j \in js : journal[j] # NoEntry
      BY <1>1 DEF RecFrame
    <2> HIDE DEF os, js, known, journaled
    <2>3. r \in RecFrame /\ r.jobs = js /\ r.lease = journal
      BY <1>1, <2>2 DEF RecFrame
    <2> HIDE DEF r
    <2>4. /\ journal' \in [Jobs -> Lease \cup {NoEntry}]
          /\ rec' \in RecFrame /\ ReconcileEntries'
      BY <1>1, <2>1, <2>2, <2>3, AdvanceTypes
    <2>5. TypeOK'
      BY <1>6, <2>4 DEF ReconcileSnapshot, recRest, runtime, Inductive, TypeOK
    <2>6. QED BY <1>6, <2>4, <2>5, OutsideStep DEF ReconcileSnapshot, recRest, runtime
  <1>7. CASE ReconcileRemove
    <2> DEFINE cmd == RmId(rec.id, rec.job)
               proxyId == <<"proxy", rec.id[2]>>
               proxy == [rec EXCEPT !.pc = "rm_proxy", !.id = <<"proxy", @[2]>>]
    <2>1. /\ rec.pc = "rm" /\ UNCHANGED recRest /\ WellFormed(cmd) /\ cmd.op # "create"
          /\ Succeeds(cmd) \/ Fails(cmd)
      BY <1>2, <1>7 DEF ReconcileRemove
    <2>2. \/ rec' = proxy /\ UNCHANGED journal
          \/ Advance(rec, Cleared) \/ Advance(rec, journal)
      BY <1>7 DEF ReconcileRemove
    <2>3. proxyId \in Ids
      BY <1>1, <2>1 DEF Ids, Kinds
    <2>4. proxy = [rec EXCEPT !.pc = "rm_proxy", !.id = proxyId]
      BY <1>1 DEF RecFrame
    <2> HIDE DEF cmd, proxyId, proxy
    <2>5. /\ proxy \in RecFrame /\ proxy.id \in Ids /\ proxy.jobs = rec.jobs
          /\ proxy.lease = rec.lease
      BY <1>1, <2>3, <2>4 DEF RecFrame, RecPcs
    <2>6. /\ journal' \in [Jobs -> Lease \cup {NoEntry}]
          /\ rec' \in RecFrame /\ ReconcileEntries'
      <3>1. CASE rec' = proxy /\ UNCHANGED journal
        BY <1>1, <2>5, <3>1 DEF ReconcileEntries
      <3>2. QED BY <1>1, <1>3, <1>4, <2>2, <3>1
    <2>7. QED BY <2>1, <2>6, ReconcileCommand
  <1>8. CASE ReconcileNetwork
    <2>1. UNCHANGED recRest
      BY <1>8 DEF ReconcileNetwork
    <2>2. CASE /\ rec.pc = "rm_proxy"
               /\ \E ok \in BOOLEAN :
                    /\ IF ok THEN Succeeds(RmId(rec.id, rec.job)) ELSE Fails(RmId(rec.id, rec.job))
                    /\ rec' = [rec EXCEPT !.pc = "rm_net", !.clean = ok]
               /\ UNCHANGED journal
      <3>1. PICK ok \in BOOLEAN :
              /\ IF ok THEN Succeeds(RmId(rec.id, rec.job)) ELSE Fails(RmId(rec.id, rec.job))
              /\ rec' = [rec EXCEPT !.pc = "rm_net", !.clean = ok]
        BY <2>2
      <3>2. rec' \in RecFrame /\ rec'.pc = "rm_net" /\ rec'.jobs = rec.jobs /\ rec'.lease = rec.lease
        BY <1>1, <3>1 DEF RecFrame, RecPcs
      <3>3. ReconcileEntries' /\ journal' \in [Jobs -> Lease \cup {NoEntry}]
        BY <1>1, <2>2, <3>2 DEF ReconcileEntries
      <3>4. Succeeds(RmId(rec.id, rec.job)) \/ Fails(RmId(rec.id, rec.job))
        BY <3>1
      <3>5. QED BY <1>2, <2>1, <2>2, <3>2, <3>3, <3>4, ReconcileCommand
    <2>3. CASE \/ /\ Succeeds(NetRm(rec.job))
                  /\ Advance(rec, IF rec.clean THEN Cleared ELSE journal)
               \/ Fails(NetRm(rec.job)) /\ Advance(rec, journal)
      <3>1. /\ journal' \in [Jobs -> Lease \cup {NoEntry}]
            /\ rec' \in RecFrame /\ ReconcileEntries'
        BY <1>1, <1>3, <1>4, <2>3
      <3>2. QED BY <1>2, <2>1, <2>3, <3>1, ReconcileCommand
    <2>4. QED BY <1>8, <2>2, <2>3 DEF ReconcileNetwork
  <1>9. CASE ReconcileOrphan
    <2>1. /\ rec.pc = "orphan" /\ UNCHANGED recRest /\ Advance(rec, journal)
          /\ Succeeds(RmId(rec.id, rec.job)) \/ Fails(RmId(rec.id, rec.job))
      BY <1>9 DEF ReconcileOrphan
    <2>2. /\ journal' \in [Jobs -> Lease \cup {NoEntry}]
          /\ rec' \in RecFrame /\ ReconcileEntries'
      BY <1>1, <1>4, <2>1
    <2>3. QED BY <1>2, <2>1, <2>2, ReconcileCommand
  <1>10. QED BY <1>5, <1>6, <1>7, <1>8, <1>9 DEF Reconcile

\* A late effect can only be that of a command whose call is dead or cancelled,
\* so no receipt and no verdict of success is about what it creates.
LEMMA LateEffectStep ==
  ASSUME Inductive, LateEffect
  PROVE  Inductive'
  <1>1. PICK cmd \in abandoned :
          /\ abandoned' = abandoned \ {cmd}
          /\ IF Accepts(cmd) THEN Effect(cmd) ELSE UNCHANGED runtime
          /\ UNCHANGED <<store, owner, cancelSet, call, rec, ready, crashes, faults>>
    BY DEF LateEffect
  <1>2. WellFormed(cmd) /\ abandoned' \subseteq abandoned
    BY <1>1 DEF Inductive, TypeOK, WellFormed
  <1>3. /\ networks' \subseteq Jobs /\ containers' \subseteq Ids
        /\ cmd.op # "create" => containers' \subseteq containers
        /\ cmd.op = "create" => containers' \subseteq containers \cup {cmd.id}
    BY <1>1, <1>2, LateCommandEffect DEF Inductive
  <1>4. UNCHANGED <<receipts, journal, owner, cancelSet, call, rec, ready, crashes, faults>>
    BY <1>1 DEF store
  <1>5. TypeOK'
    BY <1>2, <1>3, <1>4 DEF Inductive, TypeOK
  <1>6. CASE cmd.op # "create"
    <2>1. ReconcileEntries'
      BY <1>4 DEF Inductive, ReconcileEntries
    <2>2. QED BY <1>2, <1>3, <1>4, <1>5, <1>6, <2>1, OutsideStep
  <1>7. CASE cmd.op = "create"
    <2> DEFINE d == cmd.id[2]
    <2>1. /\ cmd.id \in Ids /\ d \in Calls
          /\ \/ call[d].pc = "dead"
             \/ call[d].outcome = "cancelled" /\ call[d].pc \in Cleaning \cup Over
          /\ cmd.id[1] = "proxy" => JobOf(d) \in AllowListed
      BY <1>7 DEF Inductive, OrphanedCommands, Ids
    <2>2. \A c \in Calls : c # d => /\ <<"job", c>> \in containers' => <<"job", c>> \in containers
                                    /\ <<"proxy", c>> \in containers' => <<"proxy", c>> \in containers
      BY <1>3, <1>7
    <2>3. Owned' /\ CompletedReceipts'
      BY <1>4 DEF Inductive, Owned, CompletedReceipts, Active, JobOf
    <2>4. OrphanedCommands' /\ ReconcileEntries'
      BY <1>2, <1>4 DEF Inductive, OrphanedCommands, ReconcileEntries, JobOf
    <2>5. RemovedSoFar'
      BY <1>4, <2>1, <2>2 DEF Inductive, RemovedSoFar
    <2>6. ProxiesAllowListed'
      <3> SUFFICES ASSUME NEW c \in Calls, JobOf(c) \notin AllowListed
                   PROVE  <<"proxy", c>> \notin containers'
        BY <1>4 DEF Inductive, ProxiesAllowListed, JobOf
      <3>1. <<"proxy", c>> \notin containers
        BY DEF Inductive, ProxiesAllowListed
      <3>2. <<"proxy", c>> # cmd.id
        BY <2>1
      <3>3. QED BY <1>3, <1>7, <3>1, <3>2
    <2>7. QED BY <1>5, <2>3, <2>4, <2>5, <2>6 DEF Inductive
  <1>8. QED BY <1>6, <1>7

\* A crash abandons what was in flight and leaves every call idle, over or dead.
LEMMA CrashStep ==
  ASSUME Inductive, Crash
  PROVE  Inductive'
  <1>1. \A c \in Calls : call'[c] = IF Active(c) THEN [call[c] EXCEPT !.pc = "dead"] ELSE call[c]
    BY DEF Crash
  <1>2. \A c \in Calls :
          /\ call'[c] \in Frame /\ call'[c].job = call[c].job
          /\ call'[c].outcome = call[c].outcome /\ call'[c].clean = call[c].clean
          /\ Active(c) => call'[c].pc = "dead"
          /\ ~Active(c) => call'[c].pc = call[c].pc
    <2> SUFFICES ASSUME NEW c \in Calls
                 PROVE  /\ call'[c] \in Frame /\ call'[c].job = call[c].job
                        /\ call'[c].outcome = call[c].outcome /\ call'[c].clean = call[c].clean
                        /\ Active(c) => call'[c].pc = "dead"
                        /\ ~Active(c) => call'[c].pc = call[c].pc
      OBVIOUS
    <2>1. call[c] \in Frame /\ "dead" \in CallPcs
      BY DEF Inductive, TypeOK, CallPcs, Over
    <2>2. CASE Active(c)
      <3>1. call'[c] = [call[c] EXCEPT !.pc = "dead"]
        BY <1>1, <2>2
      <3>2. QED BY <2>1, <2>2, <3>1 DEF Frame
    <2>3. CASE ~Active(c)
      BY <1>1, <2>1, <2>3
    <2>4. QED BY <2>2, <2>3
  <1>3. crashes' \in 0..MaxCrashes
    <2>1. crashes \in 0..MaxCrashes /\ MaxCrashes \in Nat /\ crashes < MaxCrashes
            /\ crashes' = crashes + 1
      BY DEF Crash, Inductive, TypeOK
    <2>2. QED BY <2>1
  <1>4. RecInFlight \subseteq Commands /\ \A cmd \in RecInFlight : cmd.op # "create"
    <2>1. /\ rec.job \in Jobs \cup {NoJob}
          /\ rec.pc \in {"rm", "rm_proxy", "orphan"} => rec.id \in Ids
      BY DEF Inductive, TypeOK, ReconcileEntries, RecFrame
    <2>2. QED BY <2>1 DEF RecInFlight, RmId, NetRm, Commands
  <1>5. \A c \in Calls : ~Active(c) => InFlight(c) = {}
    BY DEF InFlight, Active, Trying, Preparing, Cleaning
  <1>6. \A c \in Calls : \A cmd \in InFlight(c) :
          /\ cmd \in Commands /\ Active(c)
          /\ cmd.op = "create" => \/ cmd.id = <<"proxy", c>> /\ call[c].pc = "proxy"
                                  \/ cmd.id = <<"job", c>>
    BY <1>5, InFlightTypes DEF Inductive, WellFormed
  <1>7. /\ UNCHANGED <<receipts, journal, containers, networks, faults>>
        /\ owner' = [j \in Jobs |-> NoCall] /\ cancelSet' = {} /\ rec' = IdleRec /\ ready' = FALSE
        /\ abandoned' = abandoned \cup RecInFlight \cup UNION {InFlight(c) : c \in Calls}
    BY DEF Crash, store, runtime
  <1>8. TypeOK'
    <2>1. call' \in [Calls -> Frame]
      BY <1>2 DEF Crash
    <2>2. rec' \in RecFrame
      BY <1>7 DEF IdleRec, RecFrame, RecPcs
    <2>3. abandoned' \subseteq Commands
      BY <1>4, <1>6, <1>7 DEF Inductive, TypeOK
    <2>4. QED BY <1>3, <1>7, <2>1, <2>2, <2>3 DEF Inductive, TypeOK
  <1>9. Owned'
    <2> SUFFICES ASSUME NEW c \in Calls
                 PROVE  /\ call'[c].pc = "idle" <=> call'[c].job = NoJob
                        /\ call'[c].pc \notin Trying \cup Cleaning
                        /\ call'[c].pc \in {"idle"} \cup Trying => call'[c].outcome = "failed"
      BY DEF Owned, Active, JobOf
    <2>1. "dead" \notin Trying \cup Cleaning
      BY DEF Trying, Preparing, Cleaning
    <2>2. /\ call[c].pc = "idle" <=> call[c].job = NoJob
          /\ call[c].pc \in {"idle"} \cup Trying => call[c].outcome = "failed"
          /\ Active(c) <=> call[c].pc \in Trying \cup Cleaning
      BY DEF Inductive, Owned, Active, JobOf
    <2>3. "idle" \notin Trying \cup Cleaning
      BY DEF Trying, Preparing, Cleaning
    <2>4. CASE Active(c)
      BY <1>2, <2>1, <2>2, <2>3, <2>4
    <2>5. CASE ~Active(c)
      BY <1>2, <2>2, <2>5
    <2>6. QED BY <2>4, <2>5
  <1>10. OrphanedCommands'
    <2> SUFFICES ASSUME NEW cmd \in abandoned', cmd.op = "create"
                 PROVE  (/\ cmd.id \in Ids
                         /\ \/ call[cmd.id[2]].pc = "dead"
                            \/ /\ call[cmd.id[2]].outcome = "cancelled"
                               /\ call[cmd.id[2]].pc \in Cleaning \cup Over
                         /\ cmd.id[1] = "proxy" => JobOf(cmd.id[2]) \in AllowListed)'
      BY DEF OrphanedCommands
    <2>1. CASE cmd \in abandoned
      <3>1. /\ cmd.id \in Ids /\ cmd.id[2] \in Calls
            /\ \/ call[cmd.id[2]].pc = "dead"
               \/ /\ call[cmd.id[2]].outcome = "cancelled"
                  /\ call[cmd.id[2]].pc \in Cleaning \cup Over
            /\ cmd.id[1] = "proxy" => JobOf(cmd.id[2]) \in AllowListed
        BY <2>1 DEF Inductive, OrphanedCommands, Ids
      <3>2. QED BY <1>2, <3>1 DEF JobOf
    <2>2. CASE \E c \in Calls : cmd \in InFlight(c)
      <3>1. PICK c \in Calls : cmd \in InFlight(c)
        BY <2>2
      <3>2. cmd.id = <<"proxy", c>> \/ cmd.id = <<"job", c>>
        BY <1>6, <3>1
      <3>3. cmd.id = <<"proxy", c>> => JobOf(c) \in AllowListed
        <4>1. <<"proxy", c>> # <<"job", c>>
          OBVIOUS
        <4>2. cmd.id = <<"proxy", c>> => call[c].pc = "proxy"
          BY <1>6, <3>1, <4>1
        <4>3. QED BY <4>2 DEF Inductive, ProxiesAllowListed, Preparing
      <3>4. cmd.id \in Ids /\ cmd.id[2] = c /\ (cmd.id[1] = "proxy" => cmd.id = <<"proxy", c>>)
        BY <3>2 DEF Ids, Kinds
      <3>5. call'[c].pc = "dead" /\ call'[c].job = JobOf(c)
        BY <1>2, <1>6, <3>1 DEF JobOf
      <3>6. QED BY <3>3, <3>4, <3>5 DEF JobOf
    <2>3. QED BY <1>4, <1>7, <2>1, <2>2
  <1>11. RemovedSoFar' /\ ProxiesAllowListed'
    <2>1. /\ "dead" \notin {"rm_proxy", "rm_net", "returned"} /\ "dead" \notin Preparing
      BY DEF Preparing
    <2>2. QED BY <1>2, <1>7, <2>1 DEF Inductive, RemovedSoFar, ProxiesAllowListed, JobOf
  <1>12. CompletedReceipts'
    <2> SUFFICES ASSUME NEW j \in Jobs, receipts[j] # NoReceipt, receipts[j].state = "completed"
                 PROVE  /\ call'[receipts[j].by].pc = "returned"
                        /\ call'[receipts[j].by].outcome = "completed"
                        /\ call'[receipts[j].by].clean
      BY <1>7 DEF CompletedReceipts
    <2>1. /\ call[receipts[j].by].pc = "returned" /\ call[receipts[j].by].outcome = "completed"
          /\ call[receipts[j].by].clean /\ receipts[j].by \in Calls
      BY DEF Inductive, CompletedReceipts, TypeOK, Receipt
    <2>2. ~Active(receipts[j].by)
      BY <2>1 DEF Active, Trying, Preparing, Cleaning
    <2>3. QED BY <1>2, <2>1, <2>2
  <1>13. ReconcileEntries'
    BY <1>7 DEF ReconcileEntries, IdleRec
  <1>14. QED BY <1>8, <1>9, <1>10, <1>11, <1>12, <1>13 DEF Inductive

-----------------------------------------------------------------------------
(* The theorems.                                                            *)

\* Whatever a call does, and its cancellation, is an orderly step of one call.
LEMMA WorkStep ==
  ASSUME Inductive, NEW c \in Calls, Work(c) \/ CancelTask(c)
  PROVE  CallStep(c)
  BY PrepareNetworkStep, CreateContainerStep, RunStep, CleanupContainerStep, CleanupNetworkStep,
     CancelTaskStep DEF Work

\* A new service satisfies the invariant.
LEMMA InitInductive == Init => Inductive
  <1> SUFFICES ASSUME Init PROVE Inductive
    OBVIOUS
  <1>1. TypeOK
    <2>1. rec \in RecFrame
      BY DEF Init, IdleRec, RecFrame, RecPcs
    <2>2. call \in [Calls -> Frame]
      BY DEF Init, Frame, CallPcs, Outcomes
    <2>3. crashes \in 0..MaxCrashes /\ faults \in 0..MaxFaults
      BY DEF Init
    <2>4. QED BY <2>1, <2>2, <2>3 DEF Init, TypeOK
  <1>2. Owned
    BY DEF Init, Owned, Active, JobOf, Trying, Preparing, Cleaning
  <1>3. OrphanedCommands /\ RemovedSoFar /\ ProxiesAllowListed
    BY DEF Init, OrphanedCommands, RemovedSoFar, ProxiesAllowListed, Preparing
  <1>4. CompletedReceipts /\ ReconcileEntries
    BY DEF Init, CompletedReceipts, ReconcileEntries, IdleRec
  <1>5. QED BY <1>1, <1>2, <1>3, <1>4 DEF Inductive

\* Every step of the service, its runtime and its callers keeps the invariant.
LEMMA NextInductive == Inductive /\ [Next]_vars => Inductive'
  <1> SUFFICES ASSUME Inductive, [Next]_vars PROVE Inductive'
    OBVIOUS
  <1>1. CASE Start
    BY <1>1, StartStep
  <1>2. CASE \E c \in Calls, j \in Jobs :
               SubmitRejected(c, j) \/ SubmitDuplicate(c, j) \/ Submit(c, j)
    BY <1>2, SubmitRejectedStep, SubmitDuplicateStep, SubmitStep
  <1>3. CASE \E c \in Calls : Work(c) \/ CancelTask(c)
    BY <1>3, WorkStep, CallStepInductive
  <1>4. CASE \E j \in Jobs : Cancel(j)
    BY <1>4, CancelStep
  <1>5. CASE Reconcile
    BY <1>5, ReconcileStep
  <1>6. CASE LateEffect
    BY <1>6, LateEffectStep
  <1>7. CASE Crash
    BY <1>7, CrashStep
  <1>8. CASE UNCHANGED vars
    <2>1. TypeOK' /\ ReconcileEntries'
      BY <1>8 DEF vars, Inductive, TypeOK, ReconcileEntries
    <2>2. QED BY <1>8, <2>1, OutsideStep DEF vars
  <1>9. QED BY <1>1, <1>2, <1>3, <1>4, <1>5, <1>6, <1>7, <1>8 DEF Next

\* Everything the arguments below rest on holds in every reachable state.
THEOREM InductiveInvariant == Spec => []Inductive
  BY InitInductive, NextInductive, PTL DEF Spec

\* The store, the runtime and every frame of the service keep their types.
THEOREM TypeCorrectness == Spec => []TypeOK
  <1>1. Inductive => TypeOK
    BY DEF Inductive
  <1>2. QED BY <1>1, InductiveInvariant, PTL

\* execute() never has two live calls working on one job.
THEOREM MutualExclusion == Spec => []OneRunPerJob
  <1>1. Inductive => OneRunPerJob
    BY DEF Inductive, Owned, OneRunPerJob
  <1>2. QED BY <1>1, InductiveInvariant, PTL

\* A COMPLETED receipt is never wrong about the clean-up, crashes, cancelled
\* tasks and late effects of commands included.
THEOREM CompletedIsClean == Spec => []CompletedLeavesNothing
  <1>1. Inductive => CompletedLeavesNothing
    <2> SUFFICES ASSUME Inductive, NEW j \in Jobs, NEW kind \in Kinds,
                        receipts[j] # NoReceipt, receipts[j].state = "completed"
                 PROVE  /\ <<kind, receipts[j].by>> \notin containers
                        /\ \A cmd \in abandoned : cmd.op = "create" =>
                             cmd.id # <<kind, receipts[j].by>>
      BY DEF CompletedLeavesNothing
    <2> DEFINE c == receipts[j].by
    <2>1. c \in Calls /\ call[c].pc = "returned" /\ call[c].outcome = "completed" /\ call[c].clean
      BY DEF Inductive, CompletedReceipts, TypeOK, Receipt
    <2>2. <<"job", c>> \notin containers /\ <<"proxy", c>> \notin containers
      BY <2>1 DEF Inductive, RemovedSoFar
    <2>3. ASSUME NEW cmd \in abandoned, cmd.op = "create", cmd.id = <<kind, c>>
          PROVE  FALSE
      <3>1. cmd.id[2] = c
        BY <2>3
      <3>2. call[c].pc = "dead" \/ call[c].outcome = "cancelled"
        BY <2>3, <3>1 DEF Inductive, OrphanedCommands
      <3>3. QED BY <2>1, <3>2
    <2>4. QED BY <2>2, <2>3 DEF Kinds
  <1>2. QED BY <1>1, InductiveInvariant, PTL

-----------------------------------------------------------------------------
(* The service implements the ledger.                                       *)

\* What any step does to the receipts and to the live jobs.
LEMMA StoreStep ==
  ASSUME Inductive, [Next]_vars
  PROVE  \/ receipts' = receipts /\ owner' = owner
         \/ receipts' = receipts /\ owner' = [j \in Jobs |-> NoCall]
         \/ \E j \in Jobs : \E c \in Calls :
              /\ owner' = [owner EXCEPT ![j] = c] /\ receipts' = receipts
              /\ owner[j] = NoCall /\ receipts[j] = NoReceipt
         \/ \E j \in Jobs :
              /\ owner' = owner \/ (owner' = [owner EXCEPT ![j] = NoCall] /\ owner[j] # NoCall
                                     /\ receipts'[j] # NoReceipt)
              /\ receipts' \in [Jobs -> Receipt \cup {NoReceipt}]
              /\ \A k \in Jobs : receipts'[k] # receipts[k] => k = j /\ receipts[j] = NoReceipt
  <1>1. CASE Start
    BY <1>1 DEF Start, store
  <1>2. ASSUME NEW c \in Calls, NEW j \in Jobs, SubmitRejected(c, j)
        PROVE  /\ owner' = owner /\ receipts' \in [Jobs -> Receipt \cup {NoReceipt}]
               /\ \A k \in Jobs : receipts'[k] # receipts[k] => k = j /\ receipts[j] = NoReceipt
    <2>1. Finalize(c, j, "rejected", TRUE) /\ owner' = owner
      BY <1>2 DEF SubmitRejected
    <2> DEFINE r == [by |-> c, state |-> "rejected", clean |-> TRUE]
    <2>2. r \in Receipt
      BY DEF Receipt, States
    <2>3. /\ receipts \in [Jobs -> Receipt \cup {NoReceipt}]
          /\ journal \in [Jobs -> Lease \cup {NoEntry}]
      BY DEF Inductive, TypeOK
    <2>4. \/ receipts' = receipts /\ journal' = journal
          \/ /\ receipts[j] = NoReceipt /\ receipts' = [receipts EXCEPT ![j] = r]
             /\ journal' = [journal EXCEPT ![j] = NoEntry]
      BY <2>1 DEF Finalize, store
    <2> HIDE DEF r
    <2>5. /\ receipts' \in [Jobs -> Receipt \cup {NoReceipt}]
          /\ journal' \in [Jobs -> Lease \cup {NoEntry}]
          /\ \A k \in Jobs : receipts'[k] # receipts[k] => k = j /\ receipts[j] = NoReceipt
      BY <2>2, <2>3, <2>4
    <2>6. QED BY <2>1, <2>5
  <1>3. ASSUME NEW c \in Calls, NEW j \in Jobs, SubmitDuplicate(c, j)
        PROVE  receipts' = receipts /\ owner' = owner
    BY <1>3 DEF SubmitDuplicate, store
  <1>4. ASSUME NEW c \in Calls, NEW j \in Jobs, Submit(c, j)
        PROVE  /\ owner' = [owner EXCEPT ![j] = c] /\ receipts' = receipts
               /\ owner[j] = NoCall /\ receipts[j] = NoReceipt
    BY <1>4 DEF Submit, Admissible
  <1>5. ASSUME NEW c \in Calls, Work(c) \/ CancelTask(c)
        PROVE  /\ JobOf(c) \in Jobs
               /\ owner' = owner \/ (owner' = [owner EXCEPT ![JobOf(c)] = NoCall]
                                      /\ owner[JobOf(c)] # NoCall /\ receipts'[JobOf(c)] # NoReceipt)
               /\ receipts' \in [Jobs -> Receipt \cup {NoReceipt}]
               /\ \A k \in Jobs : receipts'[k] # receipts[k] =>
                    k = JobOf(c) /\ receipts[JobOf(c)] = NoReceipt
    <2>1. Active(c) /\ FrameStep(c)
      BY <1>5, WorkStep DEF CallStep
    <2>2. JobOf(c) \in Jobs /\ owner[JobOf(c)] = c /\ c # NoCall
      BY <2>1, ActiveFrame
    <2>3. QED BY <2>1, <2>2 DEF FrameStep
  <1>6. CASE \/ \E j \in Jobs : Cancel(j)
             \/ Reconcile
             \/ LateEffect
             \/ UNCHANGED vars
    BY <1>6 DEF Cancel, Reconcile, ReconcileList, ReconcileSnapshot, ReconcileRemove,
                ReconcileNetwork, ReconcileOrphan, recRest, LateEffect, store, vars
  <1>7. CASE Crash
    BY <1>7 DEF Crash, store
  <1>8. CASE \E c \in Calls, j \in Jobs :
               SubmitRejected(c, j) \/ SubmitDuplicate(c, j) \/ Submit(c, j)
    BY <1>2, <1>3, <1>4, <1>8
  <1>9. CASE \E c \in Calls : Work(c) \/ CancelTask(c)
    BY <1>5, <1>9
  <1>10. QED BY <1>1, <1>6, <1>7, <1>8, <1>9 DEF Next

\* No step of the service replaces or withdraws a receipt.
THEOREM FinalReceipts == Spec => ReceiptsAreFinal
  <1>1. Inductive /\ [Next]_vars => \A j \in Jobs : receipts[j] # NoReceipt => receipts'[j] = receipts[j]
    BY StoreStep
  <1>2. QED BY <1>1, InductiveInvariant, PTL DEF Spec, ReceiptsAreFinal

\* Every behaviour of the service is one of the ledger: a job is begun only while
\* neither live nor decided, and decided at most once.
THEOREM ImplementsLedger == Spec => LedgerSpec
  <1> DEFINE live == {j \in Jobs : owner[j] # NoCall}
  <1>1. Init => Ledger!Init
    BY DEF Init, Ledger!Init
  <1>2. Inductive /\ [Next]_vars => [Ledger!Next]_<<live, receipts>>
    <2> SUFFICES ASSUME Inductive, [Next]_vars, <<live, receipts>>' # <<live, receipts>>
                 PROVE  Ledger!Next
      OBVIOUS
    <2>0. owner \in [Jobs -> Calls \cup {NoCall}] /\ receipts \in [Jobs -> Receipt \cup {NoReceipt}]
      BY DEF Inductive, TypeOK
    <2>1. CASE receipts' = receipts /\ owner' = owner
      BY <2>1
    <2>2. CASE receipts' = receipts /\ owner' = [j \in Jobs |-> NoCall]
      BY <2>2 DEF Ledger!Next, Ledger!LoseAll
    <2>3. ASSUME NEW j \in Jobs, NEW c \in Calls,
                 owner' = [owner EXCEPT ![j] = c], receipts' = receipts,
                 owner[j] = NoCall, receipts[j] = NoReceipt
          PROVE  Ledger!Next
      <3>1. live' = live \cup {j} /\ j \notin live
        BY <2>0, <2>3
      <3>2. Ledger!Begin(j)
        BY <2>3, <3>1 DEF Ledger!Begin
      <3>3. QED BY <3>2 DEF Ledger!Next
    <2>4. ASSUME NEW j \in Jobs,
                 owner' = owner \/ (owner' = [owner EXCEPT ![j] = NoCall] /\ owner[j] # NoCall
                                     /\ receipts'[j] # NoReceipt),
                 receipts' \in [Jobs -> Receipt \cup {NoReceipt}],
                 \A k \in Jobs : receipts'[k] # receipts[k] => k = j /\ receipts[j] = NoReceipt
          PROVE  Ledger!Next
      <3>1. live' = live \/ (live' = live \ {j} /\ j \in live /\ receipts'[j] # NoReceipt)
        BY <2>0, <2>4
      <3>2. CASE receipts' = receipts
        <4>1. Ledger!Abandon(j)
          BY <3>1, <3>2 DEF Ledger!Abandon
        <4>2. QED BY <4>1 DEF Ledger!Next
      <3>3. CASE receipts' # receipts
        <4>1. receipts[j] = NoReceipt /\ receipts'[j] # NoReceipt
          BY <2>0, <2>4, <3>3
        <4>2. receipts'[j] \in Receipt /\ receipts' = [receipts EXCEPT ![j] = receipts'[j]]
          BY <2>0, <2>4, <4>1
        <4>3. Ledger!Decide(j)
          BY <3>1, <4>1, <4>2 DEF Ledger!Decide
        <4>4. QED BY <4>3 DEF Ledger!Next
      <3>4. QED BY <3>2, <3>3
    <2>5. QED BY <2>1, <2>2, <2>3, <2>4, StoreStep
  <1>3. QED BY <1>1, <1>2, InductiveInvariant, PTL DEF Spec, LedgerSpec, Ledger!Spec

-----------------------------------------------------------------------------
(* Leases.                                                                  *)

\* c's lease is in the journal, with the container's id once c has it.
HasLease(c) ==
  LET row == journal[JobOf(c)] IN
    /\ row # NoEntry /\ row.by = c
    /\ call[c].pc \in {"run", "rm"} => row.container

CleanReceipt(j) == receipts[j] # NoReceipt /\ receipts[j].clean

\* A lease that no live call holds is that of a receipted job.
LeasesReceipted == \A j \in Jobs : owner[j] = NoCall /\ journal[j] # NoEntry => receipts[j] # NoReceipt

\* So a reconcile pass holds on to receipted jobs only, and clears no other's lease.
PassReceipted ==
  /\ \A j \in rec.jobs : receipts[j] # NoReceipt
  /\ rec.pc \in {"rm", "rm_proxy", "rm_net"} => rec.job \in Jobs /\ receipts[rec.job] # NoReceipt

\* While a call works, only the rejection of another for the same job can have been
\* receipted, which has nothing to clean up.
RejectedBeside == \A c \in Calls : Active(c) /\ receipts[JobOf(c)] # NoReceipt => CleanReceipt(JobOf(c))

\* Networks belong to jobs with egress, and no late command makes one for a job whose
\* clean-up is receipted as incomplete.
NetworksKnown ==
  /\ networks \subseteq AllowListed
  /\ \A cmd \in abandoned : cmd.op = "net_create" => cmd.job \in AllowListed /\ CleanReceipt(cmd.job)

Leased ==
  /\ \A c \in Calls : (Attached(c) \/ call[c].pc \in Cleaning) /\ receipts[JobOf(c)] = NoReceipt => HasLease(c)
  /\ \A j \in networks : receipts[j] # NoReceipt /\ ~receipts[j].clean => journal[j] # NoEntry

Leases ==
  crashes = 0 => LeasesReceipted /\ PassReceipted /\ RejectedBeside /\ NetworksKnown /\ Leased

\* What a step of call c does to leases and receipts: it touches its own job's, clears a
\* lease with a clean receipt only, and has its lease when it needs one.
TablesStep(c) ==
  LET j == JobOf(c) IN
    /\ \A k \in Jobs \ {j} : journal'[k] = journal[k] /\ receipts'[k] = receipts[k]
    /\ receipts'[j] # receipts[j] =>
         /\ receipts[j] = NoReceipt /\ receipts'[j] # NoReceipt /\ call'[c].pc \in Over
         /\ receipts'[j].clean \/ (call[c].pc \in Cleaning /\ journal'[j] = journal[j])
    /\ (Attached(c)' \/ call'[c].pc \in Cleaning) /\ receipts'[j] = NoReceipt => HasLease(c)'

\* What it does to networks: only one that prepares its network creates one, at once or,
\* if it is cancelled then, late.
NetworksStep(c) ==
  LET j == JobOf(c) IN
    /\ \A k \in networks' : k \in networks \/ (k = j /\ call[c].pc = "net")
    /\ \A cmd \in abandoned' \ abandoned : cmd.op = "net_create" =>
         /\ cmd.job = j /\ call[c].pc = "net" /\ receipts'[j] # NoReceipt
         /\ receipts'[j] = receipts[j] \/ receipts'[j].clean

\* Two calls that work have different jobs, and the steps of one leave the other's job alone.
LEMMA OtherCallApart ==
  ASSUME Inductive, NEW c \in Calls, Active(c), FrameStep(c), NEW d \in Calls \ {c}
  PROVE  /\ call'[d] = call[d] /\ JobOf(d)' = JobOf(d) /\ (Active(d)' <=> Active(d))
         /\ (Attached(d)' <=> Attached(d))
         /\ Active(d) => JobOf(d) \in Jobs \ {JobOf(c)}
  <1>1. call'[d] = call[d] BY ActiveFrame DEF FrameStep
  <1>2. Active(d) => JobOf(d) # JobOf(c) BY DEF Inductive, Owned
  <1>3. Active(d) => JobOf(d) \in Jobs BY ActiveFrame
  <1> QED BY <1>1, <1>2, <1>3 DEF JobOf, Active, Attached

\* Such a step keeps the leases.
LEMMA LeaseStepKeeps ==
  ASSUME Inductive, Leases, NEW c \in Calls, CallStep(c), TablesStep(c), NetworksStep(c)
  PROVE  Leases'
  <1> SUFFICES ASSUME crashes' = 0
               PROVE  (LeasesReceipted /\ PassReceipted /\ RejectedBeside /\ NetworksKnown /\ Leased)'
    BY DEF Leases
  <1>1. /\ LeasesReceipted /\ PassReceipted /\ RejectedBeside /\ NetworksKnown /\ Leased
        /\ Active(c) /\ FrameStep(c) /\ rec' = rec
    BY DEF CallStep, Leases
  <1>2. PICK j \in Jobs : j = JobOf(c) BY <1>1, ActiveFrame
  <1>3. /\ JobOf(c)' = j /\ owner[j] = c /\ c # NoCall
    BY <1>1, <1>2, ActiveFrame DEF FrameStep, JobOf
  <1>4. /\ \A k \in Jobs \ {j} : journal'[k] = journal[k] /\ receipts'[k] = receipts[k]
        /\ \A k \in networks' : k \in networks \/ (k = j /\ call[c].pc = "net")
        /\ receipts'[j] # receipts[j] =>
             /\ receipts[j] = NoReceipt /\ receipts'[j] # NoReceipt /\ call'[c].pc \in Over
             /\ receipts'[j].clean \/ (call[c].pc \in Cleaning /\ journal'[j] = journal[j])
    BY <1>2 DEF TablesStep, NetworksStep
  <1>5. \A k \in Jobs : receipts[k] # NoReceipt => receipts'[k] = receipts[k] BY <1>4
  <1>6. LeasesReceipted'
    <2>1. owner'[j] = NoCall => receipts'[j] # NoReceipt BY <1>1, <1>2, <1>3 DEF FrameStep
    <2>2. \A k \in Jobs \ {j} : owner'[k] = owner[k] BY <1>1, <1>2, ActiveFrame DEF FrameStep
    <2> QED BY <1>1, <1>4, <2>1, <2>2 DEF LeasesReceipted
  <1>7. PassReceipted'
    <2>1. rec.jobs \in SUBSET Jobs BY DEF Inductive, TypeOK, RecFrame
    <2> QED BY <1>1, <1>5, <2>1 DEF PassReceipted
  <1>8. RejectedBeside'
    <2>1. ASSUME NEW d \in Calls \ {c}, Active(d)', receipts'[JobOf(d)'] # NoReceipt
          PROVE  CleanReceipt(JobOf(d))'
      <3>1. JobOf(d)' = JobOf(d) /\ Active(d) /\ JobOf(d) \in Jobs \ {j}
        BY <1>1, <1>2, <2>1, OtherCallApart
      <3>2. receipts'[JobOf(d)] = receipts[JobOf(d)] BY <1>4, <3>1
      <3> QED BY <1>1, <2>1, <3>1, <3>2 DEF RejectedBeside, CleanReceipt
    <2>2. ASSUME Active(c)', receipts'[j] # NoReceipt PROVE CleanReceipt(j)'
      <3>1. receipts'[j] = receipts[j]
        BY <1>4, <2>2 DEF Active, Over, Trying, Cleaning, Preparing
      <3> QED BY <1>1, <1>2, <2>2, <3>1 DEF RejectedBeside, CleanReceipt
    <2> QED BY <1>3, <2>1, <2>2 DEF RejectedBeside
  <1>9. NetworksKnown'
    <2>1. call[c].pc = "net" => j \in AllowListed BY <1>2 DEF Inductive, ProxiesAllowListed, Preparing
    <2>2. ASSUME NEW cmd \in abandoned', cmd.op = "net_create"
          PROVE  cmd.job \in AllowListed /\ CleanReceipt(cmd.job)'
      <3>1. CASE cmd \in abandoned
        <4>1. cmd.job \in AllowListed /\ cmd.job \in Jobs /\ CleanReceipt(cmd.job)
          BY <1>1, <2>2, <3>1 DEF NetworksKnown
        <4> QED BY <1>5, <4>1 DEF CleanReceipt
      <3>2. CASE cmd \notin abandoned
        <4>1. /\ cmd.job = j /\ call[c].pc = "net" /\ receipts'[j] # NoReceipt
              /\ receipts'[j] = receipts[j] \/ receipts'[j].clean
          BY <1>2, <2>2, <3>2 DEF NetworksStep
        <4>2. receipts[j] # NoReceipt => receipts[j].clean
          BY <1>1, <1>2 DEF RejectedBeside, CleanReceipt
        <4> QED BY <2>1, <4>1, <4>2 DEF CleanReceipt
      <3> QED BY <3>1, <3>2
    <2> QED BY <1>1, <1>4, <2>1, <2>2 DEF NetworksKnown
  <1>10. Leased'
    <2>1. ASSUME NEW d \in Calls \ {c}, (Attached(d) \/ call[d].pc \in Cleaning)',
                 receipts'[JobOf(d)'] = NoReceipt
          PROVE  HasLease(d)'
      <3>1. call'[d] = call[d] /\ JobOf(d)' = JobOf(d) /\ Attached(d)' = Attached(d)
        BY <1>1, OtherCallApart DEF Attached
      <3>2. Active(d) BY <2>1, <3>1 DEF Active, Attached, Trying
      <3>3. JobOf(d) \in Jobs \ {j} BY <1>1, <1>2, <3>2, OtherCallApart
      <3>4. journal'[JobOf(d)] = journal[JobOf(d)] /\ receipts'[JobOf(d)] = receipts[JobOf(d)]
        BY <1>4, <3>3
      <3>5. HasLease(d) BY <1>1, <2>1, <3>1, <3>4 DEF Leased
      <3> QED BY <3>1, <3>4, <3>5 DEF HasLease
    <2>2. ASSUME (Attached(c) \/ call[c].pc \in Cleaning)', receipts'[JobOf(c)'] = NoReceipt
          PROVE  HasLease(c)'
      BY <1>2, <1>3, <2>2 DEF TablesStep
    <2>3. ASSUME NEW k \in networks', receipts'[k] # NoReceipt, ~receipts'[k].clean
          PROVE  journal'[k] # NoEntry
      <3>1. CASE k = j
        <4>1. receipts'[j] # receipts[j]
          BY <1>1, <1>2, <2>3, <3>1 DEF RejectedBeside, CleanReceipt
        <4>2. receipts[j] = NoReceipt /\ call[c].pc \in Cleaning /\ journal'[j] = journal[j]
          BY <1>4, <2>3, <3>1, <4>1
        <4>3. HasLease(c) BY <1>1, <1>2, <4>2 DEF Leased
        <4> QED BY <1>2, <3>1, <4>2, <4>3 DEF HasLease
      <3>2. CASE k # j
        <4>1. k \in networks /\ k \in Jobs BY <1>1, <1>4, <3>2 DEF NetworksKnown
        <4>2. journal'[k] = journal[k] /\ receipts'[k] = receipts[k] BY <1>4, <3>2, <4>1
        <4> QED BY <1>1, <2>3, <4>1, <4>2 DEF Leased
      <3> QED BY <3>1, <3>2
    <2> QED BY <2>1, <2>2, <2>3 DEF Leased
  <1> QED BY <1>6, <1>7, <1>8, <1>9, <1>10

\* What a command does to the networks.
LEMMA CommandNetworks ==
  ASSUME NEW cmd, Succeeds(cmd) \/ Fails(cmd)
  PROVE  \A k \in networks' : k \in networks \/ (cmd.op = "net_create" /\ k = cmd.job)
  <1>1. CASE UNCHANGED <<networks, containers>> BY <1>1
  <1>2. CASE Effect(cmd) BY <1>2 DEF Effect
  <1> QED BY <1>1, <1>2 DEF Succeeds, Fails, runtime

\* The frame that Put leaves.
LEMMA PutFrame ==
  ASSUME Inductive, NEW c \in Calls, Active(c), NEW pc, NEW o, NEW cl, Put(c, pc, o, cl)
  PROVE  call'[c].pc = pc /\ JobOf(c)' = JobOf(c)
  BY ActiveFrame DEF Put, JobOf

\* A call that goes on without touching the store keeps the lease that it had.
LEMMA StayTables ==
  ASSUME Inductive, Leases, crashes = 0, NEW c \in Calls, Active(c), NEW pc, NEW o, NEW cl,
         Put(c, pc, o, cl), UNCHANGED store,
         pc \in {"verify", "undo_create", "run"} \cup Cleaning => Attached(c) \/ call[c].pc \in Cleaning,
         pc # "create", pc \in {"run", "rm"} => call[c].pc \in {"run", "rm"}
  PROVE  TablesStep(c)
  <1>1. call'[c].pc = pc /\ JobOf(c)' = JobOf(c) BY PutFrame
  <1>2. UNCHANGED <<receipts, journal>> BY DEF store
  <1>3. ASSUME Attached(c)' \/ call'[c].pc \in Cleaning, receipts'[JobOf(c)] = NoReceipt
        PROVE  HasLease(c)'
    <2>1. Attached(c) \/ call[c].pc \in Cleaning BY <1>1, <1>3 DEF Attached
    <2>2. HasLease(c) BY <1>2, <1>3, <2>1 DEF Leases, Leased
    <2> QED BY <1>1, <1>2, <2>2 DEF HasLease
  <1> QED BY <1>2, <1>3 DEF TablesStep

\* record_active() gives a call its lease.
LEMMA RecordTables ==
  ASSUME Inductive, NEW c \in Calls, Active(c), NEW pc \in {"create", "run"}, NEW o, NEW cl,
         Put(c, pc, o, cl), NEW has \in BOOLEAN, pc = "run" => has, RecordActive(c, has), UNCHANGED receipts
  PROVE  TablesStep(c)
  <1>1. call'[c].pc = pc /\ JobOf(c)' = JobOf(c) BY PutFrame
  <1>2. PICK j \in Jobs : j = JobOf(c) BY ActiveFrame
  <1>3. journal \in [Jobs -> Lease \cup {NoEntry}] BY DEF Inductive, TypeOK
  <1>4. [by |-> c, container |-> has] \in Lease BY DEF Lease
  <1>5. journal' = [journal EXCEPT ![j] = [by |-> c, container |-> has]] BY <1>2 DEF RecordActive
  <1>6. /\ journal'[j] # NoEntry /\ journal'[j].by = c /\ journal'[j].container = has
        /\ \A k \in Jobs \ {j} : journal'[k] = journal[k]
    BY <1>3, <1>4, <1>5
  <1>7. HasLease(c)' BY <1>1, <1>2, <1>6 DEF HasLease
  <1> QED BY <1>2, <1>6, <1>7 DEF TablesStep

\* finalize() changes the rows of one job only, and clears its lease only with a clean receipt.
LEMMA FinalizeTables ==
  ASSUME Inductive, NEW c \in Calls, NEW j \in Jobs, NEW state \in States, NEW clean \in BOOLEAN,
         state = "completed" => clean, Finalize(c, j, state, clean)
  PROVE  /\ \A k \in Jobs \ {j} : journal'[k] = journal[k] /\ receipts'[k] = receipts[k]
         /\ receipts'[j] # NoReceipt
         /\ receipts[j] # NoReceipt => UNCHANGED <<receipts, journal>>
         /\ receipts[j] = NoReceipt => receipts'[j].clean = clean /\ (clean \/ UNCHANGED journal)
  <1>1. journal \in [Jobs -> Lease \cup {NoEntry}] /\ receipts \in [Jobs -> Receipt \cup {NoReceipt}]
    BY DEF Inductive, TypeOK
  <1>2. CASE receipts[j] # NoReceipt BY <1>2 DEF Finalize, store
  <1>3. CASE receipts[j] = NoReceipt
    <2> DEFINE r == [by |-> c, state |-> state, clean |-> clean]
    <2>1. r \in Receipt /\ r.clean = clean BY DEF Receipt
    <2>2. receipts' = [receipts EXCEPT ![j] = r] BY <1>3 DEF Finalize
    <2>3. journal' = IF clean THEN [journal EXCEPT ![j] = NoEntry] ELSE journal BY <1>3 DEF Finalize
    <2> HIDE DEF r
    <2>4. receipts'[j] = r /\ \A k \in Jobs \ {j} : receipts'[k] = receipts[k] BY <1>1, <2>2
    <2>5. \A k \in Jobs \ {j} : journal'[k] = journal[k] BY <1>1, <2>3
    <2> QED BY <1>3, <2>1, <2>3, <2>4, <2>5
  <1> QED BY <1>2, <1>3

\* The end of execute().
LEMMA SettleTables ==
  ASSUME Inductive, NEW c \in Calls, Active(c), NEW o \in Outcomes, NEW cl \in BOOLEAN,
         cl \/ call[c].pc \in Cleaning, Settle(c, o, cl)
  PROVE  /\ TablesStep(c) /\ receipts'[JobOf(c)] # NoReceipt
         /\ cl => receipts'[JobOf(c)] = receipts[JobOf(c)] \/ receipts'[JobOf(c)].clean
  <1>1. PICK j \in Jobs : j = JobOf(c) BY ActiveFrame
  <1>2. Verdict(o, cl) \in States /\ (Verdict(o, cl) = "completed" => cl)
    BY DEF Verdict, Outcomes, States
  <1>3. Finalize(c, j, Verdict(o, cl), cl) BY <1>1 DEF Settle
  <1>4. /\ \A k \in Jobs \ {j} : journal'[k] = journal[k] /\ receipts'[k] = receipts[k]
        /\ receipts'[j] # NoReceipt
        /\ receipts[j] # NoReceipt => UNCHANGED <<receipts, journal>>
        /\ receipts[j] = NoReceipt => receipts'[j].clean = cl /\ (cl \/ UNCHANGED journal)
    BY <1>2, <1>3, FinalizeTables
  <1>5. call'[c].pc \in Over
    <2>1. PICK end \in {"returned", "raised"} : Put(c, end, o, cl) BY DEF Settle
    <2> QED BY <2>1, PutFrame DEF Over
  <1> QED BY <1>1, <1>4, <1>5 DEF TablesStep

\* Leaving the try block.
LEMMA UnwindTables ==
  ASSUME Inductive, Leases, crashes = 0, NEW c \in Calls, Active(c), NEW o \in Outcomes,
         NEW has \in BOOLEAN, NEW att \in BOOLEAN, has => call[c].pc = "run", att => Attached(c),
         Unwind(c, o, has, att)
  PROVE  /\ TablesStep(c)
         /\ ~has /\ ~att => /\ receipts'[JobOf(c)] # NoReceipt
                            /\ receipts'[JobOf(c)] = receipts[JobOf(c)] \/ receipts'[JobOf(c)].clean
  <1>1. CASE has /\ Put(c, "rm", o, call[c].clean) /\ UNCHANGED <<store, owner>>
    <2>1. Attached(c) /\ call[c].pc = "run" BY <1>1 DEF Attached
    <2> QED BY <1>1, <2>1, StayTables
  <1>2. CASE ~has /\ att /\ Put(c, "rm_proxy", o, call[c].clean) /\ UNCHANGED <<store, owner>>
    BY <1>2, StayTables
  <1>3. CASE ~has /\ Settle(c, o, TRUE) BY <1>3, SettleTables
  <1> QED BY <1>1, <1>2, <1>3 DEF Unwind

\* A step that awaits a command and abandons none.
LEMMA AwaitedNetworks ==
  ASSUME NEW c \in Calls, NEW cmd, Succeeds(cmd) \/ Fails(cmd), UNCHANGED callFrame,
         cmd.op = "net_create" => cmd.job = JobOf(c) /\ call[c].pc = "net"
  PROVE  NetworksStep(c)
  BY CommandNetworks DEF NetworksStep, callFrame

\* A step that leaves networks and late commands alone.
LEMMA StillNetworks ==
  ASSUME NEW c \in Calls, UNCHANGED <<networks, abandoned>> PROVE NetworksStep(c)
  BY DEF NetworksStep

\* prepare() journals a lease only when its network is ready.
LEMMA PrepareNetworkLeases ==
  ASSUME Inductive, Leases, crashes = 0, NEW c \in Calls, PrepareNetwork(c)
  PROVE  TablesStep(c) /\ NetworksStep(c)
  <1>1. /\ Active(c) /\ UNCHANGED callFrame /\ call[c].clean \in BOOLEAN /\ "failed" \in Outcomes
        /\ ~Attached(c) /\ call[c].pc \notin Cleaning
    <2>1. Active(c) BY DEF PrepareNetwork, Active, Trying, Preparing
    <2> QED BY <2>1, ActiveFrame DEF PrepareNetwork, Attached, Cleaning, Outcomes
  <1>2. ASSUME NEW pc \in {"proxy", "link", "undo_proxy", "undo_net"}, Goto(c, pc), UNCHANGED store
        PROVE  TablesStep(c)
    <2>1. pc \notin {"verify", "undo_create", "run"} \cup Cleaning /\ pc \notin {"create", "run", "rm"}
      BY DEF Cleaning
    <2> QED BY <1>1, <1>2, <2>1, StayTables DEF Goto
  <1>3. CASE /\ call[c].pc = "net"
             /\ \/ Succeeds(NetCreate(JobOf(c))) /\ Goto(c, "proxy")
                \/ Fails(NetCreate(JobOf(c))) /\ Goto(c, "undo_net")
             /\ UNCHANGED <<store, owner>>
    <2>1. NetCreate(JobOf(c)).job = JobOf(c) BY DEF NetCreate
    <2> QED BY <1>1, <1>2, <1>3, <2>1, AwaitedNetworks
  <1>4. CASE /\ \/ Succeeds(Create("proxy", c)) /\ Goto(c, "link")
                \/ Fails(Create("proxy", c)) /\ Goto(c, "undo_net")
             /\ UNCHANGED <<store, owner>>
    <2>1. Create("proxy", c).op # "net_create" BY DEF Create
    <2> QED BY <1>1, <1>2, <1>4, <2>1, AwaitedNetworks
  <1>5. CASE /\ UNCHANGED <<runtime, receipts, owner>>
             /\ \/ Goto(c, "create") /\ RecordActive(c, FALSE) /\ UNCHANGED faults
                \/ /\ faults < MaxFaults /\ faults' = faults + 1
                   /\ Goto(c, "undo_proxy") /\ UNCHANGED journal
    <2>1. NetworksStep(c) BY <1>1, <1>5, StillNetworks DEF runtime, callFrame
    <2>2. CASE Goto(c, "create") /\ RecordActive(c, FALSE)
      BY <1>1, <1>5, <2>1, <2>2, RecordTables DEF Goto
    <2>3. CASE Goto(c, "undo_proxy") /\ UNCHANGED journal BY <1>2, <1>5, <2>1, <2>3 DEF store
    <2> QED BY <1>5, <2>2, <2>3
  <1>6. CASE /\ Succeeds(Rm("proxy", c)) \/ Fails(Rm("proxy", c))
             /\ Goto(c, "undo_net") /\ UNCHANGED <<store, owner>>
    <2>1. Rm("proxy", c).op # "net_create" BY DEF Rm, RmId
    <2> QED BY <1>1, <1>2, <1>6, <2>1, AwaitedNetworks
  <1>7. CASE /\ Succeeds(NetRm(JobOf(c))) \/ Fails(NetRm(JobOf(c)))
             /\ Unwind(c, "failed", FALSE, FALSE)
    <2>1. NetRm(JobOf(c)).op # "net_create" BY DEF NetRm
    <2> QED BY <1>1, <1>7, <2>1, AwaitedNetworks, UnwindTables
  <1> QED BY <1>3, <1>4, <1>5, <1>6, <1>7 DEF PrepareNetwork

\* create() and its failures keep the lease, and complete it with the container's id.
LEMMA CreateContainerLeases ==
  ASSUME Inductive, Leases, crashes = 0, NEW c \in Calls, CreateContainer(c)
  PROVE  TablesStep(c) /\ NetworksStep(c)
  <1>1. /\ Active(c) /\ UNCHANGED callFrame /\ call[c].clean \in BOOLEAN /\ "failed" \in Outcomes
        /\ Attached(c)
    <2>1. Active(c) BY DEF CreateContainer, Active, Trying
    <2> QED BY <2>1, ActiveFrame DEF CreateContainer, Attached, Outcomes
  <1>2. ASSUME NEW pc \in {"verify", "undo_create"}, Goto(c, pc), UNCHANGED store
        PROVE  TablesStep(c)
    BY <1>1, <1>2, StayTables DEF Goto
  <1>3. ASSUME Unwind(c, "failed", FALSE, TRUE) PROVE TablesStep(c)
    BY <1>1, <1>3, UnwindTables
  <1>4. CASE \/ Succeeds(Create("job", c)) /\ Goto(c, "verify") /\ UNCHANGED <<store, owner>>
             \/ Fails(Create("job", c)) /\ Unwind(c, "failed", FALSE, TRUE)
    <2>1. Create("job", c).op # "net_create" BY DEF Create
    <2> QED BY <1>1, <1>2, <1>3, <1>4, <2>1, AwaitedNetworks
  <1>5. CASE /\ UNCHANGED <<runtime, receipts, owner>>
             /\ \/ Goto(c, "run") /\ RecordActive(c, TRUE) /\ UNCHANGED faults
                \/ /\ faults < MaxFaults /\ faults' = faults + 1
                   /\ Goto(c, "undo_create") /\ UNCHANGED journal
    <2>1. NetworksStep(c) BY <1>1, <1>5, StillNetworks DEF runtime, callFrame
    <2>2. CASE Goto(c, "run") /\ RecordActive(c, TRUE)
      BY <1>1, <1>5, <2>1, <2>2, RecordTables DEF Goto
    <2>3. CASE Goto(c, "undo_create") /\ UNCHANGED journal BY <1>2, <1>5, <2>1, <2>3 DEF store
    <2> QED BY <1>5, <2>2, <2>3
  <1>6. CASE /\ Succeeds(Rm("job", c)) \/ Fails(Rm("job", c))
             /\ Unwind(c, "failed", FALSE, TRUE)
    <2>1. Rm("job", c).op # "net_create" BY DEF Rm, RmId
    <2> QED BY <1>1, <1>3, <1>6, <2>1, AwaitedNetworks
  <1> QED BY <1>4, <1>5, <1>6 DEF CreateContainer

\* The end of a run keeps the lease.
LEMMA RunLeases ==
  ASSUME Inductive, Leases, crashes = 0, NEW c \in Calls, Run(c)
  PROVE  TablesStep(c) /\ NetworksStep(c)
  <1>1. Active(c) /\ Attached(c) /\ call[c].pc = "run" BY DEF Run, Active, Trying, Attached
  <1>2. PICK o \in Outcomes : Unwind(c, o, TRUE, TRUE) BY DEF Run
  <1>3. TablesStep(c) BY <1>1, <1>2, UnwindTables
  <1> QED BY <1>3, StillNetworks DEF Run, runtime, callFrame

\* The finally block keeps the lease until the receipt.
LEMMA CleanupLeases ==
  ASSUME Inductive, Leases, crashes = 0, NEW c \in Calls, CleanupContainer(c) \/ CleanupNetwork(c)
  PROVE  TablesStep(c) /\ NetworksStep(c)
  <1>1. /\ Active(c) /\ UNCHANGED callFrame /\ call[c].clean \in BOOLEAN /\ call[c].outcome \in Outcomes
        /\ call[c].pc \in Cleaning
    <2>1. call[c].pc \in Cleaning BY DEF CleanupContainer, CleanupNetwork, Cleaning
    <2>2. Active(c) BY <2>1 DEF Active
    <2> QED BY <2>1, <2>2, ActiveFrame DEF CleanupContainer, CleanupNetwork
  <1>2. PICK cmd \in {Rm("job", c), Rm("proxy", c), NetRm(JobOf(c))} : Succeeds(cmd) \/ Fails(cmd)
    BY DEF CleanupContainer, CleanupNetwork
  <1>3. cmd.op # "net_create" BY DEF Rm, RmId, NetRm
  <1>4. NetworksStep(c) BY <1>1, <1>2, <1>3, AwaitedNetworks
  <1>5. \/ \E pc \in {"rm_proxy", "rm_net"}, cl \in BOOLEAN :
             Put(c, pc, call[c].outcome, cl) /\ UNCHANGED store
        \/ \E cl \in BOOLEAN : Settle(c, call[c].outcome, cl)
    BY <1>1 DEF CleanupContainer, CleanupNetwork, Tally
  <1>6. ASSUME NEW pc \in {"rm_proxy", "rm_net"}, NEW cl \in BOOLEAN,
               Put(c, pc, call[c].outcome, cl), UNCHANGED store
        PROVE  TablesStep(c)
    BY <1>1, <1>6, StayTables
  <1>7. ASSUME NEW cl \in BOOLEAN, Settle(c, call[c].outcome, cl) PROVE TablesStep(c)
    BY <1>1, <1>7, SettleTables
  <1> QED BY <1>4, <1>5, <1>6, <1>7

\* So does a cancellation of the task; in the finally block it leaves the lease behind.
LEMMA CancelTaskLeases ==
  ASSUME Inductive, Leases, crashes = 0, NEW c \in Calls, CancelTask(c)
  PROVE  TablesStep(c) /\ NetworksStep(c)
  <1>1. /\ Active(c) /\ abandoned' = abandoned \cup InFlight(c) /\ networks' = networks
    BY DEF CancelTask, runtime
  <1>2. CASE call[c].pc \in Cleaning /\ Goto(c, "escaped") /\ UNCHANGED store
    <2>1. "escaped" \notin {"verify", "undo_create", "run"} \cup Cleaning BY DEF Cleaning
    <2>2. TablesStep(c) BY <1>1, <1>2, <2>1, StayTables DEF Goto
    <2>3. \A cmd \in InFlight(c) : cmd.op # "net_create"
      BY <1>2 DEF InFlight, Cleaning, Rm, RmId, NetRm
    <2> QED BY <1>1, <2>2, <2>3 DEF NetworksStep
  <1>3. CASE call[c].pc \in Trying /\ Unwind(c, "cancelled", call[c].pc = "run", Attached(c))
    <2> DEFINE has == call[c].pc = "run"
               att == Attached(c)
    <2>1. /\ "cancelled" \in Outcomes /\ has \in BOOLEAN /\ att \in BOOLEAN
          /\ Unwind(c, "cancelled", has, att)
          /\ (has => call[c].pc = "run") /\ (att => Attached(c))
          /\ (call[c].pc = "net" => ~has /\ ~att)
      BY <1>3 DEF Outcomes, Attached
    <2> HIDE DEF has, att
    <2>2. /\ TablesStep(c)
          /\ ~has /\ ~att => /\ receipts'[JobOf(c)] # NoReceipt
                             /\ receipts'[JobOf(c)] = receipts[JobOf(c)] \/ receipts'[JobOf(c)].clean
      BY <1>1, <2>1, UnwindTables
    <2>3. \A cmd \in InFlight(c) : cmd.op = "net_create" => cmd.job = JobOf(c) /\ call[c].pc = "net"
      BY DEF InFlight, Rm, RmId, NetRm, Create, NetCreate
    <2> QED BY <1>1, <2>1, <2>2, <2>3 DEF NetworksStep
  <1> QED BY <1>2, <1>3 DEF CancelTask

\* A step of the service that works on a call keeps the leases.
LEMMA WorkLeases ==
  ASSUME Inductive, Leases, NEW c \in Calls, Work(c) \/ CancelTask(c)
  PROVE  Leases'
  <1>1. CallStep(c) BY WorkStep
  <1>2. CASE crashes # 0 BY <1>1, <1>2 DEF CallStep, Leases
  <1>3. CASE crashes = 0
    <2>1. TablesStep(c) /\ NetworksStep(c)
      BY <1>3, PrepareNetworkLeases, CreateContainerLeases, RunLeases, CleanupLeases,
         CancelTaskLeases DEF Work
    <2> QED BY <1>1, <2>1, LeaseStepKeeps
  <1> QED BY <1>2, <1>3

\* A step that leaves calls and receipts alone keeps them if it clears leases of receipted
\* jobs without a network only, and makes networks for clean jobs only.
LEMMA OutsideLeases ==
  ASSUME Inductive, Leases, UNCHANGED <<receipts, owner, call, crashes>>,
         abandoned' \subseteq abandoned,
         \A k \in networks' : k \in networks \/ (k \in AllowListed /\ CleanReceipt(k)),
         \A k \in Jobs : \/ journal'[k] = journal[k]
                         \/ journal'[k] = NoEntry /\ receipts[k] # NoReceipt /\ k \notin networks',
         crashes = 0 => PassReceipted'
  PROVE  Leases'
  <1> SUFFICES ASSUME crashes = 0
               PROVE  (LeasesReceipted /\ PassReceipted /\ RejectedBeside /\ NetworksKnown /\ Leased)'
    BY DEF Leases
  <1>1. LeasesReceipted /\ PassReceipted /\ RejectedBeside /\ NetworksKnown /\ Leased BY DEF Leases
  <1>2. LeasesReceipted' BY <1>1 DEF LeasesReceipted
  <1>3. RejectedBeside' BY <1>1 DEF RejectedBeside, Active, JobOf, CleanReceipt
  <1>4. NetworksKnown' BY <1>1 DEF NetworksKnown, CleanReceipt
  <1>5. Leased'
    <2>1. ASSUME NEW c \in Calls, (Attached(c) \/ call[c].pc \in Cleaning)',
                 receipts'[JobOf(c)'] = NoReceipt
          PROVE  HasLease(c)'
      <3>1. /\ Attached(c) \/ call[c].pc \in Cleaning
            /\ JobOf(c)' = JobOf(c) /\ receipts[JobOf(c)] = NoReceipt
        BY <2>1 DEF Attached, JobOf
      <3>2. HasLease(c) BY <1>1, <3>1 DEF Leased
      <3>3. Active(c) BY <3>1 DEF Active, Attached, Trying
      <3>4. JobOf(c) \in Jobs BY <3>3, ActiveFrame
      <3>5. journal'[JobOf(c)] = journal[JobOf(c)] BY <3>1, <3>4
      <3> QED BY <3>1, <3>2, <3>5 DEF HasLease
    <2>2. ASSUME NEW k \in networks', receipts'[k] # NoReceipt, ~receipts'[k].clean
          PROVE  journal'[k] # NoEntry
      <3>1. k \in networks BY <2>2 DEF CleanReceipt
      <3>2. journal[k] # NoEntry /\ k \in Jobs BY <1>1, <2>2, <3>1 DEF Leased, NetworksKnown
      <3> QED BY <2>2, <3>2
    <2> QED BY <2>1, <2>2 DEF Leased
  <1> QED BY <1>1, <1>2, <1>3, <1>4, <1>5

\* A call that begins has no lease of its own to keep.
LEMMA EnterLeases ==
  ASSUME Inductive, Leases, NEW c \in Calls, NEW j \in Jobs, call[c].pc = "idle",
         NEW pc \in Over, Enter(c, j, pc),
         UNCHANGED <<owner, runtime, abandoned, rec, crashes>>,
         \A k \in Jobs \ {j} : journal'[k] = journal[k] /\ receipts'[k] = receipts[k],
         \/ UNCHANGED store
         \/ receipts[j] = NoReceipt /\ CleanReceipt(j)'
  PROVE  Leases'
  <1> SUFFICES ASSUME crashes = 0
               PROVE  (LeasesReceipted /\ PassReceipted /\ RejectedBeside /\ NetworksKnown /\ Leased)'
    BY DEF Leases
  <1>1. LeasesReceipted /\ PassReceipted /\ RejectedBeside /\ NetworksKnown /\ Leased BY DEF Leases
  <1>2. /\ call'[c].pc = pc /\ ~Active(c)'
        /\ \A d \in Calls \ {c} : call'[d] = call[d]
    <2>1. call \in [Calls -> Frame] BY DEF Inductive, TypeOK
    <2>2. /\ call' = [call EXCEPT ![c] = [job |-> j, pc |-> pc, outcome |-> "failed", clean |-> TRUE]]
      BY DEF Enter
    <2>3. call'[c].pc = pc /\ \A d \in Calls \ {c} : call'[d] = call[d] BY <2>1, <2>2
    <2> QED BY <2>3 DEF Active, Over, Trying, Preparing, Cleaning
  <1>3. \A k \in Jobs : receipts[k] # NoReceipt => receipts'[k] = receipts[k] BY DEF store
  <1>4. \A k \in Jobs : receipts'[k] # receipts[k] => CleanReceipt(k)' BY DEF store
  <1>5. \A k \in Jobs : journal'[k] # journal[k] => CleanReceipt(k)' BY DEF store
  <1>6. LeasesReceipted' BY <1>1, <1>3, <1>5 DEF LeasesReceipted, CleanReceipt
  <1>7. PassReceipted'
    <2>1. rec.jobs \in SUBSET Jobs BY DEF Inductive, TypeOK, RecFrame
    <2> QED BY <1>1, <1>3, <2>1 DEF PassReceipted
  <1>8. RejectedBeside'
    <2> SUFFICES ASSUME NEW d \in Calls, Active(d)', receipts'[JobOf(d)'] # NoReceipt
                 PROVE  CleanReceipt(JobOf(d))'
      BY DEF RejectedBeside
    <2>1. d # c /\ Active(d) /\ JobOf(d)' = JobOf(d) BY <1>2 DEF Active, JobOf
    <2>2. JobOf(d) \in Jobs BY <2>1, ActiveFrame
    <2>3. CASE receipts'[JobOf(d)] # receipts[JobOf(d)] BY <1>4, <2>1, <2>2, <2>3 DEF CleanReceipt
    <2>4. CASE receipts'[JobOf(d)] = receipts[JobOf(d)]
      BY <1>1, <2>1, <2>4 DEF RejectedBeside, CleanReceipt
    <2> QED BY <2>3, <2>4
  <1>9. NetworksKnown'
    <2>1. \A cmd \in abandoned : cmd.op = "net_create" => cmd.job \in Jobs /\ CleanReceipt(cmd.job)
      BY <1>1 DEF NetworksKnown
    <2> QED BY <1>1, <1>3, <2>1 DEF NetworksKnown, CleanReceipt, runtime
  <1>10. Leased'
    <2>1. ASSUME NEW d \in Calls, (Attached(d) \/ call[d].pc \in Cleaning)',
                 receipts'[JobOf(d)'] = NoReceipt
          PROVE  HasLease(d)'
      <3>1. Active(d)' BY <2>1 DEF Active, Attached, Trying
      <3>2. d # c /\ call'[d] = call[d] /\ JobOf(d)' = JobOf(d) BY <1>2, <3>1 DEF JobOf
      <3>3. (Attached(d) \/ call[d].pc \in Cleaning) /\ Active(d) BY <2>1, <3>1, <3>2 DEF Attached, Active
      <3>4. JobOf(d) \in Jobs BY <3>3, ActiveFrame
      <3>5. receipts[JobOf(d)] = NoReceipt BY <1>3, <2>1, <3>2, <3>4
      <3>6. journal'[JobOf(d)] = journal[JobOf(d)]
        BY <1>5, <2>1, <3>2, <3>4 DEF CleanReceipt
      <3>7. HasLease(d) BY <1>1, <3>3, <3>5 DEF Leased
      <3> QED BY <3>2, <3>6, <3>7 DEF HasLease
    <2>2. ASSUME NEW k \in networks', receipts'[k] # NoReceipt, ~receipts'[k].clean
          PROVE  journal'[k] # NoEntry
      <3>1. k \in networks /\ k \in Jobs BY <1>1, <2>2 DEF NetworksKnown, runtime
      <3>2. receipts'[k] = receipts[k] /\ journal'[k] = journal[k]
        BY <1>4, <1>5, <2>2, <3>1 DEF CleanReceipt
      <3> QED BY <1>1, <2>2, <3>1, <3>2 DEF Leased
    <2> QED BY <2>1, <2>2 DEF Leased
  <1> QED BY <1>6, <1>7, <1>8, <1>9, <1>10

\* An admitted call starts with its lease, or with its network still to prepare.
LEMMA SubmitLeases ==
  ASSUME Inductive, Leases, NEW c \in Calls, NEW j \in Jobs, Submit(c, j)
  PROVE  Leases'
  <1> DEFINE pc == IF j \in AllowListed THEN "net" ELSE "create"
             lease == [by |-> c, container |-> FALSE]
  <1> SUFFICES ASSUME crashes' = 0
               PROVE  (LeasesReceipted /\ PassReceipted /\ RejectedBeside /\ NetworksKnown /\ Leased)'
    BY DEF Leases
  <1>1. LeasesReceipted /\ PassReceipted /\ RejectedBeside /\ NetworksKnown /\ Leased
    BY DEF Leases, Submit
  <1>2. /\ UNCHANGED <<receipts, networks, abandoned, rec>>
        /\ call[c].pc = "idle" /\ owner[j] = NoCall /\ receipts[j] = NoReceipt
        /\ owner' = [owner EXCEPT ![j] = c] /\ c # NoCall
    BY DEF Submit, Admissible, runtime
  <1>3. /\ call'[c].pc = pc /\ JobOf(c)' = j
        /\ \A d \in Calls \ {c} : call'[d] = call[d]
    <2>1. call \in [Calls -> Frame] BY DEF Inductive, TypeOK
    <2>2. call' = [call EXCEPT ![c] = [job |-> j, pc |-> pc, outcome |-> "failed", clean |-> TRUE]]
      BY DEF Submit, Enter
    <2> HIDE DEF pc
    <2> QED BY <2>1, <2>2 DEF JobOf
  <1>4. /\ \A k \in Jobs \ {j} : journal'[k] = journal[k] /\ owner'[k] = owner[k]
        /\ owner'[j] = c
        /\ j \notin AllowListed => journal'[j] = lease
    <2>1. journal \in [Jobs -> Lease \cup {NoEntry}] /\ owner \in [Jobs -> Calls \cup {NoCall}]
      BY DEF Inductive, TypeOK
    <2>2. journal' = IF j \in AllowListed THEN journal ELSE [journal EXCEPT ![j] = lease]
      BY DEF Submit
    <2> HIDE DEF lease
    <2> QED BY <1>2, <2>1, <2>2
  <1>5. ASSUME NEW d \in Calls \ {c}, Active(d)'
        PROVE  Active(d) /\ JobOf(d)' = JobOf(d) /\ JobOf(d) \in Jobs \ {j}
    <2>1. Active(d) /\ JobOf(d)' = JobOf(d) BY <1>3, <1>5 DEF Active, JobOf
    <2>2. JobOf(d) \in Jobs /\ owner[JobOf(d)] = d BY <2>1, ActiveFrame
    <2>3. d # NoCall OBVIOUS
    <2> QED BY <1>2, <2>1, <2>2, <2>3
  <1>6. LeasesReceipted' BY <1>1, <1>2, <1>4 DEF LeasesReceipted
  <1>7. PassReceipted' BY <1>1, <1>2 DEF PassReceipted
  <1>8. RejectedBeside' BY <1>1, <1>2, <1>3, <1>5 DEF RejectedBeside, CleanReceipt
  <1>9. NetworksKnown' BY <1>1, <1>2 DEF NetworksKnown, CleanReceipt
  <1>10. Leased'
    <2>1. ASSUME NEW d \in Calls \ {c}, (Attached(d) \/ call[d].pc \in Cleaning)',
                 receipts'[JobOf(d)'] = NoReceipt
          PROVE  HasLease(d)'
      <3>1. Active(d)' BY <2>1 DEF Active, Attached, Trying
      <3>2. call'[d] = call[d] /\ JobOf(d)' = JobOf(d) /\ JobOf(d) \in Jobs \ {j}
        BY <1>3, <1>5, <3>1
      <3>3. (Attached(d) \/ call[d].pc \in Cleaning) /\ receipts[JobOf(d)] = NoReceipt
        BY <1>2, <2>1, <3>2 DEF Attached
      <3>4. HasLease(d) BY <1>1, <3>3 DEF Leased
      <3> QED BY <1>4, <3>2, <3>4 DEF HasLease
    <2>2. ASSUME (Attached(c) \/ call[c].pc \in Cleaning)' PROVE HasLease(c)'
      <3>1. call'[c].pc = "create" /\ j \notin AllowListed
        BY <1>3, <2>2 DEF Attached, Cleaning
      <3>2. journal'[j] = lease BY <1>4, <3>1
      <3>3. lease \in Lease /\ lease.by = c BY DEF Lease
      <3> QED BY <1>3, <3>1, <3>2, <3>3 DEF HasLease
    <2>3. ASSUME NEW k \in networks', receipts'[k] # NoReceipt, ~receipts'[k].clean
          PROVE  journal'[k] # NoEntry
      <3>1. k \in networks /\ k \in Jobs \ {j} BY <1>1, <1>2, <2>3 DEF NetworksKnown
      <3> QED BY <1>1, <1>2, <1>4, <2>3, <3>1 DEF Leased
    <2> QED BY <2>1, <2>2, <2>3 DEF Leased
  <1> QED BY <1>6, <1>7, <1>8, <1>9, <1>10

\* From one await of a pass to the next only leases that need none are cleared, and the
\* entry the pass goes on with is one of those it holds.
LEMMA AdvanceLeases ==
  ASSUME Inductive, NEW r \in RecFrame, NEW rows \in [Jobs -> Lease \cup {NoEntry}],
         Advance(r, rows), \A j \in r.jobs : receipts[j] # NoReceipt, receipts' = receipts
  PROVE  /\ PassReceipted'
         /\ \A k \in Jobs : \/ journal'[k] = rows[k]
                            \/ journal'[k] = NoEntry /\ receipts[k] # NoReceipt /\ k \notin AllowListed
  <1>1. PICK now \in SUBSET {j \in r.jobs : ~NeedsAwait(r, j)} :
          /\ journal' = Clear(rows, now)
          /\ \/ \E j \in r.jobs \ now :
                  NeedsAwait(r, j) /\ rec' = BeginEntry([r EXCEPT !.jobs = (r.jobs \ now) \ {j}], j)
             \/ /\ r.jobs \ now = {}
                /\ \/ \E id \in r.orphans :
                        rec' = [r EXCEPT !.pc = "orphan", !.jobs = {}, !.id = id,
                                  !.job = JobOf(id[2]), !.orphans = @ \ {id}]
                   \/ r.orphans = {} /\ rec' = IdleRec
    BY DEF Advance
  <1>2. r.jobs \in SUBSET Jobs BY DEF RecFrame
  <1>3. \A k \in Jobs : \/ journal'[k] = rows[k]
                        \/ journal'[k] = NoEntry /\ receipts[k] # NoReceipt /\ k \notin AllowListed
    BY <1>1 DEF Clear, NeedsAwait
  <1>4. CASE \E j \in r.jobs \ now : rec' = BeginEntry([r EXCEPT !.jobs = (r.jobs \ now) \ {j}], j)
    <2>1. PICK j \in r.jobs \ now : rec' = BeginEntry([r EXCEPT !.jobs = (r.jobs \ now) \ {j}], j)
      BY <1>4
    <2> DEFINE left == (r.jobs \ now) \ {j}
               s == [r EXCEPT !.jobs = left]
    <2>2. left \subseteq r.jobs OBVIOUS
    <2> HIDE DEF left
    <2>3. s.jobs = left /\ rec' = BeginEntry(s, j)
      <3>1. s.jobs = left BY DEF RecFrame
      <3>2. rec' = BeginEntry(s, j) BY <2>1 DEF left
      <3> QED BY <3>1, <3>2
    <2>4. s.lease = r.lease /\ s \in [pc : RecPcs, managed : SUBSET Ids,
             lease : [Jobs -> Lease \cup {NoEntry}],
             jobs : SUBSET Jobs, orphans : SUBSET Ids,
             job : Jobs \cup {NoJob}, id : Ids \cup {NoId}, clean : BOOLEAN]
      BY <1>2, <2>2 DEF RecFrame
    <2> HIDE DEF s
    <2>5. PICK pc, id : rec' = [s EXCEPT !.pc = pc, !.job = j, !.id = id]
      BY <2>3 DEF BeginEntry
    <2>6. rec'.jobs = left /\ rec'.job = j BY <2>3, <2>4, <2>5
    <2> QED BY <1>2, <1>3, <2>2, <2>6 DEF PassReceipted
  <1>5. CASE \E id \in r.orphans :
               rec' = [r EXCEPT !.pc = "orphan", !.jobs = {}, !.id = id,
                         !.job = JobOf(id[2]), !.orphans = @ \ {id}]
    <2>1. rec'.pc = "orphan" /\ rec'.jobs = {} BY <1>5 DEF RecFrame
    <2> QED BY <1>3, <2>1 DEF PassReceipted
  <1>6. CASE rec' = IdleRec BY <1>3, <1>6 DEF IdleRec, PassReceipted
  <1> QED BY <1>1, <1>3, <1>4, <1>5, <1>6

\* A pass clears leases of receipted jobs only, and those of jobs with egress only once
\* their network is gone.
LEMMA ReconcileLeases ==
  ASSUME Inductive, Leases, Reconcile
  PROVE  Leases'
  <1>1. CASE crashes # 0
    BY <1>1 DEF Leases, Reconcile, ReconcileList, ReconcileSnapshot, ReconcileRemove,
       ReconcileNetwork, ReconcileOrphan, recRest
  <1>2. CASE crashes = 0
    <2>1. UNCHANGED recRest
      BY DEF Reconcile, ReconcileList, ReconcileSnapshot, ReconcileRemove, ReconcileNetwork,
         ReconcileOrphan
    <2>2. LeasesReceipted /\ PassReceipted /\ NetworksKnown BY <1>2 DEF Leases
    <2>3. /\ rec \in RecFrame /\ journal \in [Jobs -> Lease \cup {NoEntry}]
          /\ rec.jobs \in SUBSET Jobs /\ \A j \in rec.jobs : receipts[j] # NoReceipt
          /\ rec.pc \in {"rm", "rm_proxy", "rm_net"} =>
               rec.job \in Jobs /\ receipts[rec.job] # NoReceipt
      BY <2>2 DEF Inductive, TypeOK, RecFrame, PassReceipted
    <2>4. Cleared \in [Jobs -> Lease \cup {NoEntry}] BY <2>3 DEF Cleared, Clear
    <2>5. ASSUME NEW rows \in [Jobs -> Lease \cup {NoEntry}], Advance(rec, rows)
          PROVE  /\ PassReceipted'
                 /\ \A k \in Jobs : \/ journal'[k] = rows[k]
                                    \/ /\ journal'[k] = NoEntry
                                       /\ receipts[k] # NoReceipt /\ k \notin AllowListed
      BY <2>1, <2>3, <2>5, AdvanceLeases DEF recRest
    <2>6. ASSUME NEW cmd, Succeeds(cmd) \/ Fails(cmd), cmd.op # "net_create"
          PROVE  \A k \in networks' : k \in networks
      BY <2>6, CommandNetworks
    <2>7. RmId(rec.id, rec.job).op # "net_create" /\ NetRm(rec.job).op # "net_create"
      BY DEF RmId, NetRm
    <2>8. ASSUME \A k \in networks' : k \in networks, PassReceipted',
                 \A k \in Jobs : \/ journal'[k] = journal[k]
                                 \/ /\ journal'[k] = NoEntry
                                    /\ receipts[k] # NoReceipt /\ k \notin networks'
          PROVE  Leases'
      BY <2>1, <2>8, OutsideLeases DEF recRest
    <2>9. \A k \in networks : k \in AllowListed BY <2>2 DEF NetworksKnown
    <2>10. CASE ReconcileList
      <3>1. rec'.pc = "listing" /\ rec'.jobs = rec.jobs /\ UNCHANGED <<journal, networks>>
        BY <2>3, <2>10 DEF ReconcileList, runtime, RecFrame
      <3>2. PassReceipted' BY <2>1, <2>3, <3>1 DEF PassReceipted, recRest
      <3> QED BY <2>8, <3>1, <3>2
    <2>11. CASE ReconcileSnapshot
      <3> DEFINE journaled == {j \in Jobs : journal[j] # NoEntry}
                 known == {<<"job", journal[j].by>> : j \in {k \in journaled : journal[k].container}}
                 os == rec.managed \ known
                 js == {j \in journaled : owner[j] = NoCall}
                 r == [rec EXCEPT !.lease = journal, !.orphans = os, !.jobs = js]
      <3>1. Advance(r, journal) BY <2>11 DEF ReconcileSnapshot
      <3>2. os \in SUBSET Ids /\ js \in SUBSET Jobs /\ \A j \in js : receipts[j] # NoReceipt
        BY <2>2, <2>3 DEF RecFrame, LeasesReceipted
      <3> HIDE DEF os, js, known, journaled
      <3>3. r \in RecFrame /\ r.jobs = js BY <2>3, <3>2 DEF RecFrame
      <3> HIDE DEF r
      <3>4. /\ PassReceipted'
            /\ \A k \in Jobs : \/ journal'[k] = journal[k]
                               \/ /\ journal'[k] = NoEntry
                                  /\ receipts[k] # NoReceipt /\ k \notin AllowListed
        BY <2>1, <2>3, <3>1, <3>2, <3>3, AdvanceLeases DEF recRest
      <3>5. networks' = networks BY <2>11 DEF ReconcileSnapshot, runtime
      <3> QED BY <2>8, <2>9, <3>4, <3>5
    <2>12. CASE ReconcileRemove
      <3> DEFINE cmd == RmId(rec.id, rec.job)
                 proxy == [rec EXCEPT !.pc = "rm_proxy", !.id = <<"proxy", @[2]>>]
      <3>1. \A k \in networks' : k \in networks
        BY <2>6, <2>7, <2>12 DEF ReconcileRemove
      <3>2. \/ rec' = proxy /\ UNCHANGED journal
            \/ rec.job \notin AllowListed /\ Advance(rec, Cleared)
            \/ Advance(rec, journal)
        BY <2>12 DEF ReconcileRemove
      <3>3. CASE rec' = proxy /\ UNCHANGED journal
        <4>1. rec'.jobs = rec.jobs /\ rec'.job = rec.job /\ rec'.pc = "rm_proxy"
          BY <2>3, <3>3 DEF RecFrame
        <4>2. rec.pc = "rm" BY <2>12 DEF ReconcileRemove
        <4>3. PassReceipted' BY <2>1, <2>3, <4>1, <4>2 DEF PassReceipted, recRest
        <4> QED BY <2>8, <3>1, <3>3, <4>3
      <3>4. CASE rec.job \notin AllowListed /\ Advance(rec, Cleared)
        <4>1. /\ PassReceipted'
              /\ \A k \in Jobs : \/ journal'[k] = Cleared[k]
                                 \/ /\ journal'[k] = NoEntry
                                    /\ receipts[k] # NoReceipt /\ k \notin AllowListed
          BY <2>4, <2>5, <3>4
        <4>2. \A k \in Jobs : Cleared[k] = IF k = rec.job THEN NoEntry ELSE journal[k]
          BY DEF Cleared, Clear
        <4>3. receipts[rec.job] # NoReceipt BY <2>3, <2>12 DEF ReconcileRemove
        <4> QED BY <2>8, <2>9, <3>1, <3>4, <4>1, <4>2, <4>3
      <3>5. CASE Advance(rec, journal) BY <2>3, <2>5, <2>8, <2>9, <3>1, <3>5
      <3> QED BY <3>2, <3>3, <3>4, <3>5
    <2>13. CASE /\ rec.pc = "rm_proxy"
                /\ \E ok \in BOOLEAN :
                     /\ IF ok THEN Succeeds(RmId(rec.id, rec.job)) ELSE Fails(RmId(rec.id, rec.job))
                     /\ rec' = [rec EXCEPT !.pc = "rm_net", !.clean = ok]
                /\ UNCHANGED journal
      <3>1. PICK ok \in BOOLEAN :
              /\ IF ok THEN Succeeds(RmId(rec.id, rec.job)) ELSE Fails(RmId(rec.id, rec.job))
              /\ rec' = [rec EXCEPT !.pc = "rm_net", !.clean = ok]
        BY <2>13
      <3>2. rec'.pc = "rm_net" /\ rec'.jobs = rec.jobs /\ rec'.job = rec.job
        BY <2>3, <3>1 DEF RecFrame
      <3>3. PassReceipted' BY <2>1, <2>3, <2>13, <3>2 DEF PassReceipted, recRest
      <3>4. \A k \in networks' : k \in networks BY <2>6, <2>7, <3>1
      <3> QED BY <2>8, <2>13, <3>3, <3>4
    <2>14. CASE /\ rec.pc = "rm_net"
                /\ \/ /\ Succeeds(NetRm(rec.job))
                      /\ Advance(rec, IF rec.clean THEN Cleared ELSE journal)
                   \/ Fails(NetRm(rec.job)) /\ Advance(rec, journal)
      <3>1. \A k \in networks' : k \in networks BY <2>6, <2>7, <2>14
      <3>2. CASE Advance(rec, journal) BY <2>3, <2>5, <2>8, <2>9, <3>1, <3>2
      <3>3. CASE Succeeds(NetRm(rec.job)) /\ Advance(rec, Cleared)
        <4>1. /\ PassReceipted'
              /\ \A k \in Jobs : \/ journal'[k] = Cleared[k]
                                 \/ /\ journal'[k] = NoEntry
                                    /\ receipts[k] # NoReceipt /\ k \notin AllowListed
          BY <2>4, <2>5, <3>3
        <4>2. \A k \in Jobs : Cleared[k] = IF k = rec.job THEN NoEntry ELSE journal[k]
          BY DEF Cleared, Clear
        <4>3. receipts[rec.job] # NoReceipt BY <2>3, <2>14
        <4>4. rec.job \notin networks' BY <3>3 DEF Succeeds, Effect, NetRm
        <4> QED BY <2>8, <2>9, <3>1, <4>1, <4>2, <4>3, <4>4
      <3> QED BY <2>14, <3>2, <3>3
    <2>15. CASE ReconcileOrphan
      <3>1. \A k \in networks' : k \in networks
        BY <2>6, <2>7, <2>15 DEF ReconcileOrphan
      <3>2. Advance(rec, journal) BY <2>15 DEF ReconcileOrphan
      <3> QED BY <2>3, <2>5, <2>8, <2>9, <3>1, <3>2
    <2> QED BY <2>10, <2>11, <2>12, <2>13, <2>14, <2>15 DEF Reconcile, ReconcileNetwork
  <1> QED BY <1>1, <1>2

\* A new service has no lease.
LEMMA InitLeases == Init => Leases
  <1> SUFFICES ASSUME Init PROVE Leases
    OBVIOUS
  <1>1. LeasesReceipted /\ NetworksKnown BY DEF Init, LeasesReceipted, NetworksKnown
  <1>2. PassReceipted BY DEF Init, PassReceipted, IdleRec
  <1>3. RejectedBeside BY DEF Init, RejectedBeside, Active, Trying, Preparing, Cleaning
  <1>4. Leased BY DEF Init, Leased, Attached, Cleaning
  <1> QED BY <1>1, <1>2, <1>3, <1>4 DEF Leases

\* Every step keeps the leases.
LEMMA NextLeases == Inductive /\ Leases /\ [Next]_vars => Leases'
  <1> SUFFICES ASSUME Inductive, Leases, [Next]_vars PROVE Leases'
    OBVIOUS
  <1>1. ASSUME UNCHANGED <<receipts, journal, owner, call, rec, networks, abandoned, crashes>>
        PROVE  Leases'
    <2>1. crashes = 0 => PassReceipted' BY <1>1 DEF Leases, PassReceipted
    <2> QED BY <1>1, <2>1, OutsideLeases
  <1>2. CASE Start \/ (\E j \in Jobs : Cancel(j)) \/ UNCHANGED vars
    BY <1>1, <1>2 DEF Start, Cancel, vars, store, runtime
  <1>3. ASSUME NEW c \in Calls, NEW j \in Jobs, SubmitRejected(c, j) PROVE Leases'
    <2>1. Finalize(c, j, "rejected", TRUE) BY <1>3 DEF SubmitRejected
    <2>2. /\ \A k \in Jobs \ {j} : journal'[k] = journal[k] /\ receipts'[k] = receipts[k]
          /\ receipts'[j] # NoReceipt
          /\ receipts[j] # NoReceipt => UNCHANGED <<receipts, journal>>
          /\ receipts[j] = NoReceipt => receipts'[j].clean = TRUE
      <3>1. "rejected" \in States BY DEF States
      <3> QED BY <2>1, <3>1, FinalizeTables
    <2>3. PICK pc \in Over : Enter(c, j, pc) BY <1>3 DEF SubmitRejected, Over
    <2> QED BY <1>3, <2>2, <2>3, EnterLeases DEF SubmitRejected, CleanReceipt, store
  <1>4. ASSUME NEW c \in Calls, NEW j \in Jobs, SubmitDuplicate(c, j) PROVE Leases'
    <2>1. Enter(c, j, "refused") /\ "refused" \in Over BY <1>4 DEF SubmitDuplicate, Over
    <2> QED BY <1>4, <2>1, EnterLeases DEF SubmitDuplicate, store
  <1>5. CASE LateEffect
    <2>1. PICK cmd \in abandoned :
            /\ abandoned' = abandoned \ {cmd}
            /\ IF Accepts(cmd) THEN Effect(cmd) ELSE UNCHANGED runtime
            /\ UNCHANGED <<store, owner, cancelSet, call, rec, ready, crashes, faults>>
      BY <1>5 DEF LateEffect
    <2>2. CASE crashes # 0 BY <2>1, <2>2 DEF Leases
    <2>3. CASE crashes = 0
      <3>1. NetworksKnown /\ PassReceipted BY <2>3 DEF Leases
      <3>2. \A k \in networks' : k \in networks \/ (cmd.op = "net_create" /\ k = cmd.job)
        BY <2>1 DEF Effect, runtime
      <3>3. \A k \in networks' : k \in networks \/ (k \in AllowListed /\ CleanReceipt(k))
        BY <3>1, <3>2 DEF NetworksKnown
      <3>4. PassReceipted' BY <2>1, <3>1 DEF PassReceipted, store
      <3> QED BY <2>1, <3>3, <3>4, OutsideLeases DEF store
    <2> QED BY <2>2, <2>3
  <1>6. CASE Crash
    <2>1. crashes' # 0 BY <1>6 DEF Crash, Inductive, TypeOK
    <2> QED BY <2>1 DEF Leases
  <1> QED BY <1>2, <1>3, <1>4, <1>5, <1>6, SubmitLeases, WorkLeases, ReconcileLeases DEF Next

\* From the moment its network is ready until it is receipted, a call's lease is in the
\* journal, and a network whose clean-up failed stays journaled: no other call and no
\* reconcile pass takes a lease away, as long as the process lives.
THEOREM LeasesAreHeld == Spec => []LeaseHeld
  <1>1. Leases => LeaseHeld BY DEF Leases, Leased, LeaseHeld, HasLease
  <1> QED BY InductiveInvariant, InitLeases, NextLeases, <1>1, PTL DEF Spec

=============================================================================
