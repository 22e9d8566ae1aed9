# z-prov, specified in TLA+

z-prov is a provider-neutral LLM gateway (`src/zeaz_provider`) with a family of
packages beside it: an agent runtime, a control plane, an enterprise layer, a
sandbox for jobs, a web dashboard and a host detector (`packages/zeaz-*`).
`z-prov-0.4.2/` is an old copy of the repository and is not considered.

This directory holds TLA+ modules for the parts whose correctness depends on an
order of events, TLC configurations that check them on small instances, and
proofs, checked by TLAPS, that hold for every instance. `PROJECT.json` maps each
definition to the lines it models, names the hazards and the properties that
answer them, and lists for every property a mutation of the model, a plausible
bug of the code, that breaks it.

All paths below are relative to the repository; `gateway` stands for
`src/zeaz_provider`, `agent`, `sandbox`, `control` and `enterprise` for the
source directories of the packages.

## 1. Inventory

Almost everything is Python on one asyncio event loop: between two `await`s a
coroutine is alone. What is hard is what happens at the awaits (other calls, the
cancellation of the task, a timeout), between two stores that change one after
the other (a database and a container runtime, a directory and a table, a
provider and a catalog), when the process dies, and, where nothing waits, in
long sequences of legal calls and at the edges of limits.

### Gateway

| part | state | operations | what is hard | correct when |
|---|---|---|---|---|
| request boundary (`main.py`, `limits.py`, `observability.py`) | semaphore, active count, in-flight gauge | admit, rate-limit, handle, stream, finalize | cancellation while waiting for a slot; a stream that outlives its handler | every slot is given back once, each finalized request is recorded once, waiters are served |
| router (`router.py`) | none | `execute`, `stream` with fallback | a failure after the first chunk | no other target once a client has heard one |
| resilience (`resilience.py`) | breaker: state, failures, opened-at, probe flag; per call: attempts, deadline | `before_call`, `succeeded`, `failed`, `call` | calls that began before the breaker opened report to it later; exceptions it is not told of | the fields agree, the probe is real, attempts and deadline are kept |
| rate limiter (`security.py`) | events per client, in memory or in Redis | `allow` | the edge of the window, a key that expires, a lost answer | a request is counted exactly if there was room |
| capability registry (`capabilities.py`) | records with an expiry | `get`, `refresh_provider` | the instant of expiry | what is found is young enough or configured |
| stream translators (`streaming.py`) | the blocks begun so far | one event to several | foreign event orders | the client can put the stream together |
| conversions (`normalize.py`, `main.py`) | none | whole dialogues between three protocols | a call, a result or their order lost once makes later turns unanswerable | every block arrives once and in order |
| configuration, errors, audit lines, provider clients | none | pure, or HTTP | - | - |

### Sandbox

| part | state | operations | what is hard | correct when |
|---|---|---|---|---|
| job service and store (`service.py`) | receipts and active executions (SQLite); cancel events, ready flag | `execute`, `cancel`, `reconcile` | every step awaits a container runtime; crashes, cancelled tasks, a reconcile pass beside live calls | a job runs at most once at a time, has one receipt, and a COMPLETED receipt is true |
| Docker backend, egress controller (`backend.py`, `egress.py`) | containers and networks of the runtime | create, execute, remove, list; prepare, cleanup | a command that times out may still take effect; half-done preparation | what is left over is known to reconcile |
| output streamer (`streaming.py`) and `execute` of the Docker backend | counters, redaction buffers, reader tasks | `feed`, `finish` | chunk boundaries, one limit for two readers, a failing consumer | the limit holds and redaction does not depend on the chunks |
| LXC backend (`lxc_backend.py`) | a directory and a definition for each container | as Docker | a crash between directory, definition and start | what runs can be found |
| SOCKS proxy (`egress_proxy.py`) | slots, an allowance for each connection | accept, resolve, dial, relay | both directions share the allowance across awaits | only allowed, global addresses, within the allowance |

### Control plane

| part | state | operations | what is hard | correct when |
|---|---|---|---|---|
| batches (`batches.py`) | batches, idempotency keys, audit (SQLite) | `submit`, `cancel`, `retrieve`, `refresh` | lost answers, retries with one key, answers written out of order | keys answer for their own request, the catalog follows the provider and never runs back |
| files (`files.py`) | table `control_files`; staged uploads | `upload`, `delete`, `download` | provider and table change one after the other; an upload cut at any chunk | a file is listed exactly if the provider keeps it, and its content is what was validated |
| results (`adapters.py`) | the carry of an unfinished line | `batch_results` | line ends inside and at the end of chunks | the lines of the file, in order, once |
| models (`models.py`) | model records with missing counts, audit | `refresh`, `reconcile_models` | overlapping refreshes over a catalog that changes | a model that is offered is never counted missing |
| usage (`usage.py`) | usage and cost rows, audit | `ingest_usage`, `ingest_cost` | repeated, conflicting, early deliveries | an event counts once |
| service (`main.py`) | none | assembly, command line | - | - |

### Agent runtime

| part | state | operations | what is hard | correct when |
|---|---|---|---|---|
| loop, context, session store (`loop.py`, `context.py`, `session_store.py`) | an immutable session per run; one SQLite row with a revision | `start`, `resume`; `create`, `load`, `save` (compare and swap) | pending tool calls, budgets, two writers of one revision, compaction | calls keep their results, no update is lost, usage adds up |
| subagents (`subagents.py`) | tree of tasks, reservations, semaphore | `spawn`, `cancel`, `wait` | queued, starting, interrupted tasks; parents that hold the slots of their children | budgets and slots add up, a cancellation reaches the whole tree |
| plugin registry (`plugins.py`) | version directories, `.trash`, two tables, lock file | install, enable, disable, remove, restore, list | three stores changed one after the other, undo, crashes | an enabled plugin is whole; a failed operation changes nothing |
| permission gates, plans, hooks (`permissions.py`, `plan.py`, `hooks.py`) | plan status | decide, resolve, approve, run hooks | values kept by a dispatcher and passed back later; failing hooks | only authorized calls are executed |
| MCP transports (`mcp.py`) | child process, request counter, lock | `request`, `start`, `aclose` | cancelled requests whose answers stay in the pipe | an answer goes to its own request |
| audit ledger (`audit.py`) | hash-chained file | `append`, `verify` | an append cut short, several processes | what verifies was appended, what was appended verifies |
| skill loader (`skills.py`) | none; reads a package | `load` | an author who edits while it reads | what is loaded is one release |
| memory, client, schemas | SQLite; none | single statements; pure | - | - |

### Enterprise, web, host, scripts

| part | state | operations | what is hard | correct when |
|---|---|---|---|---|
| webhooks (`webhooks.py`) | claimed event ids (SQLite) | `verify`, which claims | claims in another order than the clock readings, pruning | no delivery is accepted twice |
| deletion (`deletion.py`) | none: previews and grants are values | `preview`, `execute` | time read before awaits, a target that changes | what is deleted was previewed and granted |
| workload identity (`wif.py`) | cached credential, guarded by a lock | `credential`, `aclose` | lifetime counted from the answer; close during an exchange | none is handed out past its expiry |
| listings (`admin.py`, `compliance.py`, `managed_agents.py`, `agent_memory.py`) | none | paginated reads | rows change between pages, cursors come from the provider | whole, or refused |
| vault, single requests, `zeaz_web`, `zeaz_infra`, `scripts/` | none | typed HTTP clients, projections, host facts, installation | - | - |

### Who talks to whom

The gateway's handlers go through the request boundary to the router, and whole
answers from there through the resilience executor to a provider client;
streams go to the client directly, through a translator when the protocols
differ. The plugin registry reports each change to the audit ledger inside its
undo scope. The sandbox service drives a backend and the egress controller and
keeps its own store; the job in a container reaches the network through the
SOCKS proxy. The control plane's batch service needs a file of the file
service's catalog; both write the provider's answers into one database. The
agent's dispatcher is not part of the repository: the loop hands it tool calls,
and it brings them before the gates and the hooks. The other packages are
libraries that share no state.

## 2. The modules

| module | models | stands on |
|---|---|---|
| `JobLedger` | what receipts promise of a job | - |
| `Sandbox`, `MCSandbox`, `SandboxProofs` | `sandbox/service.py` with backend and egress commands | implements `JobLedger` |
| `ContainerRun`, `LibraryProofs` | `execute` of `sandbox/backend.py`, `streaming.py` | the `run` step of `Sandbox`, in detail |
| `LxcBackend`, `LibraryProofs` | `sandbox/lxc_backend.py` | an alternative to the Docker commands of `Sandbox` |
| `EgressProxy`, `LibraryProofs` | `sandbox/egress_proxy.py` | - |
| `Resilience`, `ResilienceProofs` | `gateway/resilience.py` | - |
| `Gateway`, `GatewayProofs` | request boundary, limiter, router fallback | a provider call is one step here, detailed in `Resilience` |
| `AgingTables`, `LibraryProofs` | `gateway/capabilities.py`, rate limiter of `security.py` | - |
| `StreamTranslators`, `LibraryProofs` | `gateway/streaming.py` | - |
| `Conversions`, `GatewayProofs` | `gateway/normalize.py` and the converter of `main.py` | - |
| `PluginCatalog` | what the registry promises of one plugin | - |
| `PluginRegistry`, `PluginProofs` | `agent/plugins.py` with its files, tables and ledger | implements `PluginCatalog` |
| `Subagents`, `Sums`, `SumProofs`, `AgentProofs` | `agent/subagents.py` with asyncio's tasks and semaphore | - |
| `AgentSession`, `AgentProofs` | `agent/loop.py`, `context.py`, `session_store.py` | - |
| `ToolGate`, `AgentProofs` | `agent/permissions.py`, `plan.py`, `hooks.py` | - |
| `Mcp`, `AgentProofs` | `agent/mcp.py` | - |
| `AuditLedger`, `AgentProofs` | `agent/audit.py` | what `PluginRegistry` appends to |
| `SkillLoader`, `AgentProofs` | `agent/skills.py` | - |
| `ControlPlane`, `MCControlPlane`, `ControlProofs` | `control/batches.py` and `files.py` with the provider | composes both services over one database |
| `FileTransfer`, `BatchResults`, `LibraryProofs` | contents: `control/files.py`, `adapters.py` | what `ControlPlane` leaves out of a file |
| `ModelReconcile`, `LibraryProofs` | `control/models.py` | - |
| `UsageCost`, `LibraryProofs` | `control/usage.py` | - |
| `Webhooks`, `Wif`, `LibraryProofs` | `enterprise/webhooks.py`, `wif.py` | - |
| `Deletion`, `Listings`, `LibraryProofs` | `enterprise/deletion.py` and the paginated clients | - |
| `MCLibraries` | the modules that share no state, for one run | composes them by interleaving one at a time |

`LibraryProofs`, `AgentProofs` and `GatewayProofs` hold a section for each module they
are listed with. `Sums` defines the sum of a function's first values, in which `Subagents`,
`SkillLoader`, `AgentSession` and `ModelReconcile` state what was counted step by
step, and the numbers of a set in their order, for the pages of `Listings` and the
lines of `BatchResults`; `SumProofs` has the lemmas about sums.

Conventions. A coroutine is a frame (a record, or an entry of `pc`) whose place
names the await it stands at; an action is what runs up to the next await. A
database transaction is one action. What a foreign party does (the container
runtime, a provider, a worker, the ASGI server) is an action too, marked
external. History variables, which the code does not have, are named as such.
Definitions under a comment "Mutation:" are broken variants of the definition
after them and occur nowhere else. In the modules of `MCLibraries` the initial
predicate, the next-state relation and the variables bear the module's name
(`WifInit`, `WifNext`, `wifVars`), since one module extends them all.

### Sandbox

`call[c]` is one invocation of `execute`: preparation of the network (`net`,
`proxy`, `link` and their undo), `create` and `verify`, `run`, then the `finally`
block (`rm`, `rm_proxy`, `rm_net`), and the receipt. `rec` is one `reconcile`
pass, with the listing, the journal and the live jobs it read at different
times. A command whose waiter is cancelled, or whose service crashed, is in
`abandoned` and may still take effect (`LateEffect`). `Crash` resets what is
volatile. Calls may present an approval that has expired, be cancelled through
`cancel()` or have their task cancelled, several times.

`ContainerRun` opens the `run` step. `Feed` is a reader with what the pipe holds,
which takes its share of the one budget; `Emit` is the sink, awaited under the
streamer's lock with what the redactor may let go; `DecideEnd` picks among exit,
end of both readers, limit, cancel event and timeout, whichever are true;
`Finish` joins and flushes. `retained` is what a redactor keeps back because a
secret may have begun in it (`Undecided`).

`LxcBackend` keeps for each name a definition (`none`, `directory`, `config`), the
state of the runtime, what the container was started with, and the commands in
memory. Every step of `create` has an undo that may fail as well; a start that
timed out, or whose caller was cancelled or died, may still happen (`LateStart`),
also after its undo. `RemoveContainer` is the service's and its reconcile pass's,
which may come while a `create` is under way. The history `blind` has the names whose
definition was last removed although a start could still take effect or lxc-info had
failed, `late` those that such a start has booted after their isolation was read.

`EgressProxy` follows a connection from its slot through greeting, request,
resolution and dial to the relay, in which each direction reads with what the
allowance was when it began to wait.

### Gateway

`Resilience` is one breaker and the calls that share it. Time is what is left of
it: of a call's deadline, of its delay, of the reset timeout. `Tick` may not pass
a call whose deadline is over, as `asyncio.timeout` would not, but may pass one
whose delay is over, as a loop that is busy would. The history `probes` has the calls
let through since the breaker last opened.

`Gateway`: `pc[r]` follows a request: `waiting` in the semaphore's queue,
`granted` a slot it has not taken up, `admitted`, `calling` targets, `open` (a
stream was answered and not yet read), `streaming`. `Finalize` is `finalize()`:
gauge, audit line, and the slot (`Release`). The semaphore is that of Python 3.12:
a release wakes the first waiter and reserves the slot for it; whoever comes while
somebody waits, or while one that was woken has not resumed, queues although a slot may
be free (`Locked`); and a waiter that resumes, or gives up, wakes the next as far
as there are slots (`WakeAll`). `Withdraw` and `GiveUp` are a cancellation in
`try_acquire`, outside of everything that finalizes. The key and the status codes are
left out; the limit is not zero.

`AgingTables` has one clock for both tables. The limiter in memory and the script
in Redis differ in where the events are kept, in the key that expires and in the
answer that is lost; the property compares each verdict with all the requests
counted before, which neither keeps. `StreamTranslators` takes one chunk at a time and
remembers, beside the code's fields, what the client has been sent (`events`),
whether the provider has kept to its protocol (`lawful.kept`) and whether a call came
before the first text (`lawful.callsFirst`).
`Conversions` keeps the dialogue as the client does and converts the whole of it
at every turn.

### Agent runtime

`PluginRegistry`: one plugin name, several versions and processes. `frame` is the
operation of the process that holds the lock: `staged`, `published` or `moved`,
then the transaction, then `audit`, and the undo steps when any of them fails. A
process may die between any two. `list()` is not an action: it reads one table
at any time, which is why the invariants about rows hold in every state and not
only when the lock is free. Signatures, archives and permissions are not
modelled.

`Subagents`: `pc` follows a task: `new` before its first step, `queued` and
`granted` at the semaphore, `working`, `stopping` (a worker cleaning up after an
interruption), `over`; `aborted` is a task cancelled before its first step.
`kick` is the exception its next step raises. asyncio is that of Python 3.12, and its
semaphore the one of `Gateway`: a newcomer queues behind one that was granted a slot and
has not resumed.

`AgentSession`: a session is a value that each worker holds; `SaveSession`
compares revisions. `Projection` is what compaction leaves for the model.

`ToolGate`: the code hands out decisions, plans and approvals; whoever holds them
may present any of them at any time (`ExecuteTool`), and may change a plan after
it was approved. The policy's rules are a set drawn at the start.

`Mcp`: pipes are sequences (`inbox`, `outbox`) of a child process, which answers
in its own time, notifies, or ends. `CancelRequest` leaves what was written in
the pipe. The HTTP transport has no pipe; its answers come in a body of several
messages of which it must find its own.

`AuditLedger`: a file is a sequence of records and perhaps a part of one;
`PowerLoss` takes what was not synced. `SkillLoader`: each system call of `load()`
is a step, and between any two the author may place another file.

### Control plane

`ControlPlane`: `call[c]` asks the provider (`Submit`, `Cancel`, `Retrieve`,
`Refresh`, `Upload`, `Delete`), the provider acts and answers (`Provider...`), the
answer is written (`Complete`, `Store`, `PutRecord`, `DropRecord`). Answers may be
lost after the provider has acted, and the process may crash. The provider
honours idempotency keys, works on its batches (`Advance`), and has a clock with
the resolution of a second, so that two records may bear the same time. The history
`life` has the records of each batch in the order the provider had them: what rows
are compared with, since the code can compare only times, counts and statuses.

`FileTransfer` is one upload and one download by their chunks, over a provider
that may lose or alter what it keeps (`Decay`). `BatchResults` is a file of lines
that arrives cut anywhere; its lines have lengths, and the results passed on a total.
`ModelReconcile` is refreshes that read a changing
offer page by page and merge in one transaction each; `steady` remembers which models
were offered all along. `UsageCost` is deliveries in any order, each one transaction.

### Enterprise

`Webhooks`: a verifier reads the clock, checks (`CheckDelivery`), waits for the
database and claims (`Claim`) with the reading it had; claims prune by that
reading. `Wif`: callers that find the cache empty queue for the lock; `Issue` is
the provider, which starts the life of a credential before its answer arrives.
`Deletion`: preview, grants and execution, with resolver, verifier and executor
as awaits. `Listings` is the paginated methods, which differ in how they go on and in
what they refuse (`lister`), over a collection others edit.

## 3. What the runs check

| run | instance | distinct states | what it shows |
|---|---|---|---|
| `sandbox_safety` | 2 calls for 1 allow-listed job, approvals valid and expired, 1 crash, 1 failing command, task cancellation | 1.0 million | `OneRunPerJob`, `CompletedLeavesNothing`, `LeaseHeld`, and `LedgerSpec`: receipts implement `JobLedger` |
| `sandbox_progress` | 2 calls for 1 job without egress, a crash, a fault, task cancellation at every await | 33 thousand | `JobsSettle`: every job stops being live, unless its task is cancelled in the clean-up, and its lease is released |
| `resilience` | 3 calls, 2 attempts, threshold 2, deadline 4, reset 2 | 54 thousand | `OneProbe`, `ProbeEnds` |
| `gateway` | 4 requests, 2 slots, 2 targets | 95 thousand | `SlotsAccounted`, `OneVoice`, `WaitersServed` |
| `plugin_registry` | 2 versions, 2 removal ids, 2 processes, 2 faults, 1 death | 241 thousand | `EnabledInstalled`, `RestIsConsistent`, `FailedChangesNothing`, and `CatalogSpec`: the tables implement `PluginCatalog` |
| `control_plane` | 2 callers, 4 calls, 2 create keys, 1 cancel key, 2 files, 2 batches, 1 lost answer or crash | 450 thousand | `AnswersMatch`, `CatalogTrue`, `RowsForward` |
| `subagents` | 4 subagents, 2 at a time, depth 3, 3 tokens, 1 session | 425 thousand | `TokensConserved`, `SlotsConserved`, `CancelReaches`, `Ends` |
| `libraries` | 19 modules, one at a time (below) | 1.1 million | 19 properties, one of each |

The modules of `libraries` share no state, so their product would only multiply
states that have nothing to say to one another. `MCLibraries` draws at the start
which of them the behaviour is about (`part`), lets that one move, and keeps the
others in an initial state; the number of states is the sum of theirs.

| part | instance | property |
|---|---|---|
| `session` | 2 workers, 6 turns, budgets of 5 and 11 tokens | `SessionKept`: in every saved session calls keep their results, what was charged is what was used, and history is only extended, by whoever loaded its last revision |
| `ledger` | 2 processes, 4 appends, a record at and below the limit | `LedgerSound` |
| `mcp` | 2 requesters, 4 requests, 2 peers, both transports | `AnswersOwn` |
| `gate` | 2 calls with one id, 2 contexts, every subset of 3 rules, 2 hooks | `ExecutedAuthorized` |
| `skill` | 2 releases of a skill, torn files, links | `SkillWhole` |
| `webhook` | 2 verifiers, 2 events, tolerance 1, retention 3 | `ReplayRejected` |
| `deletion` | 2 principals, wide and narrow targets, clock to 2 | `DeletedAsAuthorized` |
| `wif` | 2 callers, lives 3 and 4, margin 1, delay 1 | `HandedOutAlive` |
| `listing` | 4 rows, pages of 2, 2 edits, each of the listings | `ListingWhole` |
| `translator` | 3 chunks, 3 tool indexes, each of the 3 translators | `StreamCoherent` |
| `aging` | lifetime 2, window 2, limit 2, 4 requests, instants to 3 | `TablesExact` |
| `conversion` | 6 blocks, each pair of protocols | `DialogueKept` |
| `models` | 3 models, pages of 1, 2 pages, 2 refreshers | `CatalogKept` |
| `usage` | 2 ids of each kind, 2 scopes, 2 amounts | `ChargedOnce` |
| `files` | contents of 2 tokens, chunks of 1 | `TransferFaithful` |
| `results` | files of 5 tokens, of 3 valid letters, an invalid one and line ends; lines of 2, 2 results of 3 bytes in all | `ResultsExact` |
| `proxy` | 2 connections, 1 slot, 2 bytes, 4 addresses | `EgressContained` |
| `run` | 2 channels, 3 bytes written, 2 accepted, a secret of 2 | `OutputAccounted` |
| `lxc` | 1 container, 2 settings, 2 crashes | `NoHiddenContainer` |

Each module's inductive invariant, where it neither quantifies over all numbers
nor names infinite types, was checked with the same instances before it was
proved. It is not a property of a run, because its proof holds for every
instance; add it as an INVARIANT when a module changes. No run checks for
deadlock: each of these systems may come to rest when its callers have come to an
end.

**Bounds and why they are enough.** Two calls make every race over one job, key
or lease; a third call adds none, since none of the guards counts calls. In
`resilience` a probe, a straggler and a newcomer are three calls, the threshold
is reached by two of them, and one failure is below it; the deadline is twice the reset
timeout (135 s against 30 s in the code's defaults), so a call from before the opening
and a first probe may both be out while a second one is. In `gateway` two slots
and four requests let two wait while one holds a stream, so that the order of
the queue and the cancellation of its head matter, and let a fourth come while a
slot is free and the third, which was granted the other, has not resumed. In `plugin_registry` two
faults are a failure and a failure of its undo. In `control_plane` two batches
are needed for paging and two create keys for a foreign request; the clock
ticks once, which gives equal and different times. In `subagents` four make a
chain as well as siblings, two slots can both be held by parents of the
third, and a fourth can come while another is on its way to a slot; sessions meet only
in the check that a child has its parent's. The containers of `lxc` share no state but the
probe and the crash, so one name has every behaviour of each. In `aging` the fourth request
can follow a refusal within the window and after it. In `libraries` each limit of the code is reached and passed: a log, a
window, a page, an allowance, a budget and a line are two or three units long;
two clients, processes or refreshers race; deliveries of one event, releases of
one skill and contexts of one call can be mixed up.
Constants whose name begins with `Max` and that are not settings of the code
(`MaxCrashes`, `MaxFaults`, `MaxLost`, `MaxClock`, `MaxCalls`, `MaxDone`, `MaxUse`,
`MaxTurns`, `MaxRevision`, `MaxAppends`, `MaxRequests`, `MaxPeers`, `MaxNotices`,
`MaxDecisions`, `MaxPlans`, `MaxPreviews`, `MaxGrants`, `MaxTime`, `MaxSecond`,
`MaxChunks`, `MaxInstant`, `MaxAsked`, `MaxBlocks`, `MaxEdits`, `MaxRefreshes`,
`MaxAudits`, `MaxUploads`, `MaxOutput`, `MaxWritten`) are bounds of the model; all
appear in guards and in the constants' comments. Symmetry is used in safety runs
only.

**Fairness and why the code justifies it.** Nobody who calls from outside is
fair. `Sandbox`: commands end (all have timeouts), the event loop runs what can
run, and the operator runs reconcile again and again (the docs ask for it at
start-up, with failures kept "for another retry"). `Resilience`: time passes and
the loop serves whoever can go on. `Gateway`: the loop resumes a request that was
woken (`Resume`), and that is all; that a request ends is up to its client, which may send
its body or read its stream as slowly as it likes, so `WaitersServed` has it as a
condition (`SlotsComeBack`). `Subagents`: the loop runs tasks and timers, and
a worker that was interrupted ends; one that was not may work for ever, until its
timeout. The modules of `libraries` have no liveness property: nothing in them
waits for anything but a lock held across one request, whose end depends on a
foreign party.

**Assumptions in properties.** What a property leaves out is in its statement:

- `LeaseHeld` speaks of calls before any crash, and of jobs that have no receipt
  of another call: after either, a job's row may belong to an earlier call.
- `OneProbe` is about who was let through since the breaker opened. Calls that
  began before, and earlier probes, may be with the provider beside the probe, and
  may report, and so decide, in its place (section 5).
- `WaitersServed` is about servings that end: see fairness.
- `JobsSettle` is, in what it says of leases, about jobs without egress (section 5). A
  task cancelled a second time, in the `finally` block, leaves its job live for ever:
  `Escaped` states that case, which the run includes, and no other.
- `RowsForward` lets a row go back to a record of the same second with equal counts, and
  only while it does not show its batch as over: `cancelling` to `in_progress`, say.
- `ContextPaired` (in `SessionKept`) is about an even `MinRecent` (`EvenRecent`).
- `DeletedAsAuthorized` counts the expiry of plan and grants at the one clock
  reading with which the execution began.
- `ReplayRejected` is about a retention of twice the tolerance and the wait for
  the lock; the settings allow less. `HandedOutAlive` is about answers that are no
  longer on their way than the margin, and credentials that outlive their delivery.
- `NoHiddenContainer` names the containers that may be hidden: those whose definition was
  last removed while a start could still take effect, or because lxc-info failed.
  The redaction clause of `OutputAccounted` leaves out secrets of which one begins with
  another; `StreamCoherent` is about providers that keep to their protocol, and of a
  stream whose text begins after a call it does not say that text and tool have
  different indexes; `DialogueKept` requires results right after their calls only of
  the dialogues in which the converter keeps them there (`SeparateResults`), and says
  nothing of why an answer stopped to Responses clients; `ListingWhole` says nothing of rows that were not
  there for the whole time, and of a limit of items only where the code has one:
  the service's own pages are single answers, whose reader goes on as it likes.

## 4. What is proved

TLAPS proves the following for every value of the constants, from the named
assumption of each module (`SandboxAssumption`, `SentinelAssumption`,
`ResilienceAssumption` and so on: types, distinct sentinels, in `Gateway` a finite
set of requests).

- **Sandbox.** `MutualExclusion` (`OneRunPerJob`), `CompletedIsClean`
  (`CompletedLeavesNothing`), `FinalReceipts`, `ImplementsLedger` (every step is
  a step of `JobLedger` or a stutter), `TypeCorrectness`. The invariant
  `Inductive` adds to types: a call at work owns its job (`Owned`); an abandoned
  `create` belongs to a call that is dead or was cancelled
  (`OrphanedCommands`), so that no container appears after a COMPLETED receipt;
  what a clean, completed call has removed is gone (`RemovedSoFar`); only
  allow-listed jobs have proxies (`ProxiesAllowListed`), so that the short way
  through the finally block leaves none; a COMPLETED receipt is that of a call
  that returned so (`CompletedReceipts`). Without the second and third
  `CompletedLeavesNothing` is not inductive: a late `create` could follow the
  receipt. `LeasesAreHeld` (`LeaseHeld`) stands on a second invariant, `Leases`, of the time
  before any crash: a lease no live call holds is that of a receipted job
  (`LeasesReceipted`), so a reconcile pass holds on to receipted jobs only
  (`PassReceipted`); beside a live call only a rejection can have been receipted,
  which leaves nothing to clean up (`RejectedBeside`); and no late command makes a
  network of a job whose clean-up is receipted as incomplete (`NetworksKnown`).
- **Resilience.** `BreakerAgrees`, `ProbeIsOne` (`OneProbe`) and `TypeCorrectness`, from
  `BreakerInvariant`, whatever the deadline and the reset timeout. A breaker that is not
  half open has let no probe through since it opened (`NoEarlyProbe`): with it `OneProbe`
  is inductive. `AttemptsLeft` bounds the attempts.
- **Gateway.** `SlotsAddUp` (`SlotsAccounted`) and `OneTargetIsHeard` (`OneVoice`),
  for any number of requests, slots and targets. The proof counts requests by where
  they are: one that moves changes each of the three counts by whether the old and
  the new place are counted (`CountsMove`). `SlotInv` adds to the counts that
  whoever is in the semaphore's queue waits and is in it once (`QueueWaits`):
  without it a slot could be given to a request that has one. `NoIdleSlot` says that
  beside a free slot and a waiter there is one granted, since whoever leaves that place
  wakes the next.
  `VoiceOfTarget` says whom a client has heard, and that before the call it has
  heard nobody.
- **PluginRegistry.** `EnabledIsInstalled`, `NoRowIsPartial`, `RegistryTypes`,
  `ImplementsCatalog`. The invariant says, for each operation and each of its
  places, what has been done (`Installing`, `Removing`, `Restoring`,
  `Switching`) and that removal ids are drawn once (`DrawnOnce`): without these
  an undo could restore a row whose directory is gone. `RestConsistent`
  (`RestIsConsistent`) and `FailureChangesNothing` (`FailedChangesNothing`) need more,
  `RegistryAccount`: for each version, each removal and each place of the operation in
  progress, what the directories, the trash and both tables hold is what they held
  when it began and what it has done since. Its undo then leads back to the start.
- **ControlPlane.** `CatalogIsTrue` (`CatalogTrue`), `AnswersAreOwn` (`AnswersMatch`) and
  `RowsGoForward` (`RowsForward`), from `ControlInvariant` and `HistoryHolds`. Answers,
  rows and completed keys are records the provider has had (`Known`, in
  `ProviderTrue`, `RowsKnown` and `KeysTrue`), and of two of them about one batch one
  follows the other as far as times, counts and statuses tell; `HistoryHolds` adds that
  each is in the provider's history of its batch (`RowsHad`, `KeysHad`, `CallsHad`), where
  the two have an order that the code does not see; each place of a call knows what the provider and the tables
  have done for it (`CallsTrue`), and a file operation which of the two has changed
  (`FilesTrue`, and the property `FilesAgree` itself).
- **Subagents.** `SubagentTypes`, `BudgetHolds`, `SlotsHold` (with the same `NoIdleSlot`
  as `Gateway`), `CancellationReaches`. `Numbered` (identifiers are given in order) and
  `DoomedTold` (whoever a cancellation was meant for has its CancelledError
  coming, or has met it) make the invariant inductive. `TokensAreConserved`
  (`TokensConserved`) adds `ResultsAtTheEnd`, nobody has a result before the place where
  its reservation is given back, and the lemmas on sums: a step changes one budget
  or one result, and the sum by just that.
- **Webhooks.** `NoReplay` (`ReplayRejected`). A reading of the clock is at most the
  wait for the lock old (`ReadingsRecent`), and the claim of an event that was
  handed out is there until nobody can bring it again (`HandedRetained`); two
  acceptable readings of a delivery are at most twice the tolerance apart.
- **Wif.** `CredentialsAlive` (`HandedOutAlive`), from `CacheSafe`: what is cached is
  refreshed before it dies, or at once.
- **Mcp.** `AnswersAreOwn` (`AnswersOwn`), from `OneAtATime`: who is in `request()`
  has the lock, who starts a process finds none.
- **LxcBackend.** `ContainersAreFound` (`NoHiddenContainer`), from `Creating` (while a call
  creates a container nobody may execute its job), `Findable` (what runs, or may yet
  start, has a definition or lost it blindly) and `ReadIsolated` (what was read of the
  isolation holds until a late start).
- **UsageCost.** `NothingChargedTwice` (`ChargedOnce`). The audit's entries are
  distinct and are those of the rows (`EntriesDistinct`, `EntriesOfRows`), so that
  their number, which the property compares, grows with the rows.

- **AgentSession.** `SessionsAreKept` (`SessionKept`), for an even `MinRecent` (the
  code's default is 2; with an odd number it is false, see section 5). The turns
  of a session alternate (`Alternate`), each result stands behind its call
  (`Paired`), and what a client has in hand continues what it loaded (`Continues`): a
  cut at an even place then takes a call and its result together.
- **ToolGate.** `ExecutionIsAuthorized` (`ExecutedAuthorized`), for any finite set of rules
  and any sequence of hooks. That a strictest of the rules that rank first exists
  and is what the code's sort finds (`RulingStrictest`, `FirstRule`) is proved by
  counting the rules ahead of a rule.
- **AuditLedger.** `LedgerIsSound` (`LedgerSound`): the records are a chain of
  which only the last may be partial (`Chained`); who has a record to write has the
  lock, and until it begins the log ends where it was read (`OneWrites`); and what was
  acknowledged is among what was synced (`AppendedSynced`).
- **SkillLoader.** `SkillsAreWhole` (`SkillWhole`), from `ReadAsDeclared`: what has been
  read is what the manifest in hand declares, and its sizes add up to no more than
  the limit. It is assumed that sizes are natural numbers and that a manifest's
  resources are a sequence.
- **EgressProxy.** `EgressIsContained` (`EgressContained`), for finitely many addresses a
  name can resolve to: each place of a connection knows what was checked of its
  destination (`InOrder`), and the slots are those of the connections at work
  (`SlotsTaken`).
- **FileTransfer.** `TransfersAreFaithful` (`TransferFaithful`): what an upload has
  read is within the limit, and valid once it is sent (`UploadSound`); a row is of
  valid content and of its size (`RowsSound`); what a download has passed on is within
  its limit, and the row's content when it is complete (`DownloadSound`); a staged file
  belongs to an upload under way or one that was cut off (`StagingSound`).
- **ModelReconcile.** `CatalogIsKept` (`CatalogKept`): up to its cursor every
  refresh under way has found the models that were offered all along (`SteadyFound`),
  so their rows count them present (`SteadyPresent`); the sum of the rows' revisions
  is the sum of the audited changes (`RevisionsAudited`).
- **AgingTables.** `TablesAreExact` (`TablesExact`). For every later time the window
  holds as many entries inside it as verdicts were counted (`WindowTrue`), in order
  (`WindowOrdered`): what pruning has removed is outside every later window.
- **StreamTranslators.** `StreamsAreCoherent` (`StreamCoherent`), for any tools and any
  number of chunks. While the stream is open (`Going`), what was sent agrees with what
  the translator remembers: the blocks begun are those of its table, their indexes
  below `next_block`, and nothing is finished before the provider said so; what is
  sent then stays readable (`Readable`), and is complete when it is over (`Over`). Text
  that begins after calls has index 0 again, and only that is excepted.
- **Conversions.** `DialoguesAreKept` (`DialogueKept`), for dialogues of any length and
  every pair of protocols; `MaxBlocks`, which ends the model's runs, is any number. The
  dialogue is related to one form of it, the chat that it converts to (`ChatsOf`), since
  each request is that chat or the Anthropic form of it (`ConvertedIs`). First the folds:
  a flattened sequence is the end of a chain of joins (`FlatIs`), so converting goes
  part by part (`FlatMapIs`) and two conversions in a row are one (`AfterIs`). From these,
  that each conversion says what it was given, kind by kind and in order
  (`ChatFromAnthropicSays`, `AnthropicFromChatSays`, `ChatFromItemsSays`). The order of
  calls and results depends on what was said before and needs an invariant
  (`DialogueInv`): the chat is one in which results follow their calls, with the
  instructions in their place and, for Anthropic, taken out (`Followed`); the calls of
  the last answer are made in it (`CallsMade`); and, for a chat provider and a client
  that keeps results apart, all results so far are right after their calls and the last
  message's calls are those that wait (`Adjacent`). Each turn keeps that: an answer adds
  no results (`ServeKeeps`), and the client's results answer just the calls that wait
  (`ResultsKeep`).
- **ContainerRun.** `OutputIsAccounted` (`OutputAccounted`), for any channels, secrets
  and sizes. `Drain` is recursive, so its lemmas come first: the loop ends on every
  buffer and computes one function (`LoopEnds`, `LoopOnce`, `DrainsAre`), and where no
  secret begins with another, what is sent of a buffer followed by the redaction of
  what is kept and of any further input is the redaction of the whole
  (`RedactionSplits`). The invariant `RunInv` says of every channel whose reader has not
  failed that what the sink has, what it is being given and what the buffer would still
  make are the redaction of what was taken (`AllRedacted`), and that nothing is lost
  between the pipe and the budget unless the limit was reached (`NothingLost`).
- **Listings.** `ListingsAreWhole` (`ListingWhole`), for any rows, page sizes and limits.
  While pages are asked for, no row up to the cursor that was always there is missing
  (`NoneMissed`). A client that would take a row twice refuses; the service's own
  pages need that its cursor is behind all that was listed (`OwnInOrder`). `PagesTaken`
  brings the eight clients to one kind of step, `RowsOfPage` says what a page holds.
- **BatchResults.** `ResultsAreExact` (`ResultsExact`), for files of any length and any
  chunks. What was cut off so far ends with a line, the buffer holds the rest of what
  arrived, and as many results were passed on as lines begin before it (`CutAtLine`);
  the next line cut off is then the file's next line (`NextLine`), and a reader that
  fails on it, or on its length, or on the total it brings, has found the file at fault
  (`LineYielded`, `RefusedForReason`).
- **Deletion.** `DeletionsAreAuthorized` (`DeletedAsAuthorized`): an execution has seen
  the target as previewed and verified only grants that allow its plan
  (`ExecutionSound`) that had not expired when it began, nor had the plan; what was deleted
  had such grants, of two principals where the plan asks for two approvals
  (`DeletionSound`).

Where a proof needs an induction over numbers, it takes the least exception
(`Least`, `Greatest` in `SumProofs`, from the well-foundedness of the natural
numbers): so the sums exist and grow by what is added.

Only model-checked: liveness (`JobsSettle`, `ProbeEnds`, `WaitersServed`, `Ends`)
and ENABLED, which this prover does not do. Every other property of a passing run has
a theorem.

## 5. Where the code and its documentation part

Each of these is a run that TLC finds violated; `PROJECT.json` quotes the line.

- `sandbox_receipt_taken`: a resubmission with an expired approval takes the
  only receipt of the run that is in progress.
- `resilience_lost_probe`: a cancelled probe leaves the breaker half open, and
  every later call is refused for a probe nobody makes.
- `plugin_removal_lost`: a process that dies between the rename and the commit of
  a removal leaves a version no table can recover.
- `gateway_fail_fast`: a request beyond the limit waits, where README and
  `tests/test_limits.py` say it is refused with 503.

Met while modelling, allowed by the models and not given a run of their own:

Sandbox
- `sandbox/service.py:349`: a reconcile pass removes the container of a live call
  that is created and not yet journaled, and proxies. A pass that read its lists
  earlier may also clear the lease of a container that came later.
- A cancelled `create` leaves a container until the next reconcile pass; a second
  cancellation in the `finally` block (`service.py:274-284`) leaves no receipt, and the
  job live until the service is started again: no later submission is admitted.
- `sandbox/egress.py:178`: clean-up of an allow-listed network of which a part is
  gone fails each time it is repeated.
- `sandbox/streaming.py`: of two secrets of which one begins with the other, the
  tail of the longer may get through at the end of a chunk
  (`docs/design/sandbox-runtime.md:49-50`), and output cut by the limit may end
  in the beginning of a secret. `docker kill` of a container that has exited by
  then raises instead of reporting a cancellation or a timeout; a sink that fails
  while the streamer drains after the exit is not reported.
- `sandbox/lxc_backend.py`: a crash between mkdir and the config leaves a directory
  that nothing removes; a failed lxc-info counts as absence. A cancelled or dead caller
  leaves its lxc-start running (`backend.py:92-138` kills nothing on cancellation), and a
  reconcile pass removes the definition of a container whose `create` is under way: when
  the start then takes effect, the container runs and no pass will find it.
- `sandbox/egress_proxy.py:104-107`: the idle timeout limits the whole connection;
  an upstream whose success reply cannot be drained is not closed (line 162 is
  outside the try of line 163).

Gateway
- `gateway/resilience.py:52`: with the default settings calls from before the opening are
  still under way when the breaker half opens. They are with the provider beside the
  probe, and their answers close or open the breaker in its place.
- `gateway/main.py:309-313` awaits the body of a request without a timeout while it has
  a slot.
- `gateway/main.py:106`: a request cancelled while it waits is counted in flight
  for ever; `main.py:192`: a stream that is never read keeps its slot. Both are
  part of `SlotsAccounted` as stated. A stream cut by its provider is recorded
  with status 200, and streams pass the breaker by.
- `gateway/security.py`: a request whose Redis answer is lost is counted, though
  refused.
- `gateway/streaming.py`: text after a tool call goes back to index 0; a chunk of
  usage with no choices is an error event; a stream that ends without a finish
  reason leaves its blocks open; `chat_to_responses` drops tool calls silently
  (`CHANGELOG.md:26`); characters split between two chunks are not put together
  (line 13).
- `gateway/normalize.py`: a user's text goes before the results it came with (lines
  55-64); `responses_to_chat` makes one assistant message of each call (238-250), where a
  chat provider wants results right after the message with their calls; a truncated answer is
  "completed" for a Responses client; images in tool results become text; system
  messages in mid-dialogue move to the front for Anthropic; the order of texts and
  calls in one message is lost.

Agent runtime
- `agent/subagents.py:189`: a task cancelled before its first step has no result,
  keeps its reservation and is not charged, where
  `docs/design/agent-subagents.md:14` says cancelled ones are charged. A parent
  that is cleaning up may still spawn a child its cancellation does not reach.
- `agent/plugins.py:495`: the renames of remove and restore are not followed by an
  fsync; the models lose no completed file operation.
- `agent/context.py`: with `min_recent_turns` of 1 or 3 a compacted projection may
  hold a result without its call, where `docs/design/agent-loop.md:22` says pairs
  are kept; the model's instance has 2. `start()` does not look for pending calls,
  `resume()` not at the status; the tokens of a losing writer are recorded nowhere.
- `agent/audit.py:193-198`: a record of exactly `max_event_bytes` that is not the
  first makes every later append fail.
- `agent/mcp.py:304`: after a foreign identifier, invalid JSON or a cancellation the
  peer is kept, where `docs/design/agent-mcp.md` says that broken framing kills it.

Control plane
- `control/batches.py:603-625`: of two records of one second the later written stays, so
  a row may go from `cancelling` back to `in_progress`, where
  `packages/zeaz-control/README.md:16-18` says that stale updates fail closed.
- `control/batches.py:546`: when a refresh has listed a batch with a later record
  before its `submit` is completed, the key's completion is refused as stale on
  every retry. A key cannot be replayed once its file is deleted.
- `control/files.py:310`: after a lost answer to a deletion the row stays, since
  each later deletion is told that there is nothing to delete. An upload that is
  cancelled leaves its staged file (`files.py:414`).
- `control/adapters.py:546`: the adapter fills in the digest it was given, so the
  check of `files.py:210` compares no more than sizes. A download yields its chunks
  before the digest is compared.
- `control/models.py:405`: a refresh that began earlier may overwrite the rows of a
  later one.

Enterprise
- `enterprise/webhooks.py`: with a retention of 300 s and a tolerance above 150 s a
  delivery can be accepted twice; a crash between the claim and the processing
  loses the event.
- `enterprise/deletion.py:177`: one clock reading serves the whole execution; a
  preview may be executed twice; the target may change between its resolution
  and the call of the executor.
- `enterprise/wif.py`: `aclose()` takes no lock, so an exchange in flight fills the
  cache after it.

## 6. Not modelled, and the plan

Not modelled, since no order of events or limit is at stake: the provider
clients, configuration, the table of errors and the audit lines of the gateway;
agent memory (single statements) and the agent's HTTP client; the vault, the
single requests of the enterprise clients, and the schemas' field validation;
the web dashboard, the host detector, the installation scripts and the old copy.
Of the modelled files these are left out: command lines and the runtime probe of
the Docker backend; the handlers' status codes, keys and the zero limit of the
request boundary; the reading of signed plugin archives; sampling options, tool
definitions and usage numbers of the conversions; the decoding of server-sent
events; the HTTP session identifier of MCP; the aggregations of usage.

What is left of the plan: a proof that `ContainerRun` implements the `run` step of
`Sandbox`, of which only the end is visible there.
