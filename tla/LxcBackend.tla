----------------------------- MODULE LxcBackend -----------------------------
(***************************************************************************)
(* RootlessLxcBackend (zeaz_sandbox/lxc_backend.py).  A container exists   *)
(* three times over: its definition, a directory with a config file below  *)
(* the state root, which is all that managed_containers() looks at; the    *)
(* runtime's own state; and the job's command in this process's memory.    *)
(* Every runtime command is an await, may fail or time out, and the        *)
(* process may die at any of them.                                         *)
(***************************************************************************)
EXTENDS Integers, FiniteSets

CONSTANTS
  Names,            \* container names
  Settings,         \* the isolation settings of _render_config()
  Verified,         \* those _verify_started() reads back from inside
  MaxCrashes        \* bound: deaths of the process

ASSUME LxcAssumption ==
  /\ Verified \subseteq Settings
  /\ MaxCrashes \in Nat

VARIABLES
  probed,           \* _probed
  definition,       \* [Names -> "none", "directory", "config"]
  runtime,          \* [Names -> "none", "stopped", "running"]
  applied,          \* [Names -> the settings the runtime has applied]
  commands,         \* _commands: the names whose job may be executed
  step,             \* [Names -> where the call on that name is]
  lingering,        \* names with an lxc-start nobody waits for any more
  blind,            \* history: names last dismantled while they could still start,
                    \* or on the false word of lxc-info
  late,             \* history: names booted by such a start since they were verified
  crashes

lxcVars ==
  <<probed, definition, runtime, applied, commands, step, lingering, blind, late, crashes>>

LxcInit ==
  /\ probed = FALSE /\ commands = {} /\ lingering = {} /\ blind = {} /\ late = {}
  /\ crashes = 0
  /\ definition = [n \in Names |-> "none"]
  /\ runtime = [n \in Names |-> "none"]
  /\ applied = [n \in Names |-> {}]
  /\ step = [n \in Names |-> "idle"]

Goto(n, where) == step' = [step EXCEPT ![n] = where]

-----------------------------------------------------------------------------
\* probe(): AppArmor enabled, the seccomp policy there, lxc-info answers.
Probe ==
  /\ ~probed /\ probed' = TRUE
  /\ UNCHANGED <<definition, runtime, applied, commands, step, lingering, blind, late, crashes>>

\* create() up to the definition's directory; a name that has one is refused.  The
\* name is that of the job, which one life of the process accepts once
\* (service.py:222).
CreateDefinition(n) ==
  /\ probed /\ step[n] = "idle" /\ n \notin commands /\ definition[n] = "none"
  /\ definition' = [definition EXCEPT ![n] = "directory"]
  /\ Goto(n, "defining")
  /\ UNCHANGED <<probed, runtime, applied, commands, lingering, blind, late, crashes>>

\* _write_exclusive(), or its failure before or after the file is there.
WriteConfig(n) ==
  /\ step[n] = "defining"
  /\ \/ definition' = [definition EXCEPT ![n] = "config"] /\ Goto(n, "starting")
     \/ /\ \E left \in {"directory", "config"} : definition' = [definition EXCEPT ![n] = left]
        /\ Goto(n, "undoing")
  /\ UNCHANGED <<probed, runtime, applied, commands, lingering, blind, late, crashes>>

\* _render_config(): the settings a config asks for.
Rendered == Settings

\* The runtime boots what the config asks for, or less; one that runs is not booted.
Boot(n) ==
  /\ runtime[n] # "running"
  /\ runtime' = [runtime EXCEPT ![n] = "running"]
  /\ \E settings \in {Rendered} \union {Rendered \ {s} : s \in Rendered} :
       applied' = [applied EXCEPT ![n] = settings]

\* lxc-start --daemon: started, failed, or given up after its time.
Start(n) ==
  /\ step[n] = "starting"
  /\ \/ Boot(n) /\ Goto(n, "verifying") /\ UNCHANGED lingering
     \/ Goto(n, "undoing") /\ UNCHANGED <<runtime, applied, lingering>>
     \/ /\ lingering' = lingering \union {n}
        /\ Goto(n, "undoing") /\ UNCHANGED <<runtime, applied>>
  /\ UNCHANGED <<probed, definition, commands, blind, late, crashes>>

\* What _verify_started() asks for: RUNNING, and the four readings from inside match.
Isolated(n) == runtime[n] = "running" /\ Verified \subseteq applied[n]

\* _verify_started(), up to its last reading.
VerifyStarted(n) ==
  /\ step[n] = "verifying"
  /\ \/ Isolated(n) /\ Goto(n, "verified") /\ late' = late \ {n}
     \/ Goto(n, "undoing") /\ UNCHANGED late
  /\ UNCHANGED <<probed, definition, runtime, applied, commands, lingering, blind, crashes>>

\* create() resumes after that reading and returns.
Created(n) ==
  /\ step[n] = "verified" /\ Goto(n, "idle")
  /\ commands' = commands \union {n}
  /\ UNCHANGED <<probed, definition, runtime, applied, lingering, blind, late, crashes>>

\* What _container_state() may answer: None when lxc-info fails.
Reported(n) == {runtime[n], "none"}

\* Mutation: the definition is removed whatever still runs.
LeftRunning(n, reported) == runtime[n]

\* _stop_if_present(): what the runtime is in when it returns.
Stopped(n, reported) == IF reported = "running" THEN "stopped" ELSE runtime[n]

\* _remove_definition(): a directory without its config is left where it is.
DefinitionRemoved(n) == IF definition[n] = "config" THEN "none" ELSE definition[n]

\* An lxc-start on that name may still take effect.
InFlight(n) == step[n] = "starting" \/ n \in lingering

\* _stop_if_present() and _remove_definition(), with nothing awaited between the last
\* answer and the removal (a start that takes effect between the look and the answer
\* is one that takes effect after the removal).
Dismantle(n) ==
  /\ \E reported \in Reported(n) :
       /\ runtime' = [runtime EXCEPT ![n] = Stopped(n, reported)]
       /\ blind' = IF InFlight(n) \/ reported # runtime[n]
                     THEN blind \union {n} ELSE blind \ {n}
  /\ definition' = [definition EXCEPT ![n] = DefinitionRemoved(n)]

\* _stop_if_present() raises, or the call is cancelled between its two commands.
OnlyStopped(n) ==
  /\ runtime[n] = "running"
  /\ \E state \in {"running", "stopped"} : runtime' = [runtime EXCEPT ![n] = state]
  /\ UNCHANGED <<definition, blind>>

\* managed_containers(): the directories there are.
Managed == {n \in Names : definition[n] # "none"}

\* The except branch of create(): stop, remove, raise; a stop that fails raises
\* in its place and leaves the definition.
Undo(n) ==
  /\ step[n] = "undoing" /\ Goto(n, "idle")
  /\ Dismantle(n) \/ OnlyStopped(n)
  /\ UNCHANGED <<probed, applied, commands, lingering, late, crashes>>

\* execute(): lxc-attach runs the job's argv; unless it exits by itself the
\* container is stopped, or the call raises.
ExecuteJob(n) ==
  /\ n \in commands /\ step[n] = "idle"
  /\ \/ runtime' = runtime
     \/ \E reported \in Reported(n) :
          runtime' = [runtime EXCEPT ![n] = Stopped(n, reported)]
  /\ UNCHANGED <<probed, definition, applied, commands, step, lingering, blind, late, crashes>>

\* remove(), by the job that has the container or by reconcile(), whose list of names
\* was read before and has those of create() calls under way (service.py:349); only
\* between the directory and its config nothing is awaited.
RemoveContainer(n) ==
  /\ step[n] # "defining"
  /\ \/ Dismantle(n) /\ commands' = commands \ {n}
     \/ OnlyStopped(n) /\ UNCHANGED commands
  /\ UNCHANGED <<probed, applied, step, lingering, late, crashes>>

\* The caller is cancelled: CancelledError passes the except branch, and run()
\* (backend.py:117) leaves the command it waits for running.
CancelCreate(n) ==
  /\ step[n] \in {"starting", "verifying", "verified", "undoing"}
  /\ lingering' = IF step[n] = "starting" THEN lingering \union {n} ELSE lingering
  /\ Goto(n, "idle")
  /\ UNCHANGED <<probed, definition, runtime, applied, commands, blind, late, crashes>>

-----------------------------------------------------------------------------
(* The environment. *)

\* A start nobody waits for takes effect; there may be another on the same name.
LateStart(n) ==
  /\ n \in lingering /\ lingering' \in {lingering, lingering \ {n}}
  /\ Boot(n) /\ late' = late \union {n}
  /\ UNCHANGED <<probed, definition, commands, step, blind, crashes>>

\* It exits, or a stop takes effect whose caller was cancelled.
Dies(n) ==
  /\ runtime[n] = "running"
  /\ runtime' = [runtime EXCEPT ![n] = "stopped"]
  /\ UNCHANGED <<probed, definition, applied, commands, step, lingering, blind, late, crashes>>

\* The process dies; the lxc-start it waits for does not.
Crash ==
  /\ crashes < MaxCrashes /\ crashes' = crashes + 1
  /\ probed' = FALSE /\ commands' = {}
  /\ step' = [n \in Names |-> "idle"]
  /\ lingering' = lingering \union {n \in Names : step[n] = "starting"}
  /\ UNCHANGED <<definition, runtime, applied, blind, late>>

LxcNext ==
  \/ Probe \/ Crash
  \/ \E n \in Names :
       \/ CreateDefinition(n) \/ WriteConfig(n) \/ Start(n) \/ VerifyStarted(n) \/ Created(n)
       \/ Undo(n) \/ ExecuteJob(n) \/ RemoveContainer(n) \/ CancelCreate(n)
       \/ LateStart(n) \/ Dies(n)

LxcSpec == LxcInit /\ [][LxcNext]_lxcVars

-----------------------------------------------------------------------------
\* A container that runs has a definition, by which managed_containers() lists it
\* and reconciliation removes it, through failures, cancellations, crashes and
\* reconciliation between any two steps of create(), unless its definition was last
\* removed blindly: while an lxc-start could still take effect, or because lxc-info
\* failed and the container counted as absent.  And a job can only be executed in a
\* container whose isolation was read, unless a late start has booted it since.
NoHiddenContainer ==
  \A n \in Names :
    /\ runtime[n] = "running" => n \in Managed \union blind
    /\ n \in commands \ late => Verified \subseteq applied[n]

=============================================================================
