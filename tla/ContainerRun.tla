---------------------------- MODULE ContainerRun ----------------------------
(***************************************************************************)
(* One attached execution: RootlessDockerBackend.execute() (zeaz_sandbox/  *)
(* backend.py) with its BoundedOutputStreamer and redactors (streaming.py) *)
(*                                                                         *)
(* Two reader tasks take what the container wrote from the pipes of the    *)
(* docker CLI, share one budget of raw bytes behind the streamer's lock    *)
(* and await the sink while they hold it.  The caller waits for whatever   *)
(* comes first: the exit of the CLI, both readers, the limit, the cancel   *)
(* event or the timeout; it then kills what still runs, joins, and closes  *)
(* the streamer.                                                           *)
(***************************************************************************)
EXTENDS Integers, Sequences, FiniteSets, SequencesExt, FiniteSetsExt

CONSTANTS
  Channels,     \* stdout and stderr
  Bytes,        \* what a container may write
  Secrets,      \* sequences of bytes
  MaxBytes,     \* max_bytes
  MaxWritten,   \* bound: bytes the container writes
  Mark          \* [REDACTED]

ASSUME RunAssumption ==
  /\ IsFiniteSet(Channels)
  /\ Secrets \subseteq Seq(Bytes) \ {<<>>}
  /\ MaxBytes \in Nat \ {0} /\ MaxWritten \in Nat
  /\ Mark \notin Bytes

VARIABLES
  box,          \* the container: "running", "stopped"
  cli,          \* docker start --attach: "live", "exit", "signal"
  pipe,         \* [Channels -> Seq(Bytes)]: written and not yet read
  wrote,        \* history: all that was written
  reader,       \* [Channels -> "reading", "emitting", "done", "failed"]
  taken,        \* [Channels -> Seq(Bytes)]: the bytes accepted within the budget
  retained,         \* [Channels -> Seq(Bytes)]: the redactor's _buffer
  emission,     \* what the holder of the lock is awaiting the sink for
  emitted,      \* what the sink has accepted
  truncated, finished, stopAsked,
  run           \* execute(): where it is, and the reason it found

runVars == <<box, cli, pipe, wrote, reader, taken, retained, emission, emitted,
             truncated, finished, stopAsked, run>>

outputVars == <<reader, taken, retained, emission, emitted, truncated, finished>>

-----------------------------------------------------------------------------
\* The secrets are tried longest first, and equally long ones that match are equal.
SecretsAt(b) == {s \in Secrets : IsPrefix(s, b)}

MatchedLength(b) ==
  LET lengths == {Len(s) : s \in SecretsAt(b)}
  IN CHOOSE n \in lengths : \A k \in lengths : k <= n

\* The rest may still become a secret.
Undecided(b) == \E s \in Secrets : Len(b) < Len(s) /\ IsPrefix(b, s)

\* _drain(): the redacted output, and what stays in the buffer unless final.
Drain(buffer, final) ==
  LET drain[b \in Seq(Bytes)] ==
        IF b = <<>> THEN [out |-> <<>>, rest |-> <<>>]
        ELSE IF SecretsAt(b) # {}
          THEN LET r == drain[SubSeq(b, MatchedLength(b) + 1, Len(b))]
               IN [r EXCEPT !.out = <<Mark>> \o @]
        ELSE IF ~final /\ Undecided(b) THEN [out |-> <<>>, rest |-> b]
        ELSE LET r == drain[Tail(b)] IN [r EXCEPT !.out = <<Head(b)>> \o @]
  IN drain[buffer]

NoBytes == [ch \in Channels |-> <<>>]

NoEmission == [to |-> {}, bytes |-> <<>>]

RunInit ==
  /\ box = "running" /\ cli = "live"
  /\ pipe = NoBytes /\ wrote = NoBytes
  /\ reader = [ch \in Channels |-> "reading"]
  /\ taken = NoBytes /\ retained = NoBytes /\ emitted = NoBytes
  /\ emission = NoEmission
  /\ truncated = FALSE /\ finished = FALSE /\ stopAsked = FALSE
  /\ run = [at |-> "watching", reason |-> "none"]

Total(bytes) ==
  LET lengths[left \in SUBSET Channels] ==
        IF left = {} THEN 0
        ELSE LET ch == CHOOSE x \in left : TRUE
             IN Len(bytes[ch]) + lengths[left \ {ch}]
  IN lengths[Channels]

-----------------------------------------------------------------------------
(* The container and its CLI (external). *)

ContainerWrites(ch, byte) ==
  /\ box = "running" /\ cli = "live" /\ Total(wrote) < MaxWritten
  /\ pipe' = [pipe EXCEPT ![ch] = Append(@, byte)]
  /\ wrote' = [wrote EXCEPT ![ch] = Append(@, byte)]
  /\ UNCHANGED <<box, cli, outputVars, stopAsked, run>>

ContainerExits ==
  /\ box = "running" /\ box' = "stopped"
  /\ UNCHANGED <<cli, pipe, wrote, outputVars, stopAsked, run>>

\* The CLI ends after its container, or dies of a signal before it.
CliEnds ==
  /\ cli = "live"
  /\ cli' \in (IF box = "stopped" THEN {"exit", "signal"} ELSE {"signal"})
  /\ UNCHANGED <<box, pipe, wrote, outputVars, stopAsked, run>>

\* cancel_event.set()
AskToStop ==
  /\ ~stopAsked /\ stopAsked' = TRUE
  /\ UNCHANGED <<box, cli, pipe, wrote, outputVars, run>>

-----------------------------------------------------------------------------
(* The readers and the streamer. *)

\* Mutation: each channel has a budget of its own.
RemainingOfChannel(ch) == MaxBytes - Len(taken[ch])

\* self._max_bytes - self._total_bytes
RoomLeft(ch) == MaxBytes - Total(taken)

\* A reader goes on unless the limit has been reached.
AfterFeed(cut) == IF cut THEN "done" ELSE "reading"

\* read() and feed() up to the await of the sink, behind the streamer's lock.
Feed(ch) ==
  /\ reader[ch] = "reading" /\ pipe[ch] # <<>> /\ emission = NoEmission
  /\ \E n \in 1..Len(pipe[ch]) :
       LET data == SubSeq(pipe[ch], 1, n)
           accepted == SubSeq(data, 1, Min({n, RoomLeft(ch)}))
           drained == Drain(retained[ch] \o accepted, FALSE)
           cut == truncated \/ n > RoomLeft(ch)
       IN /\ pipe' = [pipe EXCEPT ![ch] = SubSeq(@, n + 1, Len(@))]
          /\ IF finished
               THEN /\ reader' = [reader EXCEPT ![ch] = "failed"]
                    /\ UNCHANGED <<taken, retained, emission, truncated>>
               ELSE /\ taken' = [taken EXCEPT ![ch] = @ \o accepted]
                    /\ retained' = [retained EXCEPT ![ch] = drained.rest]
                    /\ IF drained.out = <<>>
                         THEN /\ reader' = [reader EXCEPT ![ch] = AfterFeed(cut)]
                              /\ truncated' = cut
                              /\ UNCHANGED emission
                         ELSE /\ reader' = [reader EXCEPT ![ch] = "emitting"]
                              /\ emission' = [to |-> {[channel |-> ch, cut |-> cut]},
                                              bytes |-> drained.out]
                              /\ UNCHANGED truncated
  /\ UNCHANGED <<box, cli, wrote, emitted, finished, stopAsked, run>>

\* The sink has taken the bytes; the lock is released.
Emit ==
  \E to \in emission.to :
    /\ emitted' = [emitted EXCEPT ![to.channel] = @ \o emission.bytes]
    /\ reader' = [reader EXCEPT ![to.channel] = AfterFeed(to.cut)]
    /\ truncated' = to.cut
    /\ emission' = NoEmission
    /\ UNCHANGED <<box, cli, pipe, wrote, taken, retained, finished, stopAsked, run>>

\* OutputSinkError: the sink failed or did not answer in time.
EmitFails ==
  \E to \in emission.to :
    /\ reader' = [reader EXCEPT ![to.channel] = "failed"]
    /\ emission' = NoEmission
    /\ UNCHANGED <<box, cli, pipe, wrote, taken, retained, emitted, truncated, finished, stopAsked, run>>

ReadEof(ch) ==
  /\ reader[ch] = "reading" /\ pipe[ch] = <<>> /\ cli # "live"
  /\ reader' = [reader EXCEPT ![ch] = "done"]
  /\ UNCHANGED <<box, cli, pipe, wrote, taken, retained, emission, emitted, truncated, finished,
                 stopAsked, run>>

-----------------------------------------------------------------------------
(* execute() *)

\* gather() is done when all are, or when the first one has failed.
SomeReaderFailed == \E ch \in Channels : reader[ch] = "failed"

ReadersDone == (\A ch \in Channels : reader[ch] = "done") \/ SomeReaderFailed

\* What asyncio.wait() may have found done.
Happened ==
  {e \in {"process", "limit", "readers", "cancel"} :
     \/ e = "process" /\ cli # "live"
     \/ e = "limit" /\ truncated
     \/ e = "readers" /\ ReadersDone
     \/ e = "cancel" /\ stopAsked}

ExitReason == IF cli = "exit" THEN "exited" ELSE "runtime_failure"

Reason(done) ==
  IF done = {} THEN "timed_out"
  ELSE IF "cancel" \in done THEN "cancelled"
  ELSE IF "limit" \in done THEN "output_limit"
  ELSE IF "readers" \in done /\ SomeReaderFailed THEN "output_failure"
  ELSE ExitReason

\* Several events may have happened when the task resumes; the timeout is taken
\* only when none has.  Readers that are done await the process.
DecideEnd ==
  /\ run.at = "watching"
  /\ \E done \in SUBSET Happened :
       /\ done = {} => Happened = {}
       /\ Reason(done) = ExitReason => cli # "live"
       /\ run' = [at |-> IF Reason(done) = "exited" THEN "joining" ELSE "killing",
                  reason |-> Reason(done)]
  /\ UNCHANGED <<box, cli, pipe, wrote, outputVars, stopAsked>>

\* docker kill succeeds on a running container; the CLI is terminated.
Kill ==
  /\ run.at = "killing" /\ box = "running"
  /\ box' = "stopped"
  /\ cli' = (IF cli = "live" THEN "signal" ELSE cli)
  /\ run' = [run EXCEPT !.at = "joining"]
  /\ UNCHANGED <<pipe, wrote, outputVars, stopAsked>>

\* docker kill fails: on a container that has stopped, or by itself.  execute()
\* raises and kills the CLI; the readers are left to themselves.
KillFails ==
  /\ run.at = "killing"
  /\ cli' = (IF cli = "live" THEN "signal" ELSE cli)
  /\ run' = [run EXCEPT !.at = "raised"]
  /\ UNCHANGED <<box, pipe, wrote, outputVars, stopAsked>>

\* gather(process_wait) and gather(readers)
Joined == cli # "live" /\ ReadersDone

Trailing == [ch \in Channels |-> Drain(retained[ch], TRUE).out]

\* streamer.finish() behind the lock, and the result.  The sink may fail in it.
Finish ==
  /\ run.at = "joining" /\ Joined /\ emission = NoEmission
  /\ finished' = TRUE
  /\ retained' = NoBytes
  /\ \/ /\ emitted' = [ch \in Channels |-> emitted[ch] \o Trailing[ch]]
        /\ run' = [run EXCEPT !.at = "returned"]
     \/ /\ \E ch \in Channels : Trailing[ch] # <<>>
        /\ emitted' = emitted
        /\ run' = [run EXCEPT !.at = "raised"]
  /\ UNCHANGED <<box, cli, pipe, wrote, reader, taken, emission, truncated, stopAsked>>

RunNext ==
  \/ \E ch \in Channels, byte \in Bytes : ContainerWrites(ch, byte)
  \/ ContainerExits \/ CliEnds \/ AskToStop
  \/ \E ch \in Channels : Feed(ch) \/ ReadEof(ch)
  \/ Emit \/ EmitFails
  \/ DecideEnd \/ Kill \/ KillFails \/ Finish

RunSpec == RunInit /\ [][RunNext]_runVars

-----------------------------------------------------------------------------
PrefixFree == \A s, t \in Secrets : IsPrefix(s, t) => s = t

\* The two readers never accept more than the one budget.  When execute() returns,
\* the container has stopped, and unless the sink failed it has been given exactly
\* the redaction of what was accepted on each channel, wherever the reads split
\* it; if the execution ended by itself and nothing was cut, that is all the
\* container wrote.  (Only for secrets none of which begins with another: after
\* the shorter one the rest of the longer one would depend on the reads.)
OutputAccounted ==
  /\ Total(taken) <= MaxBytes
  /\ run.at = "returned" =>
       /\ box = "stopped"
       /\ ~SomeReaderFailed =>
            \A ch \in Channels :
              /\ PrefixFree => emitted[ch] = Drain(taken[ch], TRUE).out
              /\ run.reason = "exited" /\ ~truncated => taken[ch] = wrote[ch]

=============================================================================
