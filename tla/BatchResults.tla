---------------------------- MODULE BatchResults ----------------------------
(***************************************************************************)
(* The results of a batch: the provider's output file arrives in chunks    *)
(* that end anywhere (adapters.py, download_file()), is cut into lines in  *)
(* a buffer (batch_results()), and each line, parsed, is passed on once    *)
(* (BatchService.results()).  A line is a sequence of tokens and names the *)
(* request it answers; one with a token of Broken does not parse.          *)
(***************************************************************************)
EXTENDS Integers, Sequences, FiniteSets, SequencesExt, Sums

CONSTANTS
  Letters,       \* tokens of lines
  Broken,        \* those that no valid line has
  Newline,
  MaxLine,       \* bytes of a line, 16 MiB
  MaxResults,    \* max_result_count
  MaxResultBytes,   \* max_result_bytes, a result counted as its line
  MaxOutput      \* bound: length of the output file

ASSUME ResultsAssumption ==
  /\ Newline \notin Letters /\ Broken \subseteq Letters
  /\ MaxLine \in Nat /\ MaxResults \in Nat /\ MaxResultBytes \in Nat /\ MaxOutput \in Nat

VARIABLES
  output,        \* the output file
  arrived,       \* how much of it has arrived
  lineBuffer,    \* buffer
  passedOn,      \* the results passed on
  resultsReader  \* "reading", "draining" (lines are in the buffer), "complete", "refused"
                 \* (an error of the adapter or the service), "broken" (the download's)

resultsVars == <<output, arrived, lineBuffer, passedOn, resultsReader>>

ResultsInit ==
  /\ output \in UNION {[1..n -> Letters \union {Newline}] : n \in 0..MaxOutput}
  /\ arrived = 0 /\ lineBuffer = <<>> /\ passedOn = <<>> /\ resultsReader = "reading"

-----------------------------------------------------------------------------
\* newline := buffer.find(b"\n")
Ends == {i \in DOMAIN lineBuffer : lineBuffer[i] = Newline}

\* Mutation: the length of the buffer is what counts, whatever lines it holds.
TooLongBuffer(buffer) == Len(buffer) > MaxLine

\* A line that is too long already, though its end has not arrived.
TooLong(buffer) == Len(buffer) > MaxLine /\ Newline \notin ToSet(buffer)

\* A chunk arrives.
ChunkArrives ==
  /\ resultsReader = "reading" /\ arrived < Len(output)
  /\ \E n \in (arrived + 1)..Len(output) :
       /\ lineBuffer' = lineBuffer \o SubSeq(output, arrived + 1, n)
       /\ arrived' = n
       /\ resultsReader' = IF TooLong(lineBuffer') THEN "refused"
                    ELSE IF Newline \in ToSet(lineBuffer') THEN "draining" ELSE "reading"
  /\ UNCHANGED <<output, passedOn>>

\* _openai_batch_result(): a response or an error, with the custom_id of its request.
Parses(line) == ToSet(line) \intersect Broken = {}

LineBytes(lines) == SumTo([i \in DOMAIN lines |-> Len(lines[i])], Len(lines))

\* results(): a custom_id not seen before, within both limits.
PassesOn(line) ==
  /\ line \notin ToSet(passedOn) /\ Len(passedOn) < MaxResults
  /\ LineBytes(passedOn) + Len(line) <= MaxResultBytes

Yielded(line, next) ==
  IF line = <<>> THEN resultsReader' = next /\ passedOn' = passedOn
  ELSE IF Parses(line) /\ PassesOn(line)
       THEN resultsReader' = next /\ passedOn' = Append(passedOn, line)
       ELSE resultsReader' = "refused" /\ passedOn' = passedOn

\* del buffer[: newline + 1]
Rest(buffer, end) == SubSeq(buffer, end + 1, Len(buffer))

\* The first line of the buffer is cut off; blank ones are skipped.
CutLine ==
  /\ resultsReader = "draining"
  /\ LET end == CHOOSE i \in Ends : \A j \in Ends : i <= j
         rest == Rest(lineBuffer, end) IN
     IF end - 1 > MaxLine THEN resultsReader' = "refused" /\ UNCHANGED <<lineBuffer, passedOn>>
     ELSE /\ lineBuffer' = rest
          /\ Yielded(SubSeq(lineBuffer, 1, end - 1),
                     IF Newline \in ToSet(rest) THEN "draining" ELSE "reading")
  /\ UNCHANGED <<output, arrived>>

\* The file has ended; what is left is a line without its newline.
OutputEnds ==
  /\ resultsReader = "reading" /\ arrived = Len(output)
  /\ IF Len(lineBuffer) > MaxLine THEN resultsReader' = "refused" /\ UNCHANGED <<lineBuffer, passedOn>>
     ELSE lineBuffer' = <<>> /\ Yielded(lineBuffer, "complete")
  /\ UNCHANGED <<output, arrived>>

\* The stream breaks off, is a redirect or a status: what was passed on stays so.
OutputFails ==
  /\ resultsReader = "reading" /\ resultsReader' = "broken"
  /\ UNCHANGED <<output, arrived, lineBuffer, passedOn>>

ResultsNext == ChunkArrives \/ CutLine \/ OutputEnds \/ OutputFails
ResultsSpec == ResultsInit /\ [][ResultsNext]_resultsVars

-----------------------------------------------------------------------------
\* The lines of the output file: each from its first token to the next newline, in order.
LineStarts ==
  {i \in DOMAIN output : output[i] # Newline /\ (i = 1 \/ output[i - 1] = Newline)}

LineAt(start) ==
  LET end == CHOOSE i \in start..Len(output) :
               /\ \A j \in start..i : output[j] # Newline
               /\ i = Len(output) \/ output[i + 1] = Newline
  IN SubSeq(output, start, end)

OutputLines == [n \in 1..Cardinality(LineStarts) |-> LineAt(Ascending(LineStarts)[n])]

\* Lines there is no reason to refuse.
Acceptable(lines) ==
  /\ IsInjective(lines) /\ Len(lines) <= MaxResults /\ LineBytes(lines) <= MaxResultBytes
  /\ \A i \in DOMAIN lines : Parses(lines[i]) /\ Len(lines[i]) <= MaxLine

\* Wherever the chunks end: what is passed on are lines of the file in order, valid,
\* none twice and within every limit; a stream that completes has passed on all of
\* them; and a file is refused only if its lines are not all valid, distinct and within
\* the limits (results() and batch_results(); a download that fails is another matter).
ResultsExact ==
  /\ IsPrefix(passedOn, OutputLines) /\ Acceptable(passedOn)
  /\ resultsReader = "complete" => passedOn = OutputLines
  /\ resultsReader = "refused" => ~Acceptable(OutputLines)

=============================================================================
