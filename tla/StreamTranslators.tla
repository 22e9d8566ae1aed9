-------------------------- MODULE StreamTranslators --------------------------
(***************************************************************************)
(* The stream translators of the gateway (zeaz_provider/streaming.py): a   *)
(* provider's chunks in one protocol become the client's events in         *)
(* another, with an index space of its own for content blocks and tools.   *)
(*                                                                         *)
(* An event is a kind, the index it carries and what it is about: Text,    *)
(* or the provider's index of a tool.  A chunk with several tool calls is  *)
(* treated by the code call by call and is several chunks here.            *)
(***************************************************************************)
EXTENDS Integers, Sequences, FiniteSets

CONSTANTS
  ToolIndexes,   \* the indexes a provider gives its tools or blocks
  MaxChunks      \* bound: what a provider sends

ASSUME TranslatorAssumption == ToolIndexes \subseteq Nat /\ MaxChunks \in Nat

VARIABLES
  translator,    \* which of the three
  phase,         \* "open", "closed", "failed"
  begun,         \* started / created
  textBegun,     \* text_started
  toolBlocks,    \* tool_blocks / tool_indexes
  nextBlock,     \* next_block
  events,        \* what the client has been sent
  chunks,        \* bounded by MaxChunks
  lawful         \* history: what the provider has kept to, see below

translatorVars ==
  <<translator, phase, begun, textBegun, toolBlocks, nextBlock, events, chunks, lawful>>

-----------------------------------------------------------------------------
Text == -1   \* what an event about a text is of; tools have their indexes

Ev(kind, index, of) == [kind |-> kind, index |-> index, of |-> of]

Begin == Ev("begin", 0, "message")
Failure == Ev("error", 0, "message")
FinishEvent == Ev("finish", 0, "message")

\* The provider ends with one finish; a tool of the Anthropic protocol is begun once,
\* before its deltas.  Its text may begin after its calls: callsFirst.
Lawful == [kept |-> TRUE, callsFirst |-> FALSE, called |-> FALSE, finishing |-> FALSE]

TranslatorInit ==
  /\ translator \in {"anthropic_to_chat", "chat_to_anthropic", "chat_to_responses"}
  /\ phase = "open" /\ begun = FALSE /\ textBegun = FALSE
  /\ toolBlocks = <<>> /\ nextBlock = 0 /\ events = <<>>
  /\ chunks = 0 /\ lawful = Lawful

Receive ==
  /\ phase = "open" /\ chunks < MaxChunks
  /\ chunks' = chunks + 1
  /\ UNCHANGED translator

Extended(map, key, value) == [k \in DOMAIN map \union {key} |-> IF k = key THEN value ELSE map[k]]

-----------------------------------------------------------------------------
(* chat_to_anthropic_stream() *)

\* message_start comes with the first chunk, or at the end.
Opening == IF begun THEN <<>> ELSE <<Begin>>

TextEvents(text) ==
  IF ~text THEN <<>>
  ELSE (IF textBegun THEN <<>> ELSE <<Ev("start", 0, Text)>>) \o <<Ev("delta", 0, Text)>>

\* The text's block counts as one, but has index 0 whatever came before it.
BlocksAfterText(text) == IF text /\ ~textBegun THEN nextBlock + 1 ELSE nextBlock

\* Mutation: a tool's block has the index the provider gave it.
BlockAsGiven(tool, blocks) == tool

\* The index of a tool's block: the one it has, or the next.
BlockOf(tool, blocks) == IF tool \in DOMAIN toolBlocks THEN toolBlocks[tool] ELSE blocks

CallEvents(tool, arguments, blocks) ==
  (IF tool \in DOMAIN toolBlocks THEN <<>> ELSE <<Ev("start", BlockOf(tool, blocks), tool)>>)
  \o (IF arguments THEN <<Ev("delta", BlockOf(tool, blocks), tool)>> ELSE <<>>)

Closing(blocks) == [i \in 1..blocks |-> Ev("stop", i - 1, "block")] \o <<FinishEvent>>

\* A chunk of one choice: a text, the call of a tool with or without a piece of
\* its arguments, and perhaps a finish_reason.  calls is {} or {a tool}.
ChatToAnthropic(text, calls, arguments, finish) ==
  LET afterText == BlocksAfterText(text)
      blocks == afterText + Cardinality(calls \ DOMAIN toolBlocks)
      called == IF calls = {} THEN <<>>
                ELSE CallEvents(CHOOSE t \in calls : TRUE, arguments, afterText)
  IN /\ translator = "chat_to_anthropic" /\ Receive
     /\ begun' = TRUE
     /\ textBegun' = (textBegun \/ text)
     /\ nextBlock' = blocks
     /\ toolBlocks' = [t \in DOMAIN toolBlocks \union calls |-> BlockOf(t, afterText)]
     /\ events' = events \o Opening \o TextEvents(text) \o called
                  \o (IF finish THEN Closing(blocks) ELSE <<>>)
     /\ lawful' = [kept |-> lawful.kept /\ ~lawful.finishing,
                   callsFirst |-> lawful.callsFirst \/ (text /\ ~textBegun /\ lawful.called),
                   called |-> lawful.called \/ calls # {}, finishing |-> finish]
     /\ UNCHANGED phase

-----------------------------------------------------------------------------
(* chat_to_responses_stream(): one item for the text; calls are not passed on. *)

OpeningItem == IF begun THEN <<>> ELSE <<Begin, Ev("start", 0, Text)>>

ChatToResponses(text, calls, finish) ==
  /\ translator = "chat_to_responses" /\ Receive
  /\ begun' = TRUE
  /\ events' = events \o OpeningItem
       \o (IF text THEN <<Ev("delta", 0, Text)>> ELSE <<>>)
       \o (IF finish THEN <<FinishEvent>> ELSE <<>>)
  /\ lawful' = [lawful EXCEPT !.kept = @ /\ ~lawful.finishing, !.finishing = finish]
  /\ UNCHANGED <<phase, textBegun, toolBlocks, nextBlock>>

-----------------------------------------------------------------------------
(* anthropic_to_chat_stream() *)

MessageStart ==
  /\ events' = Append(events, Begin) /\ begun' = TRUE
  /\ lawful' = [lawful EXCEPT !.kept = @ /\ ~begun]
  /\ UNCHANGED toolBlocks

\* content_block_start of a tool_use: its chat index is the number of tools so far.
ToolStart(block) ==
  /\ toolBlocks' = Extended(toolBlocks, block, Cardinality(DOMAIN toolBlocks))
  /\ events' = Append(events, Ev("start", Cardinality(DOMAIN toolBlocks), block))
  /\ lawful' = [lawful EXCEPT !.kept = @ /\ begun /\ block \notin DOMAIN toolBlocks]
  /\ UNCHANGED begun

\* input_json_delta: tool_indexes.get(block_index, block_index)
ToolDelta(block) ==
  /\ events' = Append(events,
       Ev("delta", IF block \in DOMAIN toolBlocks THEN toolBlocks[block] ELSE block, block))
  /\ lawful' = [lawful EXCEPT !.kept = @ /\ block \in DOMAIN toolBlocks]
  /\ UNCHANGED <<begun, toolBlocks>>

MessageDelta ==
  /\ events' = Append(events, FinishEvent)
  /\ lawful' = [lawful EXCEPT !.kept = @ /\ begun /\ ~lawful.finishing, !.finishing = TRUE]
  /\ UNCHANGED <<begun, toolBlocks>>

\* text_delta: the content of a chat chunk has no index.
TextDelta ==
  /\ events' = Append(events, Ev("content", 0, Text))
  /\ lawful' = [lawful EXCEPT !.kept = @ /\ begun]
  /\ UNCHANGED <<begun, toolBlocks>>

\* An error event is passed on, and the stream goes on.
ErrorPassed ==
  /\ events' = Append(events, Failure)
  /\ lawful' = [lawful EXCEPT !.kept = @ /\ begun]
  /\ UNCHANGED <<begun, toolBlocks>>

AnthropicToChat ==
  /\ translator = "anthropic_to_chat" /\ Receive
  /\ \/ MessageStart \/ TextDelta \/ MessageDelta \/ ErrorPassed
     \/ \E block \in ToolIndexes : ToolStart(block) \/ ToolDelta(block)
  /\ UNCHANGED <<phase, textBegun, nextBlock>>

-----------------------------------------------------------------------------
\* Data that is no JSON object, an error object, or a field of another type than
\* it should be: an error event and the end, with the opening when it comes first.
Malformed(opened) ==
  /\ phase = "open"
  /\ phase' = "failed"
  /\ opened => translator # "anthropic_to_chat"
  /\ events' = events
       \o (IF ~opened THEN <<>>
           ELSE IF translator = "chat_to_anthropic" THEN Opening ELSE OpeningItem)
       \o <<Failure>>
  /\ UNCHANGED <<translator, begun, textBegun, toolBlocks, nextBlock, chunks, lawful>>

\* [DONE], or the provider's last byte.
StreamEnds ==
  /\ phase = "open"
  /\ phase' = "closed"
  /\ events' = events \o (IF translator = "chat_to_anthropic" THEN Opening ELSE <<>>)
       \o <<Ev("end", 0, "message")>>
  /\ lawful' = [lawful EXCEPT !.kept = @ /\ lawful.finishing]
  /\ UNCHANGED <<translator, begun, textBegun, toolBlocks, nextBlock, chunks>>

TranslatorNext ==
  \/ \E text, arguments, finish \in BOOLEAN, calls \in {{}} \union {{t} : t \in ToolIndexes} :
       \/ ChatToAnthropic(text, calls, arguments, finish)
       \/ ChatToResponses(text, calls, finish)
  \/ AnthropicToChat
  \/ \E opened \in BOOLEAN : Malformed(opened)
  \/ StreamEnds

TranslatorSpec == TranslatorInit /\ [][TranslatorNext]_translatorVars

-----------------------------------------------------------------------------
Places(kind) == {i \in DOMAIN events : events[i].kind = kind}

\* From a provider that keeps to its own protocol, the client can put the stream
\* together: it is begun once and first, no two tools begin with one index, every
\* piece comes after the beginning of what it belongs to and with that index, and a
\* stream that ends is finished once, its blocks stopped.  That the text has an index
\* of its own holds only if it came before the tool calls: a text that begins after
\* them goes back to index 0, which a tool may have (README section 5).
OfOneSort(i, j) == events[i].of = Text <=> events[j].of = Text

StreamCoherent ==
  lawful.kept =>
    /\ \A i, j \in Places("start") :
         events[i].index = events[j].index /\ (lawful.callsFirst => OfOneSort(i, j)) => i = j
    /\ \A d \in Places("delta") : \E s \in Places("start") :
         s < d /\ events[s].index = events[d].index /\ events[s].of = events[d].of
    /\ \A i \in Places("begin") : i = 1
    /\ phase = "closed" =>
         /\ Cardinality(Places("begin")) = 1 /\ Cardinality(Places("finish")) = 1
         /\ translator = "chat_to_anthropic" =>
              \A s \in Places("start") :
                \E t \in Places("stop") : events[t].index = events[s].index

=============================================================================
