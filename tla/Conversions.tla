---------------------------- MODULE Conversions ----------------------------
(***************************************************************************)
(* A dialogue through the gateway when client and provider speak different *)
(* protocols: normalize.py and _anthropic_to_openai_response of main.py.   *)
(* At each turn the whole dialogue, as the client keeps it, is converted   *)
(* for the provider, whose answer is converted for the client and becomes  *)
(* part of the dialogue.  Texts, images, calls and results are identifiers;*)
(* options, tools and usage are left out.                                  *)
(***************************************************************************)
EXTENDS Integers, Sequences, FiniteSets, SequencesExt

CONSTANT MaxBlocks   \* bound: blocks of a dialogue

ASSUME ConversionAssumption == MaxBlocks \in Nat

VARIABLES
  clientApi,     \* "anthropic", "chat" or "responses"
  providerApi,   \* "anthropic" or "chat"
  dialogue,      \* the client's messages, in its protocol
  turn,          \* whose turn it is
  blocks,        \* the identifiers used up
  exchange       \* [gave, got]: the provider's last answer and the client's

conversionVars == <<clientApi, providerApi, dialogue, turn, blocks, exchange>>

-----------------------------------------------------------------------------
(* Wire formats.  A block is of a kind and stands for the originals in ids. *)

Block(kind, id) == [kind |-> kind, ids |-> <<id>>]
BlocksOf(kinds, bs) ==
  FlattenSeq([i \in DOMAIN bs |-> IF bs[i].kind \in kinds THEN <<bs[i]>> ELSE <<>>])
Originals(bs) == FlattenSeq([i \in DOMAIN bs |-> bs[i].ids])
CallBlocks(ids) == [i \in DOMAIN ids |-> Block("call", ids[i])]

\* The roles of messages and of items; those of calls and results have none.
Roles == {"system", "user", "assistant", "tool", "none"}

\* An Anthropic message has blocks of all kinds; system is a role of its own here.
AnthropicMessage(role, bs) == [role |-> role, blocks |-> bs]

\* A chat message has parts (texts and images) and calls, or answers a call.
ChatMessage(role, parts, calls) == [role |-> role, parts |-> parts, calls |-> calls, answers |-> 0]
ToolMessage(id) == [role |-> "tool", parts |-> <<>>, calls |-> <<>>, answers |-> id]

\* An item of a Responses request is a message, a function_call or its output.
MessageItem(role, parts) == [type |-> "message", role |-> role, parts |-> parts, call |-> 0]
CallItem(type, id) == [type |-> type, role |-> "none", parts |-> <<>>, call |-> id]

-----------------------------------------------------------------------------
(* Requests. *)

\* Mutation: a message has either content or calls.
ChatOfEither(m) ==
  LET parts == BlocksOf({"text", "image"}, m.blocks)
      results == Originals(BlocksOf({"result"}, m.blocks))
  IN (IF parts # <<>> THEN <<ChatMessage(m.role, parts, <<>>)>> ELSE <<>>)
       \o [i \in DOMAIN results |-> ToolMessage(results[i])]

\* anthropic_to_openai(), a message: its results follow what else it says.
ChatOf(m) ==
  LET parts == BlocksOf({"text", "image"}, m.blocks)
      calls == Originals(BlocksOf({"call"}, m.blocks))
      results == Originals(BlocksOf({"result"}, m.blocks))
  IN (IF parts # <<>> \/ calls # <<>> THEN <<ChatMessage(m.role, parts, calls)>> ELSE <<>>)
       \o [i \in DOMAIN results |-> ToolMessage(results[i])]

ChatFromAnthropic(messages) == FlattenSeq([i \in DOMAIN messages |-> ChatOf(messages[i])])

\* The messages of roles.
OfRoles(roles, messages) ==
  FlattenSeq([i \in DOMAIN messages |->
                IF messages[i].role \in roles THEN <<messages[i]>> ELSE <<>>])

\* openai_request_to_anthropic(): system messages are taken out and come first.
AnthropicOf(m) ==
  IF m.role = "tool" THEN AnthropicMessage("user", <<Block("result", m.answers)>>)
  ELSE AnthropicMessage(m.role, m.parts \o CallBlocks(m.calls))

AnthropicFromChat(messages) ==
  LET systems == OfRoles({"system"}, messages)
      rest == OfRoles(Roles \ {"system"}, messages)
  IN (IF systems = <<>> THEN <<>>
      ELSE <<AnthropicMessage("system", FlattenSeq([i \in DOMAIN systems |-> systems[i].parts]))>>)
       \o [i \in DOMAIN rest |-> AnthropicOf(rest[i])]

\* responses_to_chat(): a message for each item, for each function_call as well.
ChatOfItem(item) ==
  CASE item.type = "function_call_output" -> ToolMessage(item.call)
    [] item.type = "function_call" -> ChatMessage("assistant", <<>>, <<item.call>>)
    [] item.type = "message" -> ChatMessage(item.role, item.parts, <<>>)

ChatFromItems(items) == [i \in DOMAIN items |-> ChatOfItem(items[i])]

\* What the provider gets.
Converted ==
  CASE clientApi = "anthropic" -> ChatFromAnthropic(dialogue)
    [] clientApi = "chat" -> AnthropicFromChat(dialogue)
    [] clientApi = "responses" /\ providerApi = "chat" -> ChatFromItems(dialogue)
    [] clientApi = "responses" /\ providerApi = "anthropic" ->
         AnthropicFromChat(ChatFromItems(dialogue))

-----------------------------------------------------------------------------
(* Answers, [blocks, reason]; the blocks of a chat answer are its texts and *)
(* then its calls.                                                          *)

\* openai_to_anthropic().
AnthropicAnswer(answer) ==
  [blocks |-> answer.blocks,
   reason |-> CASE answer.reason = "tool_calls" -> "tool_use"
                [] answer.reason = "length" -> "max_tokens"
                [] OTHER -> "end_turn"]

\* _anthropic_to_openai_response(): one text of all, then the calls.
ChatAnswer(answer) ==
  LET texts == BlocksOf({"text"}, answer.blocks)
      calls == BlocksOf({"call"}, answer.blocks)
  IN [blocks |-> (IF texts = <<>> THEN <<>> ELSE <<[kind |-> "text", ids |-> Originals(texts)]>>)
                   \o calls,
      reason |-> IF calls # <<>> THEN "tool_calls"
                 ELSE IF answer.reason = "max_tokens" THEN "length" ELSE "stop"]

\* chat_to_responses(): "completed", whatever the reason.
ResponsesAnswer(answer) ==
  [blocks |-> BlocksOf({"text"}, answer.blocks) \o BlocksOf({"call"}, answer.blocks),
   reason |-> "completed"]

\* What the client gets.
ConvertedAnswer(answer) ==
  CASE clientApi = "anthropic" -> AnthropicAnswer(answer)
    [] clientApi = "chat" -> ChatAnswer(answer)
    [] clientApi = "responses" ->
         ResponsesAnswer(IF providerApi = "chat" THEN answer ELSE ChatAnswer(answer))

\* The answer as the client keeps it in its dialogue.
Kept(answer) ==
  LET texts == BlocksOf({"text"}, answer.blocks)
      calls == Originals(BlocksOf({"call"}, answer.blocks))
  IN CASE clientApi = "anthropic" -> <<AnthropicMessage("assistant", answer.blocks)>>
       [] clientApi = "chat" -> <<ChatMessage("assistant", texts, calls)>>
       [] clientApi = "responses" ->
            (IF texts = <<>> THEN <<>> ELSE <<MessageItem("assistant", texts)>>)
              \o [i \in DOMAIN calls |-> CallItem("function_call", calls[i])]

-----------------------------------------------------------------------------
ConversionInit ==
  /\ \/ clientApi = "anthropic" /\ providerApi = "chat"
     \/ clientApi = "chat" /\ providerApi = "anthropic"
     \/ clientApi = "responses" /\ providerApi \in {"chat", "anthropic"}
  /\ dialogue = <<>> /\ turn = "client" /\ blocks = 0
  /\ exchange = [gave |-> [blocks |-> <<>>, reason |-> "none"],
                 got  |-> [blocks |-> <<>>, reason |-> "none"]]

CallsOf(answer) == Originals(BlocksOf({"call"}, answer.blocks))

\* A message of the client, in its protocol.
OwnMessage(role, parts) ==
  CASE clientApi = "anthropic" -> <<AnthropicMessage(role, parts)>>
    [] clientApi = "chat" -> <<ChatMessage(role, parts, <<>>)>>
    [] clientApi = "responses" -> <<MessageItem(role, parts)>>

\* The results of the calls of the last answer; an Anthropic client may say more
\* in the same message, the others in a message after them.
ResultMessages(ids, more) ==
  CASE clientApi = "anthropic" ->
         <<AnthropicMessage("user", [i \in DOMAIN ids |-> Block("result", ids[i])] \o more)>>
    [] clientApi = "chat" ->
         [i \in DOMAIN ids |-> ToolMessage(ids[i])]
           \o (IF more = <<>> THEN <<>> ELSE OwnMessage("user", more))
    [] clientApi = "responses" ->
         [i \in DOMAIN ids |-> CallItem("function_call_output", ids[i])]
           \o (IF more = <<>> THEN <<>> ELSE OwnMessage("user", more))

\* The client answers the calls, or asks; its request is then served.
Speak ==
  /\ turn = "client" /\ blocks < MaxBlocks
  /\ \E kind \in {"text", "image"} :
       LET said == <<Block(kind, blocks + 1)>>
           ids == CallsOf(exchange.got)
       IN \/ /\ ids = <<>> /\ dialogue' = dialogue \o OwnMessage("user", said)
             /\ blocks' = blocks + 1
          \/ /\ ids # <<>> /\ dialogue' = dialogue \o ResultMessages(ids, said)
             /\ blocks' = blocks + 1
          \/ /\ ids # <<>> /\ dialogue' = dialogue \o ResultMessages(ids, <<>>)
             /\ UNCHANGED blocks
  /\ turn' = "provider"
  /\ UNCHANGED <<clientApi, providerApi, exchange>>

\* An instruction; Anthropic clients have theirs outside the messages.
Instruct ==
  /\ turn = "client" /\ blocks < MaxBlocks /\ CallsOf(exchange.got) = <<>>
  /\ clientApi = "anthropic" => dialogue = <<>>
  /\ dialogue' = dialogue \o OwnMessage("system", <<Block("text", blocks + 1)>>)
  /\ blocks' = blocks + 1
  /\ UNCHANGED <<clientApi, providerApi, turn, exchange>>

\* What a provider answers: texts and calls, of a chat provider in that order, with
\* the reason that goes with them, or cut by the token limit.
Answers ==
  LET Shapes == {<<"text">>, <<"call">>, <<"text", "call">>, <<"call", "call">>}
                  \union (IF providerApi = "chat" THEN {} ELSE {<<"text", "call", "text">>})
      Reason(shape, cut) ==
        IF providerApi = "chat"
        THEN IF cut THEN "length" ELSE IF "call" \in ToSet(shape) THEN "tool_calls" ELSE "stop"
        ELSE IF cut THEN "max_tokens" ELSE IF "call" \in ToSet(shape) THEN "tool_use" ELSE "end_turn"
  IN {[blocks |-> [i \in DOMAIN shape |-> Block(shape[i], blocks + i)], reason |-> Reason(shape, cut)] :
        shape \in Shapes, cut \in BOOLEAN}

\* chat_completions(), messages(), responses(): the request converted, asked, answered.
\* (An error of the provider changes nothing: the client may ask again.)
ServeTurn ==
  /\ turn = "provider"
  /\ \E answer \in Answers :
       /\ blocks + Len(answer.blocks) <= MaxBlocks
       /\ blocks' = blocks + Len(answer.blocks)
       /\ exchange' = [gave |-> answer, got |-> ConvertedAnswer(answer)]
       /\ dialogue' = dialogue \o Kept(ConvertedAnswer(answer))
  /\ turn' = "client"
  /\ UNCHANGED <<clientApi, providerApi>>

ConversionNext == Speak \/ Instruct \/ ServeTurn

ConversionSpec == ConversionInit /\ [][ConversionNext]_conversionVars

-----------------------------------------------------------------------------
\* The blocks of a message of any format.
BlocksIn(m, api) ==
  CASE api = "anthropic" -> m.blocks
    [] api = "chat" -> m.parts \o CallBlocks(m.calls)
                         \o (IF m.role = "tool" THEN <<Block("result", m.answers)>> ELSE <<>>)
    [] api = "responses" ->
         m.parts \o (IF m.type = "function_call" THEN <<Block("call", m.call)>>
                     ELSE IF m.type = "function_call_output" THEN <<Block("result", m.call)>> ELSE <<>>)

\* What the messages of roles say of a kind, in order.
Said(messages, api, kind, roles) ==
  LET mine == OfRoles(roles, messages)
  IN Originals(BlocksOf({kind}, FlattenSeq([i \in DOMAIN mine |-> BlocksIn(mine[i], api)])))

\* Each result comes after its call.
ResultsFollow(messages, api) ==
  LET all == FlattenSeq([i \in DOMAIN messages |-> BlocksIn(messages[i], api)])
  IN \A i \in DOMAIN all : all[i].kind = "result" =>
       \E k \in 1..(i - 1) : all[k].kind = "call" /\ all[k].ids = all[i].ids

\* A chat provider wants the results of a message's calls right after it.  The code
\* breaks that order for an Anthropic message that has results and says more (what it
\* says is put first) and for calls that are Responses items of their own and come
\* together (each becomes a message); a dialogue without those two is SeparateResults.
SeparateResults ==
  \A i \in DOMAIN dialogue :
    /\ clientApi = "anthropic" =>
         LET kinds == {b.kind : b \in ToSet(dialogue[i].blocks)}
         IN "result" \in kinds => kinds = {"result"}
    /\ clientApi = "responses" /\ i > 1 =>
         ~(dialogue[i].type = "function_call" /\ dialogue[i - 1].type = "function_call")

ResultsAdjacent(messages) ==
  \A i \in 1..(Len(messages) - 1), k \in 1..2 :
    k <= Len(messages[i].calls) =>
      i + k <= Len(messages) /\ messages[i + k].answers = messages[i].calls[k]

\* Whatever a dialogue has become, turn after turn and converted to and fro, the
\* provider gets every text, image, call and result of it, each kind in its order and
\* nothing twice, and results after their calls; right after them only in a dialogue
\* without the two cases of SeparateResults, in which the code puts other messages
\* between them (README section 5).  And the client gets every text and call of an
\* answer.  Unless it speaks Responses, which is told "completed" whatever happened, it
\* is told to run tools if the provider said so, and only if there are calls; of an
\* answer that was cut it is told that, or (a chat client) to run the calls it got.
DialogueKept ==
  /\ \A kind \in {"text", "image", "call", "result"}, roles \in {{"system"}, Roles \ {"system"}} :
       Said(Converted, providerApi, kind, roles) = Said(dialogue, clientApi, kind, roles)
  /\ ResultsFollow(Converted, providerApi)
  /\ providerApi = "chat" /\ SeparateResults => ResultsAdjacent(Converted)
  /\ LET gave == exchange.gave  got == exchange.got IN
     /\ \A kind \in {"text", "call"} :
          Originals(BlocksOf({kind}, gave.blocks)) = Originals(BlocksOf({kind}, got.blocks))
     /\ gave.reason \in {"tool_calls", "tool_use"} /\ clientApi # "responses" =>
          got.reason \in {"tool_calls", "tool_use"}
     /\ got.reason \in {"tool_calls", "tool_use"} /\ clientApi # "responses" =>
          CallsOf(got) # <<>>
     /\ gave.reason \in {"length", "max_tokens"} /\ clientApi # "responses" =>
          \/ got.reason \in {"length", "max_tokens"}
          \/ clientApi = "chat" /\ got.reason = "tool_calls"

=============================================================================
