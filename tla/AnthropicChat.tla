---------------------------- MODULE AnthropicChat ----------------------------
(***************************************************************************)
(* Anthropic messages to Chat Completions and back (translate/internal.rs, *)
(* translate/internal/response_protocols.rs), and the edits a client's     *)
(* context_management asks for, which the proxy makes itself when the      *)
(* upstream is not Anthropic's.                                            *)
(*                                                                         *)
(* A message is [role, blocks]; a block is a thing to show, a "thinking"   *)
(* with its signature, a call or the "tool_result" of one.                 *)
(***************************************************************************)
EXTENDS ChatMessages

Thinking(text, signed) == [kind |-> "thinking", text |-> text, signed |-> signed]
ToolUse(call) == [kind |-> "tool_use", call |-> call]
ToolResult(id, content) == [kind |-> "tool_result", id |-> id, content |-> content]

Of(blocks, kinds) == SelectSeq(blocks, LAMBDA b : b.kind \in kinds)
Visible(blocks) == Of(blocks, {"text", "image", "label"})

\* Blocks no other protocol has, as redacted_thinking or a document
Supported(blocks) == Of(blocks, {"unsupported"}) = <<>>

----------------------------------------------------------------------------
(* claude_to_openai, claude_response_to_openai *)

\* The "tool_use" and "server_tool_use" arms: only here does the proxy vouch
\* for a server tool (attest_proxied_tool_kind); a wrapped custom input is
\* unwrapped where the pivot is on its way to a Responses peer.
CallOfBlock(call, decode, ctx) ==
    IF call.server THEN [call EXCEPT !.sig = SignedKind(call)]
    ELSE IF decode /\ call.name \in ctx.custom /\ call.payload.form = "wrapper"
    THEN [call EXCEPT !.kind = "custom", !.payload = Unwrapped(call.payload)]
    ELSE call

\* convert_claude_message_to_openai_impl: a message with results has no calls
MessagesOfClaude(message, decode, ctx) ==
    LET results == Of(message.blocks, {"tool_result"})
        uses    == Of(message.blocks, {"tool_use"})
        spoken  == Visible(message.blocks)
        thought == FlattenSeq([i \in DOMAIN Of(message.blocks, {"thinking"}) |-> Of(message.blocks, {"thinking"})[i].text])
        role    == IF message.role \in {"user", "tool"} THEN "user" ELSE "assistant"
    IN  IF results # <<>>
        THEN [i \in DOMAIN results |-> ToolMessage(results[i].id, results[i].content)]
             \o IF spoken = <<>> THEN <<>> ELSE <<Message("user", spoken)>>
        ELSE IF uses # <<>>
        THEN <<[Message("assistant", spoken) EXCEPT
                    !.calls = [i \in DOMAIN uses |-> CallOfBlock(uses[i].call, decode, ctx)],
                    !.reasoning = thought]>>
        ELSE <<[Message(role, spoken) EXCEPT !.reasoning = thought]>>

\* claude_to_openai: the system prompt, the messages; a result that is not text
\* (semantic_tool_result_content_to_openai_chat_tool_content), a block no other
\* protocol has and a reserved name are errors.
ClaudeToOpenai(request, decode, ctx) ==
    LET all == FlattenSeq([i \in DOMAIN request.messages |-> request.messages[i].blocks])
        results == Of(all, {"tool_result"})
        uses == Of(all, {"tool_use"})
    IN  IF \/ ~Supported(all)
           \/ \E i \in DOMAIN results : Shows(results[i].content, {"image"}) # <<>>
           \/ \E i \in DOMAIN uses : Reserved(uses[i].call.name)
           \/ \E i \in DOMAIN request.tools : Reserved(request.tools[i].name)
        THEN Failed
        ELSE Done([messages |->
                       (IF request.system = <<>> THEN <<>> ELSE <<Message("system", request.system)>>)
                       \o FlattenSeq([i \in DOMAIN request.messages |->
                                          MessagesOfClaude(request.messages[i], decode, ctx)]),
                   tools |-> request.tools])

\* The stop reasons and finish reasons that have a partner; every other is "stop".
FinishOfStop(stop) ==
    CASE stop = "tool_use" -> "tool_calls"
      [] stop = "max_tokens" -> "length"
      [] stop = "model_context_window_exceeded" -> "context_length_exceeded"
      [] stop = "pause_turn" -> "pause_turn"
      [] stop = "refusal" -> "content_filter"
      [] OTHER -> "stop"

\* classify_openai_finish_for_anthropic; "error" and "tool_error" become an error body
StopOfFinish(finish) ==
    CASE finish = "tool_calls" -> "tool_use"
      [] finish = "length" -> "max_tokens"
      [] finish = "context_length_exceeded" -> "model_context_window_exceeded"
      [] finish = "pause_turn" -> "pause_turn"
      [] finish = "content_filter" -> "refusal"
      [] finish \in {"error", "tool_error"} -> "error"
      [] OTHER -> "end_turn"

\* claude_response_to_openai_internal: signed thinking is kept for a client
\* that can carry it; the text of a refusal is moved.
ClaudeAnswerToOpenai(answer, replay, ctx) ==
    LET message == MessagesOfClaude([role |-> "assistant", blocks |-> answer.blocks], replay, ctx)[1]
        thinking == Of(answer.blocks, {"thinking"})
        signed == replay /\ \E i \in DOMAIN thinking : thinking[i].signed
        kept == [message EXCEPT !.replay = IF signed THEN thinking ELSE <<>>]
    IN  IF ~Supported(answer.blocks) THEN Failed
        ELSE Done([message |-> IF answer.stop = "refusal"
                               THEN [kept EXCEPT !.refusal = Shows(kept.content, {"text"}), !.content = <<>>]
                               ELSE kept,
                   finish |-> FinishOfStop(answer.stop)])

----------------------------------------------------------------------------
(* openai_to_claude, openai_response_to_claude *)

\* openai_message_to_claude_blocks: replayed thinking or the reasoning, the
\* refusal, the content, the calls; a call that is marked partial is told in words.
BlocksOfMessage(message) ==
    IF message.role = "tool" THEN <<ToolResult(message.id, message.content)>>
    ELSE (IF message.role # "assistant" THEN <<>>
          ELSE (IF message.replay # <<>> THEN message.replay
                ELSE IF message.reasoning # <<>> THEN <<Thinking(message.reasoning, FALSE)>> ELSE <<>>)
               \o message.refusal)
         \o message.content
         \o [i \in DOMAIN message.calls |->
                LET call == message.calls[i] IN
                IF MarkedPartial(call) THEN Thing("label", call.name)
                ELSE ToolUse([call EXCEPT !.server = ServerCall(call), !.sig = Nothing])]

\* Every call of a message can be a block.
ClaudeTakes(message) ==
    \A i \in DOMAIN message.calls : MarkedPartial(message.calls[i]) \/ AnthropicTakes(message.calls[i])

\* openai_to_claude: tool messages wait for what follows them, and open the
\* user's message if it is one. A message with nothing in it holds an empty text.
ClaudeMessages(messages) ==
    LET say(list, role, blocks) == Append(list, [role |-> role, blocks |-> blocks])
        flushed(acc) == IF acc.results = <<>> THEN acc.list ELSE say(acc.list, "user", acc.results)
        step(acc, message) ==
            LET blocks == BlocksOfMessage(message) IN
            CASE message.role \in {"system", "developer"} -> acc
              [] message.role = "tool" -> [acc EXCEPT !.results = @ \o blocks]
              [] message.role = "user" -> [list |-> say(acc.list, "user", acc.results \o blocks), results |-> <<>>]
              [] message.role = "assistant" -> [list |-> say(flushed(acc), "assistant", blocks), results |-> <<>>]
    IN  flushed(FoldLeft(step, [list |-> <<>>, results |-> <<>>], messages))

Instructions(messages) ==
    FlattenSeq([i \in DOMAIN messages |->
        IF messages[i].role \in {"system", "developer"} THEN messages[i].content ELSE <<>>])

OpenaiToClaude(request) ==
    IF \/ \E i \in DOMAIN request.messages : ~ClaudeTakes(request.messages[i])
       \/ Shows(Instructions(request.messages), {"image"}) # <<>>
    THEN Failed
    ELSE Done([system |-> Instructions(request.messages), messages |-> ClaudeMessages(request.messages),
               tools |-> request.tools])

\* openai_response_to_claude; prepare_openai_message_for_claude_response puts
\* the reasoning where the blocks of the message take it from
OpenaiAnswerToClaude(answer) ==
    IF ~ClaudeTakes(answer.message) THEN Failed
    ELSE Done([blocks |-> BlocksOfMessage(answer.message), stop |-> StopOfFinish(answer.finish)])

----------------------------------------------------------------------------
(* apply_anthropic_context_management_request_edits *)

\* apply_anthropic_clear_thinking_edit: the last turns that think keep their thoughts
ClearThinking(messages, keep) ==
    LET thinks(i) == messages[i].role = "assistant" /\ Of(messages[i].blocks, {"thinking"}) # <<>>
        later(i) == Cardinality({j \in DOMAIN messages : j > i /\ thinks(j)})
    IN  [i \in DOMAIN messages |->
            IF thinks(i) /\ later(i) < keep THEN messages[i]
            ELSE [messages[i] EXCEPT !.blocks = SelectSeq(@, LAMBDA b : b.kind # "thinking")]]

\* anthropic_paired_tool_interactions: the calls that have a result, in order
PairedCalls(messages) ==
    LET all(role) == FlattenSeq([i \in DOMAIN messages |->
                        IF role \in {"any", messages[i].role} THEN messages[i].blocks ELSE <<>>])
        answered == {b.id : b \in ToSet(Of(all("any"), {"tool_result"}))}
        uses == Of(all("assistant"), {"tool_use"})
    IN  SelectSeq([i \in DOMAIN uses |-> uses[i].call], LAMBDA call : call.id \in answered)

Cleared == <<Thing("label", <<"cleared">>)>>

\* apply_anthropic_clear_tool_uses_edit: of the eligible pairs the oldest go,
\* the result alone or the call with it.
ClearToolUses(messages, keep, inputs, excluded) ==
    LET eligible == SelectSeq(PairedCalls(messages), LAMBDA call : call.name \notin excluded)
        count == IF Len(eligible) > keep THEN Len(eligible) - keep ELSE 0
        ids == {eligible[i].id : i \in 1..count}
        gone(message, b) ==
            \/ message.role = "assistant" /\ b.kind = "tool_use" /\ b.call.id \in ids
            \/ b.kind = "tool_result" /\ b.id \in ids
        removed == [i \in DOMAIN messages |->
            [messages[i] EXCEPT !.blocks = SelectSeq(@, LAMBDA b : ~gone(messages[i], b))]]
        emptied == {i \in DOMAIN messages : removed[i].blocks = <<>> /\ messages[i].blocks # <<>>}
        replaced == [i \in DOMAIN messages |->
            [messages[i] EXCEPT !.blocks = [b \in DOMAIN @ |->
                IF @[b].kind = "tool_result" /\ @[b].id \in ids THEN [@[b] EXCEPT !.content = Cleared] ELSE @[b]]]]
    IN  IF count = 0 THEN messages
        ELSE IF ~inputs THEN replaced
        ELSE LET kept == SelectSeq([i \in DOMAIN messages |-> i], LAMBDA i : i \notin emptied)
             IN  [i \in DOMAIN kept |-> removed[kept[i]]]
=============================================================================
