---------------------------- MODULE ResponsesChat ----------------------------
(***************************************************************************)
(* Responses items to Chat Completions messages and back                   *)
(* (translate/internal/openai_responses.rs).                               *)
(*                                                                         *)
(* An item is a "message", a "call" (function_call, custom_tool_call), an  *)
(* "output" of one, a "reasoning", a "compaction" or an "agent_message".   *)
(* A reasoning holds a summary and an encrypted content: none, one the     *)
(* proxy wrote itself around Anthropic thinking blocks (a carrier), or     *)
(* another provider's, which nobody else can read ("sealed").              *)
(***************************************************************************)
EXTENDS ChatMessages

MessageItem(role, content) == [type |-> "message", role |-> role, content |-> content]
CallItem(call) == [type |-> "call", call |-> call]
OutputItem(custom, id, content) == [type |-> "output", custom |-> custom, id |-> id, content |-> content]
ReasoningItem(summary, carrier) == [type |-> "reasoning", summary |-> summary, carrier |-> carrier, sealed |-> FALSE]

Items(items, types) == SelectSeq(items, LAMBDA item : item.type \in types)
IsOutput(items, i) == i \in DOMAIN items /\ items[i].type = "output"

----------------------------------------------------------------------------
(* responses_to_messages: one pass over the items, with the assistant's     *)
(* message being gathered and the user's words that wait for tool results.  *)

Start == [messages |-> <<>>, assistant |-> Nothing, deferred |-> <<>>,
          partial |-> [id \in {} |-> <<>>], failed |-> FALSE]

FlushAssistant(acc) == [acc EXCEPT !.messages = @ \o acc.assistant, !.assistant = Nothing]

\* Mutant: the words that waited are kept.
FlushDeferredKeeping(acc) ==
    [acc EXCEPT !.messages = IF acc.deferred = <<>> THEN @ ELSE Append(@, Message("user", acc.deferred))]

FlushDeferred(acc) ==
    [acc EXCEPT !.messages = IF acc.deferred = <<>> THEN @ ELSE Append(@, Message("user", acc.deferred)),
                !.deferred = <<>>]
Assistant(acc) == IF acc.assistant = Nothing THEN Message("assistant", <<>>) ELSE acc.assistant[1]
HasPendingCalls(acc) == acc.assistant # Nothing /\ acc.assistant[1].calls # <<>>

\* Mutant: the user's words are said at once.
OfMessageAtOnce(acc, items, i) ==
    LET item == items[i]
        refusal == Shows(item.content, {"refusal"})
        content == Shows(item.content, {"text", "image", "label"})
    IN  IF item.role = "assistant"
        THEN [acc EXCEPT !.assistant = <<[Assistant(acc) EXCEPT !.refusal = @ \o refusal, !.content = @ \o content]>>]
        ELSE LET next == FlushAssistant(acc)
             IN  [next EXCEPT !.messages = Append(@, Message(item.role, content))]

\* The "message" arm: the user's words wait while a call is open or a result comes next.
OfMessage(acc, items, i) ==
    LET item == items[i]
        refusal == Shows(item.content, {"refusal"})
        content == Shows(item.content, {"text", "image", "label"})
    IN  IF item.role = "assistant"
        THEN [acc EXCEPT !.assistant = <<[Assistant(acc) EXCEPT !.refusal = @ \o refusal, !.content = @ \o content]>>]
        ELSE IF item.role = "user"
                /\ (HasPendingCalls(acc) \/ acc.deferred # <<>> \/ IsOutput(items, i + 1))
        THEN [acc EXCEPT !.deferred = @ \o content]
        ELSE LET next == FlushAssistant(acc)
             IN  [next EXCEPT !.messages = Append(@, Message(item.role, content))]

\* The "function_call" and "custom_tool_call" arms. The call of a namespace the
\* request declares is renamed first; a partial call cannot be an Anthropic
\* block, and is told in words.
OfCall(acc, call, target, ctx) ==
    LET named == IF FlatName(call.namespace, call.name) \in DOMAIN ctx.split
                 THEN [call EXCEPT !.name = FlatName(call.namespace, call.name), !.namespace = <<>>] ELSE call
    IN  IF target = "anthropic" /\ MarkedPartial(named)
        THEN [acc EXCEPT !.assistant = <<[Assistant(acc) EXCEPT !.content = Append(@, Thing("label", named.name))]>>,
                         !.partial = (call.id :> named.name) @@ @]
        ELSE [acc EXCEPT !.assistant =
                <<[Assistant(acc) EXCEPT !.calls = Append(@, ResponsesCallToOpenai(named, TRUE))]>>]

\* Mutant: only the call that came last is known.
KnownCallLast(messages, id) ==
    messages # <<>> /\ \E c \in DOMAIN Last(messages).calls : Last(messages).calls[c].id = id

\* tool_kind_by_call_id: the call came before, and is a function by now
KnownCall(messages, id) ==
    \E m \in DOMAIN messages : \E c \in DOMAIN messages[m].calls : messages[m].calls[c].id = id

\* Mutant: the result of a call told in words is still a tool's.
OfOutputOfTool(acc, items, i, target) ==
    LET said == [FlushAssistant(acc) EXCEPT !.messages =
                    Append(@, ToolMessage(items[i].id, Shows(items[i].content, {"text", "image", "label"})))]
    IN  IF IsOutput(items, i + 1) THEN said ELSE FlushDeferred(said)

\* The "function_call_output" and "custom_tool_call_output" arms: the result of
\* a call told in words is told by the user; what is sealed is left out.
OfOutput(acc, items, i, target) ==
    LET item == items[i]
        told == item.id \in DOMAIN acc.partial
        next == FlushAssistant(acc)
        legible == Shows(item.content, {"text", "image", "label"})
        said == IF told
                THEN [next EXCEPT !.messages = Append(@, Message("user", <<Thing("label", acc.partial[item.id])>> \o legible)),
                                  !.partial = [id \in DOMAIN @ \ {item.id} |-> @[id]]]
                ELSE [next EXCEPT !.messages = Append(@, ToolMessage(item.id, legible)),
                                  !.failed = \/ @ \/ Shows(item.content, {"image"}) # <<>>
                                             \/ item.custom /\ ~KnownCall(next.messages, item.id) /\ target # "chat"]
    IN  IF IsOutput(items, i + 1) THEN said ELSE FlushDeferred(said)

\* The "reasoning" arm: an Anthropic upstream takes it as an unsigned thinking
\* block, another as reasoning; what is encrypted is not read.
OfReasoning(acc, item, target) ==
    IF item.summary = <<>> THEN acc
    ELSE IF target = "anthropic"
    THEN [acc EXCEPT !.assistant = <<[Assistant(acc) EXCEPT !.replay =
                                        Append(@, [kind |-> "thinking", text |-> item.summary, signed |-> FALSE])]>>]
    ELSE [acc EXCEPT !.assistant = <<[Assistant(acc) EXCEPT !.reasoning = @ \o item.summary]>>]

\* Mutant: the turn is put before all others.
OfTurnFirst(acc, item) ==
    [FlushDeferred(FlushAssistant(acc)) EXCEPT !.messages = <<Message("user", Shows(item.content, {"text"}))>> \o @]

\* The "compaction" and "agent_message" arms: both are the user's words, at once.
OfTurn(acc, item) ==
    LET next == FlushDeferred(FlushAssistant(acc))
        legible == Shows(item.content, {"text", "label"})
    IN  IF legible = <<>> THEN acc ELSE [next EXCEPT !.messages = Append(@, Message("user", legible))]

MessagesOfItems(items, target, ctx) ==
    LET step(acc, i) ==
            CASE items[i].type = "message" -> OfMessage(acc, items, i)
              [] items[i].type = "call" -> OfCall(acc, items[i].call, target, ctx)
              [] items[i].type = "output" -> OfOutput(acc, items, i, target)
              [] items[i].type = "reasoning" -> OfReasoning(acc, items[i], target)
              [] items[i].type \in {"compaction", "agent_message"} -> OfTurn(acc, items[i])
        acc == FoldLeftDomain(step, Start, items)
    IN  [FlushDeferred(FlushAssistant(acc)) EXCEPT !.assistant = Nothing]

\* responses_to_messages
ResponsesToMessages(request, target) ==
    LET tools == NormalizedTools(request.tools)
        ctx == BridgeContext(tools)
        pass == MessagesOfItems(request.items, target, ctx)
        calls == Items(request.items, {"call"})
    IN  IF \/ ~PublicNamesAllowed(tools) \/ \E i \in DOMAIN calls : Reserved(calls[i].call.name)
           \/ CustomConflict(tools) \/ NamespaceConflict(tools) \/ pass.failed
        THEN Failed
        ELSE Done([messages |-> (IF request.system = <<>> THEN <<>> ELSE <<Message("system", request.system)>>)
                                \o pass.messages,
                   tools |-> [t \in DOMAIN FunctionNames(tools) |->
                                [kind |-> "function", name |-> FunctionNames(tools)[t], children |-> <<>>]],
                   bridge |-> ctx])

----------------------------------------------------------------------------
(* messages_to_responses *)

\* A result is of the kind of the call before it that it answers.
IsCustomResult(items, id) ==
    LET calls == SelectSeq(items, LAMBDA item : item.type = "call" /\ item.call.id = id)
    IN  calls # <<>> /\ SemanticKind(Last(calls).call) = "custom"

ItemsOfMessage(items, message, ctx) ==
    LET reasoning == IF message.role = "assistant" /\ (message.reasoning # <<>> \/ message.replay # <<>>)
                     THEN <<ReasoningItem(message.reasoning, message.replay)>> ELSE <<>>
        content == message.content \o message.refusal
        spoken == IF content = <<>> THEN <<>> ELSE <<MessageItem(message.role, content)>>
        calls == [i \in DOMAIN message.calls |-> CallItem(OpenaiCallToResponses(message.calls[i], ctx))]
    IN  items \o IF message.role = "tool"
                 THEN <<OutputItem(IsCustomResult(items, message.id), message.id, message.content)>>
                 ELSE reasoning \o spoken \o calls

MessagesToResponses(request, ctx) ==
    LET results == SelectSeq(request.messages, LAMBDA m : m.role = "tool")
        step(items, message) == ItemsOfMessage(items, message, ctx)
    IN  IF \E i \in DOMAIN results : Shows(results[i].content, {"image"}) # <<>> THEN Failed
        ELSE Done([system |-> <<>>, items |-> FoldLeft(step, <<>>, request.messages), tools |-> request.tools])

----------------------------------------------------------------------------
(* Answers: [output, status], status what ended them *)

\* responses_finish_reason_to_openai with classify_portable_non_success_terminal
FinishOfStatus(status, hasCalls) ==
    CASE status = "max_output_tokens" -> "length"
      [] status \in {"content_filter", "pause_turn", "context_length_exceeded", "tool_error", "error"} -> status
      [] status = "completed" -> IF hasCalls THEN "tool_calls" ELSE "stop"

StatusOfFinish(finish) ==
    CASE finish = "length" -> "max_output_tokens"
      [] finish \in {"content_filter", "pause_turn", "context_length_exceeded", "tool_error", "error"} -> finish
      [] OTHER -> "completed"

\* responses_response_to_openai, ..._for_anthropic: the items of an answer as
\* one message; thinking the proxy carried for an Anthropic client comes back.
ResponsesAnswerToOpenai(answer, client) ==
    LET speech == Items(answer.output, {"message"})
        said == FlattenSeq([i \in DOMAIN speech |-> speech[i].content])
        thought == Items(answer.output, {"reasoning"})
        blocks(item) == IF item.carrier # <<>> THEN item.carrier
                        ELSE IF item.summary # <<>>
                        THEN <<[kind |-> "thinking", text |-> item.summary, signed |-> FALSE]>> ELSE <<>>
        calls == Items(answer.output, {"call"})
    IN  IF \/ Items(answer.output, {"hosted"}) # <<>>
           \/ client # "anthropic" /\ \E i \in DOMAIN thought : thought[i].sealed \/ thought[i].carrier # <<>>
        THEN Failed
        ELSE Done([message |->
                     [Message("assistant", Shows(said, {"text"})) EXCEPT
                        !.refusal = Shows(said, {"refusal"}),
                        !.calls = [i \in DOMAIN calls |-> ResponsesCallToOpenai(calls[i].call, FALSE)],
                        !.reasoning = FlattenSeq([i \in DOMAIN thought |-> thought[i].summary]),
                        !.replay = IF client = "anthropic"
                                   THEN FlattenSeq([i \in DOMAIN thought |-> blocks(thought[i])]) ELSE <<>>],
                   finish |-> FinishOfStatus(answer.status, calls # <<>>)])

\* hoist_and_merge_system_messages: in a streamed request the instructions that
\* come first leave the items.
Hoisted(request) ==
    LET instructs(i) == request.items[i].type = "message" /\ request.items[i].role \in {"system", "developer"}
        first == CHOOSE n \in 0..Len(request.items) :
                    /\ \A i \in 1..n : instructs(i)
                    /\ n < Len(request.items) => ~instructs(n + 1)
    IN  [request EXCEPT !.system = @ \o FlattenSeq([i \in 1..first |-> request.items[i].content]),
                        !.items = SubSeq(@, first + 1, Len(@))]

\* openai_response_to_responses
OpenaiAnswerToResponses(answer, ctx) ==
    LET items == ItemsOfMessage(<<>>, answer.message, ctx)
    IN  Done([output |-> IF items = <<>> THEN <<MessageItem("assistant", <<>>)>> ELSE items,
              status |-> StatusOfFinish(answer.finish)])
=============================================================================
