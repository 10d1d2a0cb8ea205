-------------------------- MODULE StreamTranslation --------------------------
(***************************************************************************)
(* One translated event stream: an upstream that keeps to its protocol,    *)
(* the source that reads its events, and the sink that writes the          *)
(* client's. The frames themselves, their limits and timers, and the body  *)
(* that carries them are StreamDelivery's subject.                         *)
(***************************************************************************)
EXTENDS AnthropicSink, ResponsesSink, AnthropicSource, ResponsesSource

CONSTANTS
    Pairs,          \* the <<upstream, client>> formats to consider
    MaxEvents,      \* bound on the events of a stream, by the upstream's format
    MaxCalls,       \* bound on its tool calls
    Names,          \* names of tools
    CustomClients,  \* clients whose Responses upstream may call custom tools
    Repeating       \* a delta may repeat the text before it

Formats == {"chat", "anthropic", "responses"}

ASSUME PairsAssumption == Pairs \subseteq {p \in Formats \X Formats : p[1] # p[2]}
\* An Anthropic request offers functions only: the context that would make a custom tool of
\* one is refused at the public boundary (claude_to_openai, public_boundary.rs).
ASSUME CustomClientsAssumption == "anthropic" \notin CustomClients
\* A block is open or None is: the Option's None is no block.
ASSUME OpenBlockAssumption ==
    \A kind \in {"text", "thinking", "unknown", "tool_use", "seeded"} : [kind |-> kind] # None
ASSUME StreamBoundsAssumption ==
    MaxEvents \in [Formats -> Nat] /\ MaxCalls \in Nat /\ Repeating \in BOOLEAN

VARIABLES
    pair,       \* the formats of the upstream and of the client
    cumulative, \* the upstream is a MiniMax model: it repeats its text, and sends usage last
    up,         \* the upstream: where its stream stands, and what it has said
    state       \* StreamState, with the events the client was sent

vars == <<pair, cumulative, up, state>>

Whole == <<"{", "x", "}">>

Init ==
    /\ pair \in Pairs
    /\ cumulative \in BOOLEAN /\ (cumulative => pair[1] = "chat")
    /\ up = [phase |-> "start", events |-> 0, text |-> <<>>, thought |-> <<>>, refusal |-> <<>>,
             calls |-> <<>>, block |-> None, blocks |-> 0, customs |-> {}, reason |-> None,
             usage |-> FALSE, last |-> None]
    /\ state = InitialState

----------------------------------------------------------------------------
(* translate_sse_event *)

\* openai_chunks_to_client_sse
ToClient(s, chunk) ==
    CASE pair[2] = "chat" -> Send(s, [type |-> "chunk", chunk |-> chunk])
      [] pair[2] = "anthropic" -> AnthropicSink(s, chunk)
      [] pair[2] = "responses" -> ResponsesSink(s, chunk, cumulative)

\* The upstream's events: a chat event is a chunk already.
Source(s, event) ==
    IF event.type = "done" THEN From(s) ELSE
    CASE pair[1] = "chat" -> Give(From([s EXCEPT !.usage = @ \/ event.chunk.usage]), event.chunk)
      [] pair[1] = "anthropic" -> AnthropicSource(s, event)
      [] pair[1] = "responses" -> ResponsesSource(s, event)

\* anthropic_error_event_to_client_sse
ErrorToClient(s) ==
    CASE pair[2] = "chat" ->
            Send(Send(s, [type |-> "chunk", chunk |-> [EmptyChunk EXCEPT !.finish = "error", !.error = TRUE]]),
                 [type |-> "done"])
      [] pair[2] = "responses" -> FailResponses(s)
      [] OTHER -> Send(s, ErrorEvent)

\* Names with the prefix of the proxy's own wrappers, and chat streams of several choices,
\* are refused before their source is asked.
IsRefused(event) ==
    \/ event.type = "second_choice"
    \/ event.type \in {"block_start", "call_added"} /\ event.name = "reserved"
    \/ event.type = "chunk" /\ \E i \in DOMAIN event.chunk.calls : event.chunk.calls[i].name = "reserved"

Translate(s, event) ==
    LET given == IF IsRefused(event) THEN Rejected(s) ELSE Source(s, event)
    IN IF s.fatal THEN s
       ELSE IF event.type = "done" /\ pair = <<"chat", "responses">> THEN EndResponses(s)
       ELSE IF event.type = "error" THEN ErrorToClient(s)
       ELSE FoldLeft(ToClient, given.state, given.chunks)

\* The upstream sends an event; a stream that was refused is not read any further.
Receive(event, next) ==
    /\ up.events < MaxEvents[pair[1]] /\ ~ state.fatal
    /\ up' = [next EXCEPT !.events = @ + 1, !.last = event]

----------------------------------------------------------------------------
(* Upstreams *)

\* The next letter of a text.
Letter(text) == IF Repeating THEN 1 ELSE Len(text) + 1

\* What an upstream sends when its text becomes text.
Told(before, text) == IF cumulative THEN text ELSE SubSeq(text, Len(before) + 1, Len(text))

\* Whether args is cut at a place the upstream may cut it at.
Pieces(before) == {piece \in {<<"{">>, <<"x", "}">>, Whole} : IsPrefix(before \o piece, Whole)}

NewCallId == Len(up.calls) + 1
Calling(name, args) ==
    [up EXCEPT !.phase = "open",
               !.calls = Append(@, [id |-> NewCallId, index |-> Len(@), name |-> name, args |-> args])]
Adding(i, piece) == [up EXCEPT !.calls[i].args = @ \o piece]
AllWhole == \A i \in DOMAIN up.calls : IsObject(up.calls[i].args)

Saying == up.phase \in {"start", "open"}

ChatChunk(chunk, next) == Receive([type |-> "chunk", chunk |-> chunk], next)

ChatText ==
    /\ pair[1] = "chat" /\ Saying
    /\ \E text \in {up.text, Append(up.text, Letter(up.text))},
          thought \in {up.thought, Append(up.thought, Letter(up.thought))} :
        /\ text # up.text \/ thought # up.thought
        /\ ChatChunk([EmptyChunk EXCEPT
                        !.content = IF text = up.text THEN <<>> ELSE Told(up.text, text),
                        !.reasoning = IF thought = up.thought THEN <<>> ELSE Told(up.thought, thought)],
                     [up EXCEPT !.phase = "open", !.text = text, !.thought = thought])

ChatRefusal ==
    /\ pair[1] = "chat" /\ Saying /\ up.refusal = <<>>
    /\ ChatChunk([EmptyChunk EXCEPT !.refusal = <<1>>], [up EXCEPT !.phase = "open", !.refusal = <<1>>])

ChatCall ==
    /\ pair[1] = "chat" /\ Saying /\ Len(up.calls) < MaxCalls
    /\ \E name \in Names, args \in {<<>>, Whole} :
        ChatChunk([EmptyChunk EXCEPT
                    !.calls = <<CallDelta(Len(up.calls), NewCallId, name, "function", args)>>],
                  Calling(name, args))

ChatArguments ==
    /\ pair[1] = "chat" /\ Saying
    /\ \E i \in DOMAIN up.calls : \E piece \in Pieces(up.calls[i].args) :
        ChatChunk([EmptyChunk EXCEPT !.calls = <<CallDelta(up.calls[i].index, None, None, None, piece)>>],
                  Adding(i, piece))

\* A provider that tells its first call's id again, under another index, and goes on there.
ChatRenumbered ==
    /\ pair = <<"chat", "responses">> /\ Saying /\ up.calls # <<>> /\ up.calls[1].index = 0
    /\ ChatChunk([EmptyChunk EXCEPT !.calls = <<CallDelta(MaxCalls, 1, None, None, <<>>)>>],
                 [up EXCEPT !.calls[1].index = MaxCalls])

ChatFinish ==
    /\ pair[1] = "chat" /\ Saying
    /\ \E finish \in {"stop", "length", "error", "tool_calls"}, usage \in BOOLEAN :
        /\ finish = "tool_calls" => up.calls # <<>> /\ AllWhole
        /\ ChatChunk([EmptyChunk EXCEPT !.finish = finish, !.usage = usage],
                     [up EXCEPT !.phase = "finished", !.usage = usage, !.reason = finish])

ChatUsage ==
    /\ pair[1] = "chat" /\ up.phase = "finished" /\ ~ up.usage
    /\ ChatChunk([EmptyChunk EXCEPT !.choices = FALSE, !.usage = TRUE], [up EXCEPT !.usage = TRUE])

ChatDone ==
    /\ pair[1] = "chat" /\ up.phase \in {"open", "finished"}
    /\ Receive([type |-> "done"], [up EXCEPT !.phase = "ended"])

ChatSecondChoice ==
    /\ pair[1] = "chat" /\ Saying
    /\ Receive([type |-> "second_choice"], up)

Block(kind) == up.block # None /\ up.block.kind = kind
Index == up.blocks - 1

AnthropicStart ==
    /\ pair[1] = "anthropic" /\ up.phase = "start"
    /\ Receive([type |-> "message_start"], [up EXCEPT !.phase = "open"])

AnthropicBlock ==
    /\ pair[1] = "anthropic" /\ up.phase = "open" /\ up.block = None
    /\ \E kind \in {"text", "thinking", "unknown"} :
        Receive([type |-> "block_start", index |-> up.blocks, kind |-> kind, name |-> None],
                [up EXCEPT !.block = [kind |-> kind], !.blocks = @ + 1])

AnthropicCall ==
    /\ pair[1] = "anthropic" /\ up.phase = "open" /\ up.block = None /\ Len(up.calls) < MaxCalls
    /\ \E name \in Names, input \in {<<>>, Whole} :
        Receive([type |-> "block_start", index |-> up.blocks, kind |-> "tool_use", id |-> NewCallId,
                 name |-> name, input |-> input],
                [Calling(name, input) EXCEPT !.block = [kind |-> IF input = <<>> THEN "tool_use" ELSE "seeded"],
                                              !.blocks = @ + 1])

AnthropicText ==
    /\ pair[1] = "anthropic" /\ Block("text")
    /\ Receive([type |-> "text_delta", index |-> Index, text |-> <<Letter(up.text)>>],
               [up EXCEPT !.text = Append(@, Letter(@))])

AnthropicThinking ==
    /\ pair[1] = "anthropic" /\ up.block # None /\ up.block.kind \in {"thinking", "text"}
    /\ Receive([type |-> "thinking_delta", index |-> Index, text |-> <<Letter(up.thought)>>],
               [up EXCEPT !.thought = Append(@, Letter(@))])

AnthropicArguments ==
    /\ pair[1] = "anthropic" /\ Block("tool_use")
    /\ \E piece \in Pieces(up.calls[Len(up.calls)].args) :
        Receive([type |-> "input_json_delta", index |-> Index, args |-> piece],
                Adding(Len(up.calls), piece))

\* A provider that gave arguments with the block completes them, or sends them again.
AnthropicSeededArguments ==
    /\ pair[1] = "anthropic" /\ Block("seeded")
    /\ \E piece \in {Whole, Tail(Whole)} :
        Receive([type |-> "input_json_delta", index |-> Index, args |-> piece],
                [up EXCEPT !.block = [kind |-> "tool_use"],
                           !.calls[Len(up.calls)].args = IF piece = Whole THEN Whole
                                                         ELSE SubSeq(@, 1, Len(@) - 1) \o piece])

AnthropicBlockStop ==
    /\ pair[1] = "anthropic" /\ up.block # None
    /\ Receive([type |-> "block_stop", index |-> Index], [up EXCEPT !.block = None])

AnthropicDelta ==
    /\ pair[1] = "anthropic" /\ up.phase = "open" /\ up.block = None
    /\ \E stop \in {"end_turn", "max_tokens", "tool_use"} :
        /\ stop = "tool_use" => up.calls # <<>>
        /\ Receive([type |-> "message_delta", stop |-> stop, usage |-> TRUE],
                   [up EXCEPT !.phase = "finished", !.usage = TRUE, !.reason = stop])

AnthropicStop ==
    /\ pair[1] = "anthropic" /\ up.phase = "finished"
    /\ Receive([type |-> "message_stop"], [up EXCEPT !.phase = "ended"])

AnthropicError ==
    /\ pair[1] = "anthropic" /\ up.phase \in {"start", "open"}
    /\ Receive([type |-> "error"], [up EXCEPT !.phase = "ended", !.block = None, !.reason = "error"])

ResponsesCreated ==
    /\ pair[1] = "responses" /\ up.phase = "start"
    /\ Receive([type |-> "created"], [up EXCEPT !.phase = "open"])

ResponsesText ==
    /\ pair[1] = "responses" /\ up.phase = "open"
    /\ Receive([type |-> "text_delta", text |-> <<Letter(up.text)>>],
               [up EXCEPT !.text = Append(@, Letter(@))])

ResponsesRefusal ==
    /\ pair[1] = "responses" /\ up.phase = "open"
    /\ Receive([type |-> "refusal_delta", text |-> <<Letter(up.refusal)>>],
               [up EXCEPT !.refusal = Append(@, Letter(@))])

ResponsesRefusalDone ==
    /\ pair[1] = "responses" /\ up.phase = "open" /\ up.refusal # <<>>
    /\ Receive([type |-> "refusal_done", text |-> up.refusal], up)

ResponsesReasoning ==
    /\ pair[1] = "responses" /\ up.phase = "open"
    /\ Receive([type |-> "reasoning_delta", text |-> <<Letter(up.thought)>>],
               [up EXCEPT !.thought = Append(@, Letter(@))])

ResponsesCall ==
    /\ pair[1] = "responses" /\ up.phase = "open" /\ Len(up.calls) < MaxCalls
    /\ \E name \in Names, kind \in {"function", "custom"} :
        /\ kind = "custom" => pair[2] \in CustomClients
        /\ Receive([type |-> "call_added", kind |-> kind, id |-> NewCallId, name |-> name, args |-> <<>>,
                    item |-> NewCallId, output |-> NewCallId],
                   [Calling(name, IF kind = "custom" THEN <<"{">> ELSE <<>>) EXCEPT
                       !.blocks = @ + 1, !.customs = IF kind = "custom" THEN @ \cup {NewCallId} ELSE @])

\* Events name their call by its item, by its output index, or, of the last one, not at all.
Naming(type, i, how, args) ==
    [type |-> type, item |-> IF how = "item" THEN i ELSE None,
     output |-> IF how = "output" THEN i ELSE None, args |-> args]
Ways(i) == {"item", "output"} \cup (IF i = Len(up.calls) THEN {"last"} ELSE {})

ResponsesArguments ==
    /\ pair[1] = "responses" /\ up.phase = "open"
    /\ \E i \in DOMAIN up.calls : \E how \in Ways(i) :
        \/ /\ i \notin up.customs
           /\ \E piece \in Pieces(up.calls[i].args) :
                Receive(Naming("arguments_delta", i, how, piece), Adding(i, piece))
        \/ /\ i \in up.customs /\ up.calls[i].args = <<"{">>
           /\ Receive(Naming("input_delta", i, how, <<"x">>), Adding(i, <<"x">>))

\* The input of custom call i, and the call when that is its whole input.
InputOf(i) == SelectSeq(up.calls[i].args, LAMBDA c : c = "x")
Ended(i, input) == [up.calls[i] EXCEPT !.args = <<"{">> \o input \o <<"}">>]
IsOpen(i) == i \in up.customs /\ ~ IsObject(up.calls[i].args)

ResponsesInputDone ==
    /\ pair[1] = "responses" /\ up.phase = "open"
    /\ \E i \in {j \in DOMAIN up.calls : IsOpen(j)} : \E input \in {InputOf(i), <<"x">>} :
        Receive(Naming("input_done", i, "item", input), [up EXCEPT !.calls[i] = Ended(i, input)])

\* The end repeats every call in the response's output, ended or not.
ResponsesTerminal ==
    /\ pair[1] = "responses" /\ up.phase = "open"
    /\ \E type \in Terminals :
        LET calls == [i \in DOMAIN up.calls |-> IF IsOpen(i) THEN Ended(i, InputOf(i)) ELSE up.calls[i]]
        IN /\ type = "completed" => \A i \in DOMAIN calls : IsObject(calls[i].args)
           /\ Receive([type |-> type, usage |-> TRUE,
                       reason |-> IF type = "incomplete" THEN "length" ELSE "error",
                       output |-> [i \in DOMAIN calls |->
                                    [id |-> i, kind |-> IF i \in up.customs THEN "custom" ELSE "function",
                                     args |-> SelectSeq(calls[i].args, LAMBDA c : c = "x")]]],
                      [up EXCEPT !.phase = "ended", !.calls = calls, !.usage = TRUE, !.reason = type])

ResponsesAudio ==
    /\ pair[1] = "responses" /\ up.phase = "open"
    /\ Receive([type |-> "audio"], up)

Upstream ==
    \/ ChatText \/ ChatRefusal \/ ChatCall \/ ChatArguments \/ ChatRenumbered \/ ChatFinish \/ ChatUsage
    \/ ChatDone \/ ChatSecondChoice
    \/ AnthropicStart \/ AnthropicBlock \/ AnthropicCall \/ AnthropicText \/ AnthropicThinking
    \/ AnthropicArguments \/ AnthropicSeededArguments \/ AnthropicBlockStop \/ AnthropicDelta \/ AnthropicStop \/ AnthropicError
    \/ ResponsesCreated \/ ResponsesText \/ ResponsesRefusal \/ ResponsesRefusalDone
    \/ ResponsesReasoning \/ ResponsesCall
    \/ ResponsesArguments \/ ResponsesInputDone \/ ResponsesTerminal \/ ResponsesAudio

\* Each event is translated as it comes.
Next ==
    /\ Upstream
    /\ state' = Translate(state, up'.last)
    /\ UNCHANGED <<pair, cumulative>>

Spec == Init /\ [][Next]_vars

----------------------------------------------------------------------------
(* What the client has got *)

out == state.out
Is(i, type) == out[i].type = type
Positions(type) == {i \in DOMAIN out : Is(i, type)}

\* What each event says of one kind of text.
KindsOf(part) ==
    CASE part = "content" -> {"text"}
      [] part = "reasoning" -> {"reasoning", "thinking"}
      [] part = "refusal" -> {"refusal"}
TextIn(event, part) ==
    CASE event.type = "chunk" -> event.chunk[part]
      [] event.type = "block_delta" -> IF event.kind \in KindsOf(part) THEN event.text ELSE <<>>
      [] event.type = "delta" -> IF event.part \in KindsOf(part) THEN event.text ELSE <<>>
      [] OTHER -> <<>>
ClientText(part) ==
    SelectSeq(FlattenSeq([i \in DOMAIN out |-> TextIn(out[i], part)]), LAMBDA c : c \notin ToSet(DegradedText))

\* The calls the client can make: each with what it is, its id and its arguments.
ChatCalls ==
    LET deltas == FlattenSeq([i \in DOMAIN out |-> IF Is(i, "chunk") THEN out[i].chunk.calls ELSE <<>>])
        Of(index) == FlattenSeq([i \in DOMAIN deltas |-> IF deltas[i].index = index THEN deltas[i].args ELSE <<>>])
    IN {<<"function", deltas[i].id, Of(deltas[i].index)>> : i \in {j \in DOMAIN deltas : deltas[j].id # None}}
AnthropicCalls ==
    LET Of(block) == FlattenSeq([i \in DOMAIN out |->
                        IF Is(i, "block_delta") /\ out[i].index = block THEN out[i].text ELSE <<>>])
    IN {<<"function", out[i].id, Of(out[i].index)>> :
            i \in {j \in Positions("block_start") : out[j].kind = "tool_use"}}
ResponsesCalls ==
    {<<out[i].item.kind, out[i].item.id, out[i].item.body>> :
        i \in {j \in Positions("item_done") : out[j].item.kind \in {"function", "custom"}}}
ClientCalls ==
    CASE pair[2] = "chat" -> ChatCalls
      [] pair[2] = "anthropic" -> AnthropicCalls
      [] pair[2] = "responses" -> ResponsesCalls

\* The events that end a stream.
Ends == {i \in DOMAIN out : \/ out[i].type \in Terminals \cup {"message_stop", "error"}
                            \/ Is(i, "chunk") /\ out[i].chunk.finish # None}
EndsWell == \E i \in Ends : \/ out[i].type \in {"completed", "incomplete", "message_stop"}
                            \/ Is(i, "chunk") /\ out[i].chunk.finish # "error"

----------------------------------------------------------------------------
(* Properties *)

\* The text, the reasoning and, but for an Anthropic client, the refusal that a client can
\* read are what the upstream has written, however it is cut, repeated, or mixed with other
\* kinds and calls: what one delta says is never lost or said twice
\* (normalize_openai_stream_text; its comment promises as much to "incremental senders").
TextArrives ==
    state.fatal \/ /\ ClientText("content") = up.text
                   /\ ClientText("reasoning") = up.thought
                   /\ pair[2] # "anthropic" => ClientText("refusal") = up.refusal

\* An empty input is an empty object to an Anthropic upstream.
Meant(call) ==
    IF pair[1] = "anthropic" /\ call.args = <<>> THEN [call EXCEPT !.args = <<"{", "}">>] ELSE call

\* A client is told to run tools only if it was given a call with whole arguments, although
\* an Anthropic upstream may stop for a call that was cut (claude_event_to_openai_chunks).
ToolTurnsHaveCalls ==
    \A i \in DOMAIN out :
        \/ Is(i, "chunk") /\ out[i].chunk.finish = "tool_calls"
        \/ Is(i, "message_delta") /\ out[i].stop = "tool_calls"
        => \E call \in ClientCalls : IsObject(call[3])

\* A client whose stream ended well has every call of the upstream once, with its id and
\* its arguments, unwrapped if the upstream was shown a wrapper of a custom tool; of an
\* Anthropic upstream those whose arguments are whole. Deltas of several calls interleave
\* and name their call in three ways (responses_event_tool_call_index,
\* dedupe_tool_call_state_by_call_id, finalize_claude_tool_use_block). And it runs tools only
\* for such a call (ToolTurnsHaveCalls).
CallsArrive ==
    /\ ToolTurnsHaveCalls
    /\ EndsWell =>
        ClientCalls = {IF pair[2] = "responses" /\ call.name \in BridgedNames /\ Decodes(call.args)
                       THEN <<"custom", call.id, Decoded(call.args)>>
                       ELSE <<"function", call.id, call.args>> :
                       call \in {c \in {Meant(up.calls[i]) : i \in DOMAIN up.calls} :
                                    pair[1] = "anthropic" => IsObject(c.args)}}

\* The blocks of an Anthropic message are numbered in order; a delta belongs to a block of
\* its kind that was started and not stopped; a message stops when all of its blocks have,
\* each once, however reasoning, text and calls alternate (openai_chunk_to_claude_sse).
BlocksArePaired ==
    LET starts == Positions("block_start")
        stops == Positions("block_stop")
        Started(b, i) == {j \in starts : j < i /\ out[j].index = b}
        Stopped(b, i) == {j \in stops : j < i /\ out[j].index = b}
    IN /\ \A i \in starts : out[i].index = Cardinality({j \in starts : j < i})
       /\ \A i \in Positions("block_delta") :
            /\ \E j \in Started(out[i].index, i) : out[j].kind = out[i].kind
            /\ Stopped(out[i].index, i) = {}
       /\ \A i \in stops : Started(out[i].index, i) # {} /\ Stopped(out[i].index, i) = {}
       /\ \A i \in Positions("message_stop"), j \in starts : Cardinality(Stopped(out[j].index, i)) = 1

\* An output item of a Responses stream is added once under an index of its own and done
\* once, and the deltas of each of its parts lie between and add up to what it is done
\* with: also of a call that was held back until its wrapper could be taken off
\* (emit_responses_message_done, flush_pending_responses_tool_call).
ItemsArePaired ==
    LET added == Positions("item_added")
        done == Positions("item_done")
        Added(x) == {i \in added : out[i].index = x}
        Done(x) == {i \in done : out[i].index = x}
        Said(x, part) == FlattenSeq([i \in DOMAIN out |->
                            IF Is(i, "delta") /\ out[i].index = x /\ out[i].part = part
                            THEN out[i].text ELSE <<>>])
        Parts(item) == IF item.kind = "message" THEN ToSet(item.body)
                       ELSE {[kind |-> item.kind, text |-> item.body]}
    IN /\ \A i \in added : Added(out[i].index) = {i}
       /\ \A i \in Positions("delta") :
            (\E j \in Added(out[i].index) : j < i) /\ (\A j \in Done(out[i].index) : i < j)
       /\ \A i \in done :
            /\ Done(out[i].index) = {i}
            /\ \E j \in Added(out[i].index) : j < i /\ out[j].kind = out[i].item.kind
            /\ \A part \in Parts(out[i].item) : part.text = Said(out[i].index, part.kind)

\* A response that is completed or incomplete lists exactly the items that were added, each
\* as it was done, in the order of their indices: a client that reads the last event only
\* and one that reads along get the same (emit_openai_responses_terminal).
OutputIsWhatIsDone ==
    \A i \in Positions("completed") \cup Positions("incomplete") :
        LET output == out[i].output
        IN /\ ToSet(output) = {[index |-> out[j].index, item |-> out[j].item] : j \in Positions("item_done")}
           /\ {e.index : e \in ToSet(output)} = {out[j].index : j \in Positions("item_added")}
           /\ \A j \in 1..(Len(output) - 1) : output[j].index < output[j + 1].index

\* What a client is told part by part is well-formed, and adds up to what it is told at the
\* end (BlocksArePaired, ItemsArePaired, OutputIsWhatIsDone).
PartsArePaired ==
    /\ pair[2] = "anthropic" => BlocksArePaired
    /\ pair[2] = "responses" => ItemsArePaired /\ OutputIsWhatIsDone

\* Nothing but [DONE] follows the event that ends a client's stream: not the upstream's
\* usage, its [DONE], or what came in one chunk with a refused event (responses_terminal_sent,
\* fatal_rejection).
NothingFollowsTheEnd ==
    \A i \in Ends, j \in DOMAIN out : j > i => Is(j, "done")

\* When the upstream's turn is over, the client's is, even if its usage or its finish never
\* comes; only an Anthropic client is left without an end by a chat upstream that gave no
\* finish (translate_sse_event, openai_chunk_to_responses_sse).
TurnsEnd ==
    up.phase = "ended" /\ (pair[2] = "anthropic" => up.reason # None) => Ends # {}

\* A message that ends tells the usage that its upstream tells. Only a chat upstream that
\* tells it after its finish comes too late: message_delta went out with the finish, and
\* the trailing chunk is stored for nobody (openai_chunk_to_claude_sse).
UsageIsTold == pair[1] # "chat" => \A i \in Positions("message_delta") : out[i].usage = up.usage

\* A client's stream ends once, when its upstream's turn does, with the usage it told
\* (NothingFollowsTheEnd, TurnsEnd, UsageIsTold).
EndsOnce == NothingFollowsTheEnd /\ TurnsEnd /\ UsageIsTold
=============================================================================
