---------------------------- MODULE ResponsesSink ----------------------------
(***************************************************************************)
(* The sink of a Responses client: chunks become output items, a reasoning *)
(* item, messages and tool calls, each added and done under an output      *)
(* index of its own, and a terminal event that lists them.                 *)
(*                                                                         *)
(* Annotations, namespaces and the kinds of proxied tools, which only      *)
(* decorate an item, are left out, as are the chunks of another proxy that *)
(* carry a non-replayable mark already.                                    *)
(***************************************************************************)
EXTENDS StreamState

CONSTANT BridgedNames   \* names of custom tools that the request wrapped as functions

ItemAdded(index, kind, id) == [type |-> "item_added", index |-> index, kind |-> kind, id |-> id]
ItemDelta(index, part, text) == [type |-> "delta", index |-> index, part |-> part, text |-> text]
ItemDone(index, item) == [type |-> "item_done", index |-> index, item |-> item]
Item(kind, id, body, marked) == [kind |-> kind, id |-> id, body |-> body, marked |-> marked]

Terminals == {"completed", "incomplete", "failed"}

----------------------------------------------------------------------------
(* Messages *)

\* responses_message_output_index, ensure_responses_message_item_added
EnsureMessage(s) ==
    IF s.message.index # None THEN s
    ELSE [Send(s, ItemAdded(s.nextOutput, "message", None)) EXCEPT
            !.message.index = s.nextOutput, !.nextOutput = @ + 1]

\* The place of the part of a kind, 0 if there is none.
PartOf(s, kind) == SelectInSeq(s.message.parts, LAMBDA p : p.kind = kind)

\* ensure_responses_message_part
EnsurePart(s, kind) ==
    IF PartOf(s, kind) # 0 THEN s
    ELSE [Send(s, [type |-> "part_added", index |-> s.message.index, kind |-> kind]) EXCEPT
            !.message.parts = Append(@, [kind |-> kind, text |-> <<>>])]

\* A content or refusal delta goes to the part of its kind of the current message.
MessageDelta(s, kind, text) ==
    IF text = <<>> THEN s
    ELSE LET opened == EnsurePart(EnsureMessage(s), kind)
             part == PartOf(opened, kind)
         IN Send([opened EXCEPT !.message.parts[part].text = @ \o text],
                 ItemDelta(opened.message.index, kind, text))

\* emit_responses_message_done: the parts end in order, then the message, and a later
\* delta starts another one.
MessageDone(s) ==
    IF s.message.index = None THEN s
    ELSE LET item == Item("message", None, s.message.parts, FALSE)
             PartDone(part) == [type |-> "part_done", index |-> s.message.index, kind |-> part.kind]
             parts == [s EXCEPT !.out = @ \o [i \in DOMAIN s.message.parts |-> PartDone(s.message.parts[i])]]
         IN [Send(parts, ItemDone(s.message.index, item)) EXCEPT
                !.completedMessages = Append(@, [index |-> s.message.index, item |-> item]),
                !.message = [index |-> None, parts |-> <<>>]]

\* The only reasoning item is added with its first delta.
ReasoningDelta(s, text) ==
    IF text = <<>> THEN s
    ELSE LET added == IF s.reasoning.index # None THEN s
                      ELSE [Send(s, ItemAdded(s.nextOutput, "reasoning", None)) EXCEPT
                               !.reasoning.index = s.nextOutput, !.nextOutput = @ + 1]
         IN Send([added EXCEPT !.reasoning.text = @ \o text],
                 ItemDelta(added.reasoning.index, "reasoning", text))

----------------------------------------------------------------------------
(* Tool calls *)

OrElse(value, other) == IF value = None THEN other ELSE value

\* dedupe_tool_call_state_by_call_id: a call that comes back under another index keeps
\* what is known of it, and its old entry goes.
Dedupe(calls, index, id) ==
    LET olds == IF id = None THEN {} ELSE {i \in DOMAIN calls \ {index} : calls[i].id = id}
    IN IF olds = {} THEN calls
       ELSE LET old == CHOOSE i \in olds : TRUE
                was == calls[old]
                is == IF index \in DOMAIN calls THEN calls[index] ELSE was
            IN With(Without(calls, old), index,
                    [is EXCEPT !.id = OrElse(@, was.id), !.name = OrElse(@, was.name),
                               !.args = IF @ = <<>> THEN was.args ELSE @,
                               !.type = OrElse(@, was.type), !.block = OrElse(@, was.block),
                               !.itemId = OrElse(@, was.itemId),
                               !.customInput = OrElse(@, was.customInput),
                               !.customDone = @ \/ was.customDone,
                               !.added = @ \/ was.added, !.done = @ \/ was.done])

\* responses_tool_output_index
ReserveOutput(s, index) ==
    LET call == IF index \in DOMAIN s.toolCalls THEN s.toolCalls[index] ELSE NewCall
    IN IF call.block # None THEN s
       ELSE [s EXCEPT !.toolCalls = With(@, index, [call EXCEPT !.block = s.nextOutput]),
                      !.nextOutput = @ + 1]

TypeOf(call) == OrElse(call.type, "function")

\* openai_custom_bridge_decode_arguments_stream: {"input": "..."} without its wrapper. An
\* object without a field is no wrapper.
Decodes(args) == IsObject(args) /\ Len(args) > 2
Decoded(args) == SubSeq(args, 2, Len(args) - 1)

IsWrapped(call) == TypeOf(call) # "custom" /\ call.name \in BridgedNames

\* flush_pending_responses_tool_call: a call whose id is known is added, with the
\* arguments it has; one of a wrapped custom tool waits until they can be unwrapped, or,
\* at the end, stays the function it came as.
FlushCall(s, index, finalize) ==
    LET reserved == ReserveOutput(s, index)
        call == reserved.toolCalls[index]
        unwraps == IsWrapped(call) /\ Decodes(call.args)
        told == IF unwraps THEN [call EXCEPT !.type = "custom", !.args = Decoded(@)] ELSE call
        added == Send([reserved EXCEPT !.toolCalls[index] = [told EXCEPT !.added = TRUE]],
                      ItemAdded(told.block, TypeOf(told), told.id))
    IN IF call.added \/ call.id = None THEN reserved
       ELSE IF IsWrapped(call) /\ ~ unwraps /\ ~ finalize THEN reserved
       ELSE IF told.args = <<>> THEN added
       ELSE Send(added, ItemDelta(told.block, TypeOf(told), told.args))

\* flush_pending_responses_tool_calls, at the end.
FlushAll(s) == OverKeys(LAMBDA t, i : FlushCall(t, i, TRUE), s, s.toolCalls)

\* One tool call of a chunk is merged into what is known of it; what it adds to an item
\* that was added before is a delta.
ToolCall(s, delta) ==
    LET moved == [s EXCEPT !.toolCalls = Dedupe(@, delta.index, delta.id)]
        reserved == ReserveOutput(moved, delta.index)
        was == reserved.toolCalls[delta.index]
        call == [was EXCEPT !.id = OrElse(delta.id, @), !.name = OrElse(delta.name, @),
                            !.type = IF @ = None \/ delta.type # None
                                     THEN OrElse(delta.type, "function") ELSE @,
                            !.args = @ \o delta.args]
        merged == [reserved EXCEPT !.toolCalls[delta.index] = call]
    IN IF ~ was.added THEN IF call.id = None THEN merged ELSE FlushCall(merged, delta.index, FALSE)
       ELSE IF delta.args = <<>> THEN merged
       ELSE Send(merged, ItemDelta(call.block, TypeOf(call), delta.args))

\* responses_stream_tool_call_should_be_marked_non_replayable: arguments that were cut.
IsMarked(call, finish) ==
    \/ /\ finish \in {"length", "pause_turn"}
       /\ call.args # <<>>
       /\ TypeOf(call) = "custom" \/ ~ IsObject(call.args)
    \/ finish = None /\ TypeOf(call) # "custom" /\ ~ IsObject(call.args)

CallItem(call, finish) == Item(TypeOf(call), call.id, call.args, IsMarked(call, finish))

\* emit_pending_responses_tool_call_done_events: every added call that is not done.
CallsDone(s, finish) ==
    OverKeys(LAMBDA t, i :
                LET call == t.toolCalls[i]
                IN IF ~ call.added \/ call.done THEN t
                   ELSE Send([t EXCEPT !.toolCalls[i].done = TRUE],
                             ItemDone(call.block, CallItem(call, finish))),
             s, s.toolCalls)

----------------------------------------------------------------------------
(* The end of the stream, and the sink as a whole *)

Status(finish) ==
    CASE finish \in FailingFinishes -> "failed"
      [] finish \in IncompleteFinishes -> "incomplete"
      [] OTHER -> "completed"

ReasoningItem(s) == Item("reasoning", None, s.reasoning.text, FALSE)

\* The output of a finished response: reasoning, messages and the calls that have an id,
\* in the order of their indices.
Output(s) ==
    LET reasoning == IF s.reasoning.index = None THEN {}
                     ELSE {[index |-> s.reasoning.index, item |-> ReasoningItem(s)]}
        calls == {[index |-> OrElse(s.toolCalls[i].block, i), item |-> CallItem(s.toolCalls[i], s.finish)] :
                  i \in {j \in DOMAIN s.toolCalls : s.toolCalls[j].id # None}}
        items == reasoning \cup ToSet(s.completedMessages) \cup calls
        At(index) == SetToSeq({e \in items : e.index = index})
    IN MapThenFoldSet(LAMBDA index, output : output \o At(index), <<>>,
                      LAMBDA index : index, Max, {e.index : e \in items})

\* emit_openai_responses_terminal
Terminal(s) ==
    LET thought == IF s.reasoning.index = None THEN s
                   ELSE Send(s, ItemDone(s.reasoning.index, ReasoningItem(s)))
        done == MessageDone(CallsDone(thought, s.finish))
    IN Send([done EXCEPT !.terminalSent = TRUE], [type |-> Status(s.finish), output |-> Output(done)])

\* The last chunk with a finish reason ends the response at once, unless its usage is
\* still to come.
ShouldFinalize(s, chunk, waitsForUsage) ==
    s.finish # None /\ (chunk.usage \/ ~ waitsForUsage)

Created(s) ==
    IF s.responsesStarted THEN s
    ELSE [Send(s, [type |-> "created"]) EXCEPT !.responsesStarted = TRUE]

\* openai_chunk_to_responses_sse. waitsForUsage: the chunk is of a MiniMax model.
ResponsesSink(before, chunk, waitsForUsage) ==
    LET new == Normalized(before, chunk)
        texts == MessageDelta(
                    MessageDelta(ReasoningDelta(Created(Seen(before, new)), new.reasoning),
                                 "text", new.content),
                    "refusal", new.refusal)
        calls == IF chunk.calls = <<>> THEN texts
                 ELSE FoldLeft(ToolCall, MessageDone(texts), chunk.calls)
        s == [calls EXCEPT !.usage = @ \/ chunk.usage, !.finish = OrElse(chunk.finish, @)]
        flushed == IF chunk.finish = "tool_calls" THEN CallsDone(FlushAll(s), "tool_calls") ELSE s
    IN IF before.terminalSent THEN before
       ELSE IF chunk.finish \in FailingFinishes THEN Terminal(FlushAll(s))
       ELSE IF ShouldFinalize(flushed, chunk, waitsForUsage) THEN Terminal(FlushAll(flushed))
       ELSE flushed

\* EndResponses of a stream whose finish is known only.
EndFinished(s) == IF s.terminalSent \/ s.finish = None THEN s ELSE Terminal(FlushAll(s))

\* translate_sse_event at the end of a chat stream, and anthropic_error_event_to_client_sse.
EndResponses(s) == IF s.terminalSent THEN s ELSE Terminal(FlushAll(s))
FailResponses(s) ==
    Send([s EXCEPT !.fatal = TRUE, !.terminalSent = TRUE], [type |-> "failed", output |-> <<>>])
============================================================================
