--------------------------- MODULE ResponsesSource ---------------------------
(***************************************************************************)
(* The source of a Responses upstream: its events become chunks. A call    *)
(* of a custom tool is wrapped: its input becomes the only field of an     *)
(* object, opened with the call and closed when the input is done.         *)
(***************************************************************************)
EXTENDS StreamState

\* openai_custom_bridge_start_delta_stream and ..._done_delta_stream
WrapperStart == <<"{">>
WrapperEnd == <<"}">>

GiveCall(r, call) == Give(r, [EmptyChunk EXCEPT !.calls = <<call>>])

\* response.output_item.added of a tool call.
CallAdded(s, event) ==
    LET index == s.toolCallIndex
        args == IF event.kind = "custom" THEN WrapperStart \o event.args ELSE event.args
        call == [NewCall EXCEPT !.id = event.id, !.name = event.name, !.args = args,
                                !.type = "function", !.itemId = event.item,
                                !.block = event.output,
                                !.customInput = IF event.kind = "custom" THEN event.args ELSE None]
    IN GiveCall(From([s EXCEPT !.toolCalls = With(@, index, call), !.toolCallIndex = @ + 1]),
                CallDelta(index, event.id, event.name, "function", args))

\* CallIndex that takes every delta for one of the last call.
CallIndexLast(s, event) == IF s.toolCallIndex = 0 THEN 0 ELSE s.toolCallIndex - 1

\* responses_event_tool_call_index: by the item, else by the output index, else the last.
CallIndex(s, event) ==
    LET byItem == {i \in DOMAIN s.toolCalls : event.item # None /\ s.toolCalls[i].itemId = event.item}
        byOutput == {i \in DOMAIN s.toolCalls : event.output # None /\ s.toolCalls[i].block = event.output}
    IN IF byItem # {} THEN CHOOSE i \in byItem : TRUE
       ELSE IF byOutput # {} THEN CHOOSE i \in byOutput : TRUE
       ELSE IF s.toolCallIndex = 0 THEN 0 ELSE s.toolCallIndex - 1

\* A delta of a call's arguments, or of a custom call's input.
CallArguments(s, event) ==
    LET index == CallIndex(s, event)
        was == IF index \in DOMAIN s.toolCalls THEN s.toolCalls[index] ELSE NewCall
        call == [was EXCEPT !.type = IF @ = None THEN "function" ELSE @,
                            !.itemId = IF @ = None THEN event.item ELSE @,
                            !.block = IF @ = None THEN event.output ELSE @,
                            !.args = @ \o event.args,
                            !.customInput = IF event.type # "input_delta" THEN @
                                            ELSE IF @ = None THEN event.args ELSE @ \o event.args]
    IN IF event.args = <<>> THEN From(s)
       ELSE GiveCall(From([s EXCEPT !.toolCalls = With(@, index, call)]),
                     CallDelta(index, None, None, "function", event.args))

\* finalize_custom_tool_call_bridge_delta: what of the input was not given yet, if that is
\* an extension, and the wrapper's end; once.
Finalized(call, input) ==
    LET rest == IF IsPrefix(call.customInput, input)
                THEN SubSeq(input, Len(call.customInput) + 1, Len(input)) ELSE <<>>
    IN [call EXCEPT !.customInput = @ \o rest, !.args = @ \o rest \o WrapperEnd,
                    !.customDone = TRUE]

\* The end of one custom call is given with its id.
FinalizeCustom(r, index, input) ==
    LET call == r.state.toolCalls[index]
        final == Finalized(call, input)
    IN IF call.customInput = None \/ call.customDone THEN r
       ELSE GiveCall([r EXCEPT !.state.toolCalls[index] = final],
                     CallDelta(index, call.id, None, "function",
                               SubSeq(final.args, Len(call.args) + 1, Len(final.args))))

InputDone(s, event) ==
    LET index == CallIndex(s, event)
    IN IF index \notin DOMAIN s.toolCalls THEN From(s)
       ELSE FinalizeCustom(From(s), index, event.args)

\* responses_terminal_custom_tool_bridge_chunk: custom calls in the terminal's output that
\* were never done are ended with the input they have there.
TerminalCustomCalls(s, output) ==
    LET End(r, item) ==
            LET known == {i \in DOMAIN r.state.toolCalls : r.state.toolCalls[i].id = item.id}
            IN IF item.kind # "custom" \/ known = {} THEN r
               ELSE FinalizeCustom(r, CHOOSE i \in known : TRUE, item.args)
    IN FoldLeft(End, From(s), output)

\* response.completed, response.incomplete and response.failed: one finish.
TerminalRead(s, event) ==
    LET ended == TerminalCustomCalls(s, event.output)
        hasCalls == DOMAIN ended.state.toolCalls # {} \/ event.output # <<>>
        finish == IF event.type # "completed" THEN event.reason
                  ELSE IF hasCalls THEN "tool_calls" ELSE "stop"
        told == [ended EXCEPT !.state.usage = @ \/ event.usage]
    IN IF s.finishSent THEN told
       ELSE [Give(told, [EmptyChunk EXCEPT !.finish = finish, !.usage = told.state.usage])
             EXCEPT !.state.finishSent = TRUE]

\* response.refusal.delta, and response.refusal.done with the whole of it
RefusalDelta(s, event) ==
    LET new == NewText(event.text, s.seen.refusal)
    IN IF new = <<>> THEN From(s)
       ELSE Give(From([s EXCEPT !.seen.refusal = @ \o new]), [EmptyChunk EXCEPT !.refusal = new])

\* responses_event_to_openai_chunks
ResponsesSource(s, event) ==
    CASE event.type = "created" -> GiveRole(From(s))
      [] event.type = "audio" -> Rejected(s)
      [] event.type = "text_delta" -> Give(From(s), [EmptyChunk EXCEPT !.content = event.text])
      [] event.type \in {"refusal_delta", "refusal_done"} -> RefusalDelta(s, event)
      [] event.type = "reasoning_delta" -> Give(From(s), [EmptyChunk EXCEPT !.reasoning = event.text])
      [] event.type = "call_added" -> CallAdded(s, event)
      [] event.type \in {"arguments_delta", "input_delta"} -> CallArguments(s, event)
      [] event.type = "input_done" -> InputDone(s, event)
      [] event.type \in {"completed", "incomplete", "failed"} -> TerminalRead(s, event)
      [] OTHER -> From(s)
============================================================================
