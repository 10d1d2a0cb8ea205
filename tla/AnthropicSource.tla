--------------------------- MODULE AnthropicSource ---------------------------
(***************************************************************************)
(* The source of an Anthropic upstream: its events become chunks. Text and *)
(* thinking are passed on as they come; a tool call is held back until its *)
(* block ends, because only then is it known whether its arguments are     *)
(* whole. Signatures, citations and omitted thinking are left out.         *)
(***************************************************************************)
EXTENDS StreamState

\* convert_claude_stop_reason
FinishOf(stop) ==
    CASE stop = "tool_use" -> "tool_calls"
      [] stop = "max_tokens" -> "length"
      [] stop = "pause_turn" -> "pause_turn"
      [] stop = "refusal" -> "content_filter"
      [] stop = "model_context_window_exceeded" -> "context_length_exceeded"
      [] OTHER -> "stop"

\* What a cut tool call is turned into: a notice, which is no letter of the upstream's.
DegradedText == <<0>>

\* merge_seeded_tool_arguments: the shortest cut of the seed that the delta completes.
MergeSeeded(seed, delta) ==
    LET Cut(n) == SubSeq(seed, 1, Len(seed) - n) \o delta
        cuts == {n \in 0..Len(seed) : IsObject(Cut(n))}
    IN IF delta = <<>> THEN seed
       ELSE IF cuts = {} THEN seed \o delta
       ELSE Cut(CHOOSE n \in cuts : \A m \in cuts : n <= m)

\* finalize_claude_tool_use_block: whole arguments give the call, others a text.
FinalizeToolUse(r, index) ==
    IF index \notin DOMAIN r.state.claudeToolUses THEN r
    ELSE LET tool == r.state.claudeToolUses[index]
             args == IF tool.zeroArg /\ tool.args = <<>> THEN <<"{", "}">> ELSE tool.args
             given == GiveRole(r)
         IN IF tool.finalized THEN r
            ELSE IF IsObject(args)
            THEN [Give(given, [EmptyChunk EXCEPT !.calls =
                                <<CallDelta(tool.index, tool.id, tool.name, "function", args)>>])
                  EXCEPT !.state.claudeToolUses[index].finalized = TRUE,
                         !.state.claudeToolUses[index].emitted = TRUE]
            ELSE [Give(given, [EmptyChunk EXCEPT !.content = DegradedText])
                  EXCEPT !.state.claudeToolUses[index].finalized = TRUE]

BlockStarted(s, event) ==
    LET known == [s EXCEPT !.claudeBlocks = With(@, event.index, event.kind)]
        tool == [index |-> s.claudeToolUseIndex, id |-> event.id, name |-> event.name, args |-> event.input,
                 zeroArg |-> event.input = <<>>, seeded |-> event.input # <<>>,
                 emitted |-> FALSE, finalized |-> FALSE]
    IN CASE event.kind \in {"text", "thinking"} -> From(known)
         [] event.kind = "tool_use" ->
                From([known EXCEPT !.claudeToolUses = With(@, event.index, tool),
                                   !.claudeToolUseIndex = @ + 1])
         [] OTHER -> Rejected(s)

\* A tool use that was given more of its arguments.
Continued(tool, args) ==
    [tool EXCEPT !.zeroArg = FALSE, !.seeded = FALSE,
                 !.args = IF tool.seeded THEN MergeSeeded(@, args) ELSE @ \o args]

ArgumentsDelta(s, event) ==
    IF event.index \notin DOMAIN s.claudeToolUses THEN From(s)
    ELSE From([s EXCEPT !.claudeToolUses[event.index] = Continued(@, event.args)])

ThinkingDelta(s, event) ==
    IF event.index \notin DOMAIN s.claudeBlocks \/ s.claudeBlocks[event.index] # "thinking"
    THEN Rejected(s)
    ELSE IF event.text = <<>> THEN From(s)
    ELSE Give(GiveRole(From(s)), [EmptyChunk EXCEPT !.reasoning = event.text])

TextDeltaGiven(s, event) ==
    IF event.text = <<>> THEN From(s)
    ELSE Give(GiveRole(From(s)), [EmptyChunk EXCEPT !.content = event.text])

BlockStopped(s, event) ==
    LET final == FinalizeToolUse(From(s), event.index)
    IN [final EXCEPT !.state.claudeBlocks = Without(@, event.index)]

MessageDeltaRead(s, event) ==
    From([s EXCEPT !.finish = IF event.stop = None THEN @ ELSE FinishOf(event.stop), !.usage = @ \/ event.usage])

\* message_stop: calls that were never ended are now; the finish says tool_calls only if
\* a call was given.
MessageStopped(s) ==
    LET final == OverKeys(FinalizeToolUse, From(s), s.claudeToolUses)
        uses == final.state.claudeToolUses
        hasCalls == \E i \in DOMAIN uses : uses[i].emitted
        finish == IF s.finish = None THEN IF hasCalls THEN "tool_calls" ELSE "stop"
                  ELSE IF s.finish = "tool_calls" /\ ~ hasCalls THEN "stop" ELSE s.finish
    IN IF s.finishSent THEN From(s)
       ELSE [Give(final, [EmptyChunk EXCEPT !.finish = finish, !.usage = s.usage])
             EXCEPT !.state.finishSent = TRUE]

\* claude_event_to_openai_chunks
AnthropicSource(s, event) ==
    IF s.fatal THEN From(s) ELSE
    CASE event.type = "message_start" ->
            GiveRole(From([s EXCEPT !.claudeBlocks = NoBlocks,
                                    !.claudeToolUses = NoBlocks,
                                    !.claudeToolUseIndex = 0]))
      [] event.type = "block_start" -> BlockStarted(s, event)
      [] event.type = "text_delta" -> TextDeltaGiven(s, event)
      [] event.type = "thinking_delta" -> ThinkingDelta(s, event)
      [] event.type = "input_json_delta" -> ArgumentsDelta(s, event)
      [] event.type = "block_stop" -> BlockStopped(s, event)
      [] event.type = "message_delta" -> MessageDeltaRead(s, event)
      [] event.type = "message_stop" -> MessageStopped(s)
      [] OTHER -> From(s)
============================================================================
