---------------------------- MODULE AnthropicSink ----------------------------
(***************************************************************************)
(* The sink of an Anthropic client: chunks become the content blocks of    *)
(* one message. At most one thinking or text block is open at a time; the  *)
(* blocks of tool calls stay open until the turn ends.                     *)
(***************************************************************************)
EXTENDS StreamState

BlockStart(index, kind, id) == [type |-> "block_start", index |-> index, kind |-> kind, id |-> id]
BlockDelta(index, kind, text) == [type |-> "block_delta", index |-> index, kind |-> kind, text |-> text]
BlockStop(index) == [type |-> "block_stop", index |-> index]

\* stop_text_block_claude before it forgot the block it had closed.
StopBlockKeeping(s, kind) ==
    IF s.open[kind] = None THEN s ELSE Send(s, BlockStop(s.open[kind]))

\* stop_thinking_block_claude, stop_text_block_claude: a later delta opens a new block.
StopBlock(s, kind) ==
    IF s.open[kind] = None THEN s
    ELSE [Send(s, BlockStop(s.open[kind])) EXCEPT !.open[kind] = None]

\* ensure_thinking_block_claude, and the same for text.
EnsureBlock(s, kind) ==
    IF s.open[kind] # None THEN s
    ELSE [Send(s, BlockStart(s.nextBlock, kind, None)) EXCEPT
            !.open[kind] = s.nextBlock, !.nextBlock = @ + 1]

\* A reasoning or content delta: the block of the other kind ends first.
TextDelta(s, kind, other, text) ==
    IF text = <<>> THEN s
    ELSE LET opened == EnsureBlock(StopBlock(s, other), kind)
         IN Send(opened, BlockDelta(opened.open[kind], kind, text))

\* A tool call: its id opens a block, which takes the deltas of its index from then on.
ToolDelta(s, call) ==
    LET started ==
            IF call.id = None THEN s
            ELSE LET closed == StopBlock(StopBlock(s, "thinking"), "text")
                 IN [Send(closed, BlockStart(closed.nextBlock, "tool_use", call.id)) EXCEPT
                        !.toolBlocks = With(@, call.index, closed.nextBlock),
                        !.nextBlock = @ + 1]
    IN IF call.args = <<>> \/ call.index \notin DOMAIN started.toolBlocks THEN started
       ELSE Send(started, BlockDelta(started.toolBlocks[call.index], "tool_use", call.args))

MessageStart(s) ==
    IF s.messageStarted THEN s
    ELSE [Send(s, [type |-> "message_start"]) EXCEPT !.messageStarted = TRUE, !.nextBlock = 0]

ErrorEvent == [type |-> "error"]

\* The end of a turn: every block ends, then the message. The code stops the blocks of
\* the tool calls in the order of its hash map; here they are sorted.
MessageStop(s, finish) ==
    LET closed == StopBlock(StopBlock(s, "thinking"), "text")
        stopped == OverKeys(LAMBDA t, i : Send(t, BlockStop(t.toolBlocks[i])), closed, closed.toolBlocks)
    IN Send(Send(stopped, [type |-> "message_delta", stop |-> finish, usage |-> s.usage]),
            [type |-> "message_stop"])

\* classify_openai_finish_for_anthropic: these finishes are errors.
IsErrorFinish(finish) == finish \in {"error", "tool_error"}

FinishMessage(s, finish) ==
    IF finish = None THEN s
    ELSE IF IsErrorFinish(finish) THEN Send(s, ErrorEvent)
    ELSE MessageStop(s, finish)

\* A custom tool call that no bridge has wrapped cannot be told to this client.
IsPortable(call) == call.type # "custom"

\* openai_chunk_to_claude_sse
AnthropicSink(before, chunk) ==
    LET s == IF chunk.usage THEN [before EXCEPT !.usage = TRUE] ELSE before
        new == Normalized(s, chunk)
        onlyFinish == [chunk EXCEPT !.finish = None, !.usage = FALSE, !.error = FALSE] = EmptyChunk
        rejected == [Seen(s, [new EXCEPT !.content = <<>>, !.refusal = <<>>]) EXCEPT !.fatal = TRUE]
    IN IF before.fatal /\ ~ chunk.error THEN before
       ELSE IF ~ chunk.choices THEN s
       ELSE IF \E i \in DOMAIN chunk.calls : ~ IsPortable(chunk.calls[i]) THEN Send(rejected, ErrorEvent)
       ELSE IF IsErrorFinish(chunk.finish) /\ ~ s.messageStarted /\ onlyFinish THEN Send(s, ErrorEvent)
       ELSE LET started == MessageStart(Seen(s, [new EXCEPT !.refusal = <<>>]))
                thought == TextDelta(started, "thinking", "text", new.reasoning)
                told == TextDelta(thought, "text", "thinking", new.content)
            IN FinishMessage(FoldLeft(ToolDelta, told, chunk.calls), chunk.finish)
============================================================================
