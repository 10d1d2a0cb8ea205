---------------------------- MODULE StreamState ----------------------------
(***************************************************************************)
(* StreamState, what the translation of one event stream remembers, and    *)
(* the chat chunk, the form every stream passes through: a source turns    *)
(* the upstream's events into chunks, a sink turns chunks into the         *)
(* client's events.                                                        *)
(*                                                                         *)
(* A text is a sequence of numbers, the arguments of a tool call one of    *)
(* "{", "x" and "}". Both are only told apart as far as the code does: by  *)
(* being a prefix of one another, and by being a valid JSON object.        *)
(***************************************************************************)
EXTENDS Integers, Sequences, SequencesExt

CONSTANT None

\* No value is neither a number nor a reason of an end: an Option's None is none of its Some's.
ASSUME NoneAssumption ==
    None \notin Nat \cup {"stop", "tool_calls", "length", "content_filter", "pause_turn",
                        "error", "tool_error", "context_length_exceeded"}

\* What an upstream's model, or a stopped one, can give as the reason of its end.
FailingFinishes == {"error", "tool_error", "context_length_exceeded"}
IncompleteFinishes == {"length", "content_filter", "pause_turn"}

\* A parsed argument text is an object.
IsObject(args) ==
    /\ Len(args) >= 2
    /\ Head(args) = "{" /\ Last(args) = "}"
    /\ \A i \in 2..(Len(args) - 1) : args[i] = "x"

\* A chunk with one choice and an empty delta.
EmptyChunk ==
    [role |-> FALSE, reasoning |-> <<>>, content |-> <<>>, refusal |-> <<>>, calls |-> <<>>,
     finish |-> None, usage |-> FALSE, error |-> FALSE, choices |-> TRUE]

\* The part of a tool call a chunk carries: id, name and type only in its first one.
CallDelta(index, id, name, type, args) ==
    [index |-> index, id |-> id, name |-> name, type |-> type, args |-> args]

\* ToolCallState::default
NewCall ==
    [id |-> None, name |-> None, type |-> None, args |-> <<>>, block |-> None, itemId |-> None,
     customInput |-> None, customDone |-> FALSE, added |-> FALSE, done |-> FALSE]

\* StreamState::default, with out the events the client was sent.
NoCalls == [i \in {} |-> NewCall]
NoBlocks == [i \in {} |-> None]

InitialState ==
    [fatal |-> FALSE, usage |-> FALSE, finish |-> None, finishSent |-> FALSE, roleSent |-> FALSE,
     seen |-> [reasoning |-> <<>>, content |-> <<>>, refusal |-> <<>>],
     toolCalls |-> NoCalls, toolCallIndex |-> 0, claudeBlocks |-> NoBlocks,
     claudeToolUses |-> NoBlocks, claudeToolUseIndex |-> 0,
     messageStarted |-> FALSE, nextBlock |-> 0, open |-> [thinking |-> None, text |-> None],
     toolBlocks |-> NoBlocks,
     responsesStarted |-> FALSE, terminalSent |-> FALSE, nextOutput |-> 0,
     reasoning |-> [index |-> None, text |-> <<>>],
     message |-> [index |-> None, parts |-> <<>>], completedMessages |-> <<>>,
     out |-> <<>>]

Send(s, event) == [s EXCEPT !.out = Append(@, event)]

\* f with the value at x changed or added.
With(f, x, value) == [y \in DOMAIN f \cup {x} |-> IF y = x THEN value ELSE f[y]]
Without(f, x) == [y \in DOMAIN f \ {x} |-> f[y]]

\* s after a step for each key of a map, in the order the code sorts the keys in: the last
\* step is the one for the greatest.
OverKeys(Step(_, _), s, f) == MapThenFoldSet(LAMBDA i, t : Step(t, i), s, LAMBDA i : i, Max, DOMAIN f)

----------------------------------------------------------------------------
(* Text *)

\* normalize_openai_stream_text without its case for cumulative senders.
NewTextIncremental(incoming, seen) == IF incoming = seen THEN <<>> ELSE incoming

\* normalize_openai_stream_text: what of a delta is new. A delta that extends all that
\* was seen is taken for a cumulative one, one that repeats it for a resend.
NewText(incoming, seen) ==
    IF incoming = seen THEN <<>>
    ELSE IF IsStrictPrefix(seen, incoming) THEN SubSeq(incoming, Len(seen) + 1, Len(incoming))
    ELSE incoming

\* The chunk with its texts normalized; the kinds of text that a sink looks at.
Normalized(s, chunk) ==
    [chunk EXCEPT !.reasoning = NewText(@, s.seen.reasoning),
                  !.content = NewText(@, s.seen.content),
                  !.refusal = NewText(@, s.seen.refusal)]

\* s after the sink has looked at the texts of a normalized chunk.
Seen(s, new) ==
    [s EXCEPT !.seen = [reasoning |-> @.reasoning \o new.reasoning,
                        content |-> @.content \o new.content,
                        refusal |-> @.refusal \o new.refusal]]

----------------------------------------------------------------------------
(* Chunks a source adds: a source's result is its state and its chunks. *)

From(s) == [state |-> s, chunks |-> <<>>]

Give(r, chunk) == [r EXCEPT !.chunks = Append(@, chunk)]

\* emit_openai_assistant_role_if_needed
GiveRole(r) ==
    IF r.state.roleSent THEN r
    ELSE [Give(r, [EmptyChunk EXCEPT !.role = TRUE]) EXCEPT !.state.roleSent = TRUE]

\* reject_openai_stream: the stream ends with one error.
Rejected(s) ==
    [state |-> [s EXCEPT !.fatal = TRUE, !.finish = "error", !.finishSent = TRUE],
     chunks |-> <<[EmptyChunk EXCEPT !.finish = "error", !.error = TRUE, !.usage = s.usage]>>]
============================================================================
