----------------------------- MODULE ToolBridge -----------------------------
(***************************************************************************)
(* Tool calls on their way between the protocols                           *)
(* (translate/internal/tools.rs): how the call of a tool that stands for   *)
(* another is turned back, and what the process vouches for in a call it   *)
(* sends to a client.                                                      *)
(*                                                                         *)
(* The payload of a call is what its arguments (or its input) are: free    *)
(* "text", the canonical "wrapper" {"input": text}, any other JSON         *)
(* "object", or "cut" JSON.                                                *)
(***************************************************************************)
EXTENDS ToolDefinitions

VARIABLE key    \* internal_replay_marker_key: the process's own, made anew when it restarts

----------------------------------------------------------------------------
(* Calls: [kind, id, name, namespace, payload, server, sig, marker] *)

\* proxied_tool_kind_signature: the proxy's word that a call is a server tool's,
\* bound to the name of the tool.
SignedKind(call) == <<key, call.name>>
ServerCall(call) == call.server /\ call.sig = SignedKind(call)

\* non_replayable_tool_call_signature: bound to the name and the raw arguments
SignedMarker(call) == <<[key |-> key, name |-> call.name, payload |-> call.payload]>>
\* Mutant: any mark is believed.
MarkedByAnyone(call) == call.marker # Nothing

\* trusted_non_replayable_tool_call_marker: one of this process, for this name and these arguments
MarkedPartial(call) == call.marker # Nothing /\ call.marker = SignedMarker(call)

\* copy_non_replayable_tool_call_marker: a trusted mark is made anew for the new shape
CopyMarker(source, call) ==
    [call EXCEPT !.marker = IF MarkedPartial(source) THEN SignedMarker(call) ELSE Nothing]

\* semantic_tool_kind_from_value
SemanticKind(call) ==
    CASE ServerCall(call) -> "server"
      [] ~ServerCall(call) /\ call.kind = "custom" -> "custom"
      [] OTHER -> "function"

\* openai_responses_custom_tool_bridge_arguments, ..._input_from_bridge_value
Wrapped(payload) == [payload EXCEPT !.form = "wrapper"]
Unwrapped(payload) == [payload EXCEPT !.form = "text"]

\* normalized_openai_tool_call and normalized_responses_tool_call keep the
\* claim of a server tool, and not the signature that proves it.
Normalized(call) == [call EXCEPT !.sig = Nothing]

\* Mutant: the input of a custom tool stays as it is.
ResponsesCallUnwrapped(call, bridging) ==
    CopyMarker(call, [Normalized(call) EXCEPT !.name = FlatName(call.namespace, call.name), !.namespace = <<>>])

\* responses_tool_call_item_to_openai_tool_call_strict: the namespace joins the
\* name; ..._with_request_scoped_custom_bridge_strict wraps a custom input as well.
ResponsesCallToOpenai(call, bridging) ==
    LET flat == [Normalized(call) EXCEPT !.name = FlatName(call.namespace, call.name), !.namespace = <<>>]
        wrap == bridging /\ SemanticKind(call) = "custom"
    IN  CopyMarker(call,
            IF wrap THEN [flat EXCEPT !.kind = "function", !.payload = Wrapped(call.payload)] ELSE flat)

\* openai_tool_call_to_responses_item_decoding_custom_bridge_with_context
OpenaiCallToResponses(call, ctx) ==
    LET plain == Normalized(call) IN
    CopyMarker(call,
        IF call.kind = "function" /\ call.name \in ctx.custom
        THEN IF call.payload.form = "wrapper"
             THEN [plain EXCEPT !.kind = "custom", !.payload = Unwrapped(call.payload)]
             ELSE plain
        ELSE IF call.kind = "function" /\ call.name \in DOMAIN ctx.split
        THEN [plain EXCEPT !.namespace = ctx.split[call.name][1], !.name = ctx.split[call.name][2]]
        ELSE plain)

\* anthropic_tool_use_type_for_openai_tool_call with
\* openai_tool_arguments_to_structured_value: what an Anthropic block can hold.
AnthropicTakes(call) ==
    /\ ~Reserved(call.name)
    /\ SemanticKind(call) # "custom"
    /\ call.payload.form \in {"object", "wrapper"}
=============================================================================
