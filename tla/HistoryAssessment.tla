-------------------------- MODULE HistoryAssessment --------------------------
(***************************************************************************)
(* Which histories the proxy refuses to translate                          *)
(* (translate/internal/assessment.rs): the part of the portability         *)
(* assessment that looks at what the client says again, before anything is *)
(* translated. The controls of a request are RequestControls.              *)
(***************************************************************************)
EXTENDS AnthropicChat, ResponsesChat

----------------------------------------------------------------------------
(* A Responses client *)

\* responses_input_item_has_visible_portable_context: the text of a refusal is
\* not where it is looked for.
VisibleItem(item) ==
    CASE item.type = "message" -> Shows(item.content, {"text", "label", "image"}) # <<>>
      [] item.type = "reasoning" -> item.summary # <<>>
      [] item.type \in {"compaction", "agent_message"} -> Shows(item.content, {"text", "label"}) # <<>>
      [] OTHER -> FALSE

Encrypted(item) == item.type = "reasoning" /\ (item.sealed \/ item.carrier # <<>>)

\* responses_input_reasoning_encrypted_content_requires_native_continuity: the
\* state of another provider can be left out if something of it can be seen.
ReasoningMayBeDropped(items) ==
    (\E i \in DOMAIN items : Encrypted(items[i]) /\ items[i].summary = <<>>)
        => \E i \in DOMAIN items : VisibleItem(items[i])

\* responses_namespace_is_bridged
Bridged(tools, namespace) ==
    \E tool \in ToSet(NormalizedTools(tools)) : tool.kind = "namespace" /\ tool.name = namespace

\* responses_nonportable_input_item_message
PortableItem(items, i, tools) ==
    LET item == items[i] IN
    CASE item.type = "call" /\ item.call.namespace # <<>> -> Bridged(tools, item.call.namespace)
      [] item.type = "compaction" ->
            \/ VisibleItem(item)
            \/ \E j \in DOMAIN items : items[j].type # "compaction" /\ VisibleItem(items[j])
      [] OTHER -> item.type \in {"message", "call", "output", "reasoning", "agent_message"}

\* responses_nonportable_tool_output_message: text, and what is sealed beside it
PortableOutput(item) ==
    item.type = "output" =>
        /\ Shows(item.content, {"image"}) = <<>>
        /\ Shows(item.content, {"sealed"}) # <<>> => Shows(item.content, {"text", "label"}) # <<>>

----------------------------------------------------------------------------
(* Calls an Anthropic upstream is given *)

\* request_has_custom_tools
HasCustomTools(tools, calls) ==
    \/ \E i \in DOMAIN tools : tools[i].kind = "custom"
    \/ \E i \in DOMAIN calls : SemanticKind(calls[i]) = "custom"

\* Mutant: what is marked as partial must be an object all the same.
ArgumentsAreWhole(calls) ==
    \A i \in DOMAIN calls : SemanticKind(calls[i]) = "custom" \/ calls[i].payload.form \in {"object", "wrapper"}

\* request_invalid_structured_tool_arguments_message: what is marked as partial
\* will be told in words.
ArgumentsAreStructured(calls) ==
    \A i \in DOMAIN calls :
        SemanticKind(calls[i]) = "custom" \/ MarkedPartial(calls[i]) \/ calls[i].payload.form \in {"object", "wrapper"}

----------------------------------------------------------------------------
(* An Anthropic client *)

\* anthropic_opaque_thinking_carrier_message, anthropic_block_has_provider_owned_state_hint
Opaque(b) == b.kind \in {"redacted_thinking"} \/ (b.kind = "thinking" /\ b.text = <<>>)

BlocksOf(messages, role) ==
    FlattenSeq([i \in DOMAIN messages |-> IF role \in {"any", messages[i].role} THEN messages[i].blocks ELSE <<>>])

UseIds(messages) ==
    LET uses == Of(BlocksOf(messages, "assistant"), {"tool_use"}) IN [i \in DOMAIN uses |-> uses[i].call.id]

\* pending_tool_use_ids: a call opens its id, a result closes it, none stays open.
PairsUp(messages) ==
    LET structural == FlattenSeq([i \in DOMAIN messages |->
            SelectSeq(messages[i].blocks, LAMBDA b : b.kind = "tool_use" => messages[i].role = "assistant")])
        step(acc, b) ==
            CASE b.kind = "tool_use" ->
                    [open |-> acc.open \cup {b.call.id}, sound |-> acc.sound /\ b.call.id \notin acc.open]
              [] b.kind = "tool_result" -> [open |-> acc.open \ {b.id}, sound |-> acc.sound /\ b.id \in acc.open]
              [] OTHER -> acc
    IN  FoldLeft(step, [open |-> {}, sound |-> TRUE], structural) = [open |-> {}, sound |-> TRUE]

\* anthropic_request_has_complete_visible_history
CompleteVisibleHistory(messages) ==
    /\ \A i \in DOMAIN messages : \A b \in ToSet(messages[i].blocks) : ~Opaque(b)
    /\ Visible(BlocksOf(messages, "user")) # <<>>
    /\ PairsUp(messages)

\* validate_anthropic_context_management_edits
WellFormedEdits(edits) ==
    \A i \in DOMAIN edits : (edits[i].type = "clear_thinking" => i = 1) /\ edits[i].keep > 0

\* anthropic_user_turn_requires_tool_result_reordering: results come first
ResultsComeFirst(blocks) ==
    \A i, j \in DOMAIN blocks : i < j /\ blocks[j].kind = "tool_result" => blocks[i].kind = "tool_result"

----------------------------------------------------------------------------
(* assess_request_translation_with_dialect: no issue is a rejection *)

ResponsesHistoryAccepted(items, tools, upstream) ==
    LET calls == Items(items, {"call"}) IN
    /\ ReasoningMayBeDropped(items)
    /\ \A i \in DOMAIN items : PortableItem(items, i, tools) /\ PortableOutput(items[i])
    /\ upstream = "anthropic" => ArgumentsAreStructured([i \in DOMAIN calls |-> calls[i].call])

ChatHistoryAccepted(messages, tools, upstream) ==
    LET calls == FlattenSeq([i \in DOMAIN messages |-> messages[i].calls]) IN
    upstream = "anthropic" => ~HasCustomTools(tools, calls) /\ ArgumentsAreStructured(calls)

AnthropicHistoryAccepted(messages, edits) ==
    /\ edits # <<>> => WellFormedEdits(edits) /\ CompleteVisibleHistory(messages)
    /\ IsInjective(UseIds(messages))
    /\ \A i \in DOMAIN messages :
        /\ messages[i].role = "user" => ResultsComeFirst(messages[i].blocks)
        /\ Supported(messages[i].blocks)
        /\ \A b \in ToSet(messages[i].blocks) : ~Opaque(b)
=============================================================================
