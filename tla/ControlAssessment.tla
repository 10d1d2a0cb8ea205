--------------------------- MODULE ControlAssessment ---------------------------
(***************************************************************************)
(* Which controls of a request can be carried to an upstream of another    *)
(* protocol, which are dropped with a warning and which have the request   *)
(* refused (translate/internal/assessment.rs). HistoryAssessment looks at  *)
(* what is said in the request, this module at everything beside it.       *)
(*                                                                         *)
(* A request body is a function from the fields it has to their values. An *)
(* object is flattened: "reasoning.effort" is a field, and so is every     *)
(* item of "include". Some fields stand for what is in the messages:       *)
(*   input                 the modalities that are used, besides text      *)
(*   input.conflict        a file that says it is of two types             *)
(*   input.audio_history   an assistant that spoke                         *)
(*   input.cache_control   a mark on a block, a message or a tool          *)
(*   input.incomplete      an Anthropic history with state we do not see   *)
(*   messages              the roles, where a repair would change them     *)
(* A tool choice is [type, mode, picks], a pick [kind, name]; the tools    *)
(* are those of ToolDefinitions, a custom one with the format of its text. *)
(***************************************************************************)
EXTENDS ToolDefinitions

Has(body, field) == field \in DOMAIN body
Among(body, fields) == fields \cap DOMAIN body
Value(body, field, default) == IF Has(body, field) THEN body[field] ELSE default

OpenaiFamily == {"chat", "responses"}
ToolsOf(body) == Value(body, "tools", <<>>)

\* provider_state_control_enabled
Enabled(body, field) == Value(body, field, FALSE)

\* responses_stateful_request_controls
StatefulControls(body) ==
    Among(body, {"previous_response_id", "conversation", "prompt", "context_management"})
    \cup {field \in {"background", "store"} : Enabled(body, field)}

----------------------------------------------------------------------------
(* Dialects: [mechanism, levels]; the levels of effort are 0 to 7 *)

\* dialect_maps_reasoning
MapsReasoning(dialect) == dialect.mechanism \in {"openai-effort", "anthropic-effort", "anthropic-thinking"}

\* ceiling_for
Ceiling(dialect) ==
    IF dialect.levels # {} THEN Max(dialect.levels)
    ELSE IF dialect.mechanism \in {"openai-effort", "anthropic-effort"} THEN 6 ELSE 7

----------------------------------------------------------------------------
(* Warnings: the fields that are said to be dropped *)

SharedNames ==
    {"metadata", "user", "service_tier", "stream_options.include_obfuscation", "verbosity", "reasoning_effort",
     "prompt_cache_key", "prompt_cache_retention", "safety_identifier", "top_logprobs", "logit_bias"}

\* shared_control_profile_for_target, but for parallel_tool_calls, which every target has
SharedControls(target) ==
    CASE target = "chat" -> SharedNames
      [] target = "responses" -> SharedNames \ {"logit_bias"}
      [] target = "anthropic" -> {"metadata"}

\* Mutant: an effort is said to be dropped that the upstream's dialect maps.
ChatControlsAlwaysDropped(body, upstream, mapped) ==
    IF upstream = "responses"
    THEN Among(body, {"stop", "seed", "presence_penalty", "frequency_penalty", "logit_bias", "prediction",
                      "web_search_options"})
    ELSE Among(body, {"seed", "presence_penalty", "frequency_penalty", "prediction", "web_search_options"})
         \cup Among(body, SharedNames \ SharedControls(upstream))
         \cup {name \in {"logprobs"} : Value(body, name, FALSE)}

\* openai_to_responses_dropped_control_names, openai_to_anthropic_dropped_control_names
\* and openai_warning_only_request_controls_for_translate
ChatControlsDropped(body, upstream, mapped) ==
    IF upstream = "responses"
    THEN Among(body, {"stop", "seed", "presence_penalty", "frequency_penalty", "logit_bias", "prediction",
                      "web_search_options"})
    ELSE Among(body, {"seed", "presence_penalty", "frequency_penalty", "prediction", "web_search_options"})
         \cup (Among(body, SharedNames \ SharedControls(upstream)) \ {name \in {"reasoning_effort"} : mapped})
         \cup {name \in {"logprobs"} : Value(body, name, FALSE)}

\* responses_warning_only_request_controls_for_translate; a warning may name a
\* whole object, of which "format" and what is shared are portable.
ResponsesControlsDropped(body, upstream, mapped) ==
    LET shares(name) == name \in SharedControls(upstream)
        hidden == IF mapped \/ shares("reasoning_effort") THEN {"reasoning.effort"} ELSE {}
        odd(fields) == Among(body, fields) # {}
        include == {"include.other"} \cup (IF upstream = "anthropic" THEN {"include.message.output_text.logprobs"} ELSE {})
    IN  Among(body, {"stop", "seed", "presence_penalty", "frequency_penalty", "max_tool_calls", "truncation",
                     "include.reasoning.encrypted_content"})
        \cup Among(body, {"metadata", "user", "service_tier", "stream_options.include_obfuscation", "prompt_cache_key",
                          "prompt_cache_retention", "safety_identifier", "top_logprobs"} \ SharedControls(upstream))
        \cup {name \in {"include"} : odd(include)}
        \cup {name \in {"reasoning"} :
                 odd({"reasoning.effort", "reasoning.summary"}
                     \ (IF shares("reasoning_effort") THEN {"reasoning.effort"} ELSE {}))}
        \cup {name \in {"text", "text.verbosity"} : ~shares("verbosity") /\ Has(body, "text.verbosity")}
        \cup Among(body, {"reasoning.effort"} \ hidden)

\* anthropic_upstream_rejects_nondefault_sampling is a property of the model;
\* anthropic_nondefault_sampling_withhold_fields
Withheld(body, rejects) == {field \in Among(body, {"temperature", "top_p"}) : rejects /\ body[field] # "default"}

\* anthropic_top_level_request_control_assessments, those not refused, and
\* anthropic_warning_only_request_controls_for_translate
AnthropicControlsDropped(body) ==
    Among(body, {"thinking", "context_management", "container", "top_k", "service_tier"})
    \cup {name \in {"cache_control"} : Among(body, {"cache_control", "input.cache_control"}) # {}}

\* responses_has_warning_only_nonportable_tool_definitions,
\* responses_custom_tool_bridge_warning_messages
ToolsDropped(body) ==
    {"tools.hosted" : t \in {x \in ToSet(ToolsOf(body)) : x.kind = "hosted"}}
    \cup {"tools.format" : t \in {x \in ToSet(ToolsOf(body)) : x.kind = "custom" /\ x.format = "grammar"}}

Warned(client, upstream, body, to) ==
    LET mapped == MapsReasoning(to.dialect) IN
    CASE client = upstream -> {}
      [] client = "chat" /\ upstream = "responses" -> ChatControlsDropped(body, upstream, mapped)
      [] client = "chat" /\ upstream = "anthropic" ->
            ChatControlsDropped(body, upstream, mapped) \cup Withheld(body, to.rejects)
      [] client = "responses" /\ upstream # "responses" ->
            ResponsesControlsDropped(body, upstream, mapped) \cup ToolsDropped(body)
            \cup IF upstream = "anthropic" THEN Withheld(body, to.rejects) ELSE {}
      [] client = "anthropic" /\ upstream # "anthropic" -> AnthropicControlsDropped(body)

----------------------------------------------------------------------------
(* Refusals *)

\* assess_surface_request_policy: to is [limit, serial, input, output, dialect, rejects]
ExplicitlyParallel(client, body) ==
    IF client = "anthropic" THEN ~Value(body, "tool_choice.disable_parallel_tool_use", TRUE)
                            ELSE Value(body, "parallel_tool_calls", FALSE)

\* surface_allows_modality: who takes any file takes a PDF
Allows(allowed, modality) == modality \in allowed \/ (modality = "pdf" /\ "file" \in allowed)

InputModalities(body) ==
    Value(body, "input", {}) \cup IF Has(body, "input.audio_history") THEN {"audio"} ELSE {}
WantsAudio(body) == Has(body, "audio") \/ "audio" \in Value(body, "modalities", {})

FitsSurface(client, body, to) ==
    /\ ~(to.serial /\ ToolsOf(body) # <<>> /\ ExplicitlyParallel(client, body))
    /\ \A modality \in InputModalities(body) : Allows(to.input, modality)
    /\ client # "anthropic" /\ WantsAudio(body) => Allows(to.output, "audio")

\* assess_prompt_cache_extension_target_mismatch: asked of every pair
ExtensionsFit(client, upstream, body) ==
    /\ client \in OpenaiFamily /\ upstream # "anthropic" => ~Has(body, "extra_body.anthropic.cache_control")
    /\ client = "anthropic" /\ upstream = "anthropic" =>
            Among(body, {"extra_body.openai.prompt_cache_key", "extra_body.openai.prompt_cache_retention"}) = {}

\* assess_openai_family_prompt_cache_extensions
FamilyExtensionsFit(upstream, body) ==
    /\ ~Has(body, "extra_body.google.cached_content")
    /\ upstream = "anthropic" =>
        /\ Value(body, "extra_body.anthropic.cache_control", "ephemeral") = "ephemeral"
        /\ ~Has(body, "input.cache_control")

\* validated_anthropic_extra_body_openai_controls: a retention needs a key
OpenaiExtensionsFit(body) ==
    /\ Has(body, "extra_body.openai.prompt_cache_retention") => Has(body, "extra_body.openai.prompt_cache_key")
    /\ Value(body, "extra_body.openai.reasoning_effort", 0) \in 0..7

\* responses_nonportable_tool_choice_message
ChoicePortable(body) ==
    LET choice == body["tool_choice"] IN
    Has(body, "tool_choice") =>
        /\ choice.type # "hosted"
        /\ choice.type = "allowed_tools" => \A i \in DOMAIN choice.picks : choice.picks[i].kind # "hosted"

\* responses_custom_tool_format_reject_message
FormatsPortable(body) ==
    \A t \in ToSet(ToolsOf(body)) : t.kind = "custom" => t.format \in {"text", "grammar"}

\* request_has_custom_tools, openai_tool_choice_contains_custom
UsesCustomTools(body) ==
    \/ \E t \in ToSet(ToolsOf(body)) : t.kind = "custom"
    \/ Has(body, "tool_choice") /\ \E p \in ToSet(body["tool_choice"].picks) : p.kind = "custom"

\* anthropic_top_level_request_control_assessments
AnthropicStateFits(body) ==
    /\ Among(body, {"thinking", "context_management", "container"}) # {} => ~Has(body, "input.incomplete")
    /\ Value(body, "container", "hint") = "hint"

\* assess_request_translation_with_surface: no issue is a rejection
Translatable(client, upstream, body, to) ==
    /\ FitsSurface(client, body, to)
    /\ ~(client \in OpenaiFamily /\ Has(body, "input.conflict"))
    /\ ExtensionsFit(client, upstream, body)
    /\ client # upstream =>
        /\ ~Enabled(body, "store")
        /\ client \in OpenaiFamily => FamilyExtensionsFit(upstream, body)
        /\ client = "chat" =>
            /\ Value(body, "n", 1) <= 1
            /\ ~WantsAudio(body) /\ ~Has(body, "input.audio_history")
            /\ upstream = "anthropic" => ~UsesCustomTools(body)
        /\ client = "responses" =>
            StatefulControls(body) = {} /\ ChoicePortable(body) /\ FormatsPortable(body)
        /\ client = "anthropic" =>
            /\ OpenaiExtensionsFit(body) /\ AnthropicStateFits(body)
            /\ \A t \in ToSet(ToolsOf(body)) : t.kind = "function"
=============================================================================
