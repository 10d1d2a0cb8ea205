-------------------------- MODULE ControlTranslation --------------------------
(***************************************************************************)
(* The controls of a request on their way to another protocol: by way of   *)
(* Chat (translate_request_with_policy, translate/internal.rs and          *)
(* openai_responses.rs), with the defaults of the route before and after,  *)
(* and then the dialect of the upstream (dialect_emit.rs).                 *)
(*                                                                         *)
(* What is given to a translation passed the assessment. A translation     *)
(* that fails is Nothing, one that succeeds is <<the new body>>.           *)
(***************************************************************************)
EXTENDS ControlAssessment

\* The fields of a body that renamings name, pairs of an old and a new name, under
\* their new names.
Carried(body, renamings) ==
    LET present == {r \in renamings : r[1] \in DOMAIN body} IN
    [field \in {r[2] : r \in present} |-> body[(CHOOSE r \in present : r[2] = field)[1]]]

Same(names) == {<<name, name>> : name \in names}
Set(body, field, value) ==
    [name \in DOMAIN body \cup {field} |-> IF name = field THEN value ELSE body[name]]
With(body, field, present, value) == IF present THEN Set(body, field, value) ELSE body
Without(body, fields) == Restrict(body, DOMAIN body \ fields)

Plain(type) == [type |-> type, mode |-> "", picks |-> <<>>]
Pick(kind, name) == [kind |-> kind, name |-> name]
Forced(type, name) == [type |-> type, mode |-> "", picks |-> <<Pick("function", name)>>]

FunctionTool(name) == [kind |-> "function", name |-> name, children |-> <<>>, format |-> "text"]
Named(tools, name) == {t \in ToSet(tools) : t.name = name}

----------------------------------------------------------------------------
(* Responses to Chat *)

\* namespace_bridge_entries
FlatChildren(tools, namespace) ==
    FunctionNames(Those(NormalizedTools(tools), LAMBDA t : t.kind = "namespace" /\ t.name = namespace))

\* responses_tool_choice_to_openai_tool_choice: a namespace can be forced if it
\* is one function, and is left to the model if it is more.
ChoiceOfResponses(choice, tools) ==
    CASE choice.type \in {"auto", "none", "required"} -> <<choice>>
      [] choice.type \in {"function", "custom"} -> <<Forced("function", choice.picks[1].name)>>
      [] choice.type = "namespace" ->
            LET flat == FlatChildren(tools, choice.picks[1].name)
            IN  IF Len(flat) = 1 THEN <<Forced("function", flat[1])>> ELSE Nothing
      [] choice.type = "allowed_tools" ->
            <<[choice EXCEPT !.picks = FlattenSeq([i \in DOMAIN @ |->
                IF @[i].kind # "namespace" THEN <<Pick("function", @[i].name)>>
                ELSE LET flat == FlatChildren(tools, @[i].name) IN [c \in DOMAIN flat |-> Pick("function", flat[c])]])]>>

\* Mutant: the verbosity is looked for under Chat's name.
ResponsesNamesVerbatim ==
    Same(SharedNames \ {"reasoning_effort", "logit_bias"}) \cup {<<"reasoning.effort", "reasoning_effort">>}

ResponsesNames ==
    Same(SharedNames \ {"verbosity", "reasoning_effort", "logit_bias"})
    \cup {<<"text.verbosity", "verbosity">>, <<"reasoning.effort", "reasoning_effort">>}

\* responses_to_messages, with responses_normalized_request_controls: the shared
\* controls are taken if the final target has them too.
ChatOfResponses(body, target) ==
    LET tools == NormalizedTools(ToolsOf(body))
        names == FunctionNames(tools)
        shared == {r \in ResponsesNames : r[2] \in SharedControls(target)}
        always == Same({"temperature", "top_p", "parallel_tool_calls"})
                  \cup {<<"max_output_tokens", "max_completion_tokens">>, <<"text.format", "response_format">>}
        extra == Same({field \in {"extra_body.anthropic.cache_control"} : target = "anthropic"})
        choice == IF Has(body, "tool_choice") THEN ChoiceOfResponses(body["tool_choice"], tools) ELSE Nothing
        logprobs == /\ "top_logprobs" \in SharedControls(target)
                    /\ Among(body, {"include.message.output_text.logprobs", "top_logprobs"}) # {}
        plain == Carried(body, always \cup shared \cup extra)
    IN  IF ~PublicNamesAllowed(ToolsOf(body)) \/ CustomConflict(tools) \/ NamespaceConflict(tools) THEN Nothing
        ELSE <<With(With(With(plain, "logprobs", logprobs, TRUE),
                         "tools", names # <<>>, [i \in DOMAIN names |-> FunctionTool(names[i])]),
                    "tool_choice", choice # Nothing, choice[1])>>

----------------------------------------------------------------------------
(* Anthropic to Chat *)

\* anthropic_tool_choice_to_openai
ChoiceOfClaude(choice) ==
    CASE choice.type = "any" -> Plain("required")
      [] choice.type = "tool" -> Forced("function", choice.picks[1].name)
      [] choice.type \in {"auto", "none"} -> choice

\* claude_to_openai: nothing else is taken
ChatOfClaude(body) ==
    LET renamings ==
            Same({"temperature", "top_p", "tools"})
            \cup {<<"max_tokens", "max_completion_tokens">>, <<"stop_sequences", "stop">>,
                  <<"extra_body.openai.prompt_cache_key", "prompt_cache_key">>,
                  <<"extra_body.openai.prompt_cache_retention", "prompt_cache_retention">>,
                  <<"extra_body.openai.reasoning_effort", "reasoning_effort">>}
        chosen == Has(body, "tool_choice")
        serial == chosen /\ Value(body, "tool_choice.disable_parallel_tool_use", FALSE)
    IN  With(With(Carried(body, renamings), "tool_choice", chosen, ChoiceOfClaude(body["tool_choice"])),
             "parallel_tool_calls", serial, FALSE)

----------------------------------------------------------------------------
(* What Chat asks of its tools *)

\* openai_declared_function_tools
DeclaredFunctions(body) == {t.name : t \in {x \in ToSet(ToolsOf(body)) : x.kind = "function"}}

\* openai_normalized_tool_policy: there may be none, and it may be an error
ToolPolicy(body) ==
    LET choice == body["tool_choice"]
        names == [i \in DOMAIN choice.picks |-> choice.picks[i].name]
        custom == \E p \in ToSet(choice.picks) : p.kind = "custom"
        none == [ok |-> TRUE, policy |-> Nothing, names |-> Nothing]
        found(type, selected) == [ok |-> TRUE, policy |-> <<type>>, names |-> selected]
    IN  IF ~Has(body, "tool_choice") THEN none ELSE
        CASE choice.type \in {"auto", "none", "required"} -> found(choice.type, Nothing)
          [] choice.type = "function" -> found("forced", <<names>>)
          [] choice.type = "custom" -> none
          [] choice.type = "allowed_tools" ->
                IF custom THEN none
                ELSE IF choice.picks # <<>> /\ ToSet(names) \subseteq DeclaredFunctions(body)
                THEN found(choice.mode, <<names>>) ELSE [none EXCEPT !.ok = FALSE]

----------------------------------------------------------------------------
(* Chat to Anthropic *)

\* normalized_tool_policy_to_claude_tool_choice
ChoiceOfPolicy(policy, names) ==
    CASE policy = "required" -> Plain("any")
      [] policy = "forced" -> Forced("tool", names[1])
      [] policy \in {"auto", "none"} -> Plain(policy)

\* openai_to_claude, with normalized_output_shape_to_claude_output_config and
\* openai_portable_function_tools
ClaudeOfChat(body, rejects) ==
    LET policy == ToolPolicy(body)
        serial == Value(body, "parallel_tool_calls", TRUE) = FALSE
        shape == Value(body, "response_format", "text")
        limit == Value(body, "max_completion_tokens", Value(body, "max_tokens", 4096))
        functions == Those(ToolsOf(body), LAMBDA t : t.kind = "function")
        selected == IF policy.names = Nothing \/ policy.policy = <<"forced">> THEN functions
                    ELSE [i \in DOMAIN policy.names[1] |-> CHOOSE t \in Named(functions, policy.names[1][i]) : TRUE]
        choice == IF policy.policy = Nothing THEN Plain("auto") ELSE ChoiceOfPolicy(policy.policy[1], policy.names[1])
        chosen == policy.policy # Nothing \/ (serial /\ ToolsOf(body) # <<>>)
        renamings == Same({"temperature", "top_p", "metadata"})
                     \cup {<<"stop", "stop_sequences">>, <<"extra_body.anthropic.cache_control", "cache_control">>}
        plain == Set(Without(Carried(body, renamings), Withheld(body, rejects)), "max_tokens", limit)
    IN  IF ~policy.ok \/ shape = "json_object" THEN Nothing
        ELSE <<With(With(With(With(plain, "tool_choice", chosen, choice),
                              "tool_choice.disable_parallel_tool_use", chosen /\ serial /\ choice.type # "none", TRUE),
                         "output_config.format", shape = "json_schema", shape),
                    "tools", selected # <<>>, selected)>>

----------------------------------------------------------------------------
(* Chat to Responses *)

\* Mutant: one tool that may be called becomes one that must be.
ResponsesChoiceOfOne(policy, names) ==
    LET picks == [i \in DOMAIN names[1] |-> Pick("function", names[1][i])] IN
    IF names = Nothing THEN Plain(policy)
    ELSE IF policy = "forced" \/ Len(names[1]) = 1 THEN Forced("function", names[1][1])
    ELSE [type |-> "allowed_tools", mode |-> policy, picks |-> picks]

\* normalized_tool_policy_to_responses_tool_choice
ResponsesChoiceOfPolicy(policy, names) ==
    LET picks == [i \in DOMAIN names[1] |-> Pick("function", names[1][i])] IN
    IF names = Nothing THEN Plain(policy)
    ELSE IF policy = "forced" \/ (policy = "required" /\ Len(names[1]) = 1) THEN Forced("function", names[1][1])
    ELSE [type |-> "allowed_tools", mode |-> policy, picks |-> picks]

\* messages_to_responses: what has no place there is removed, and what is not
\* known stays. openai_tool_choice_to_responses_tool_choice keeps the picks.
ResponsesOfChat(body) ==
    LET policy == ToolPolicy(body)
        renamed == {<<"response_format", "text.format">>, <<"verbosity", "text.verbosity">>,
                    <<"reasoning_effort", "reasoning.effort">>}
        limits == {"max_completion_tokens", "max_tokens"}
        removed == limits \cup {r[1] : r \in renamed}
                   \cup {"stop", "seed", "presence_penalty", "frequency_penalty", "logprobs", "logit_bias", "prediction",
                         "web_search_options", "n", "store", "modalities", "audio"}
        logprobs == Value(body, "logprobs", FALSE) \/ Has(body, "top_logprobs")
        plain == Carried(body, renamed \cup Same(DOMAIN body \ removed))
    IN  IF ~policy.ok THEN Nothing
        ELSE <<With(With(With(plain, "include.message.output_text.logprobs", logprobs, TRUE),
                         "max_output_tokens", Among(body, limits) # {},
                         Value(body, "max_completion_tokens", Value(body, "max_tokens", 0))),
                    "tool_choice", policy.policy # Nothing, ResponsesChoiceOfPolicy(policy.policy[1], policy.names))>>

----------------------------------------------------------------------------
(* The defaults of the route *)

\* request_body_has_explicit_output_limit
LimitFields(format) ==
    CASE format = "chat" -> {"max_completion_tokens", "max_tokens"}
      [] format = "responses" -> {"max_output_tokens"}
      [] format = "anthropic" -> {"max_tokens"}
DefaultLimitField == [chat |-> "max_completion_tokens", responses |-> "max_output_tokens", anthropic |-> "max_tokens"]

\* request_body_has_explicit_parallel_tool_calls_preference
ParallelField(format) ==
    IF format = "anthropic" THEN "tool_choice.disable_parallel_tool_use" ELSE "parallel_tool_calls"

\* apply_request_translation_policy_default_output_limit: a limit of 0 is none
LimitApplies(format, body, to) == to.limit # 0 /\ Among(body, LimitFields(format)) = {}

\* apply_request_translation_policy_parallel_tool_gate
GateApplies(format, body, to) == to.serial /\ ~Has(body, ParallelField(format)) /\ ToolsOf(body) # <<>>

\* Mutant: the gate of an Anthropic request needs a choice to be there.
GatedWithChoice(format, body, to) ==
    IF ~GateApplies(format, body, to) THEN body
    ELSE IF format # "anthropic" THEN Set(body, "parallel_tool_calls", FALSE)
    ELSE With(body, "tool_choice.disable_parallel_tool_use", Has(body, "tool_choice"), TRUE)

Gated(format, body, to) ==
    IF ~GateApplies(format, body, to) THEN body
    ELSE IF format # "anthropic" THEN Set(body, "parallel_tool_calls", FALSE)
    ELSE LET choice == Value(body, "tool_choice", Plain("auto")) IN
         With(Set(body, "tool_choice", choice), "tool_choice.disable_parallel_tool_use", choice.type # "none", TRUE)

\* apply_request_translation_policy_defaults
Defaults(format, body, to) ==
    Gated(format, With(body, DefaultLimitField[format], LimitApplies(format, body, to), to.limit), to)

----------------------------------------------------------------------------
(* translate_request_with_policy *)

\* The repairs a request in the upstream's own protocol gets: instructions of
\* Chat become words of the user, neighbours are joined, a developer of a
\* streamed Responses request becomes the system; MiniMax has a field of its own.
Repaired(format, body, to, stream) ==
    LET repairs == (format = "chat" /\ body["messages"] # "plain")
                   \/ (format = "responses" /\ stream /\ body["messages"] = "developer")
        safe == With(body, "messages", repairs, IF format = "chat" THEN "plain" ELSE "system")
    IN  With(safe, "reasoning_split", format = "chat" /\ to.minimax, TRUE)

\* What the messages become is Dialogue's; here they are in order already.
Translated(client, upstream, body, to, stream) ==
    LET pivot == CASE client = "chat" -> <<body>>
                   [] client = "responses" -> ChatOfResponses(body, upstream)
                   [] client = "anthropic" -> <<ChatOfClaude(body)>>
        chat == Defaults("chat", pivot[1], to)
        made == CASE upstream = "chat" -> <<chat>>
                  [] upstream = "responses" -> ResponsesOfChat(chat)
                  [] upstream = "anthropic" -> ClaudeOfChat(chat, to.rejects)
        carried == Without(made[1], {"input.cache_control", "input.incomplete"})
        plain == With(Set(carried, "messages", "plain"), "input", Has(body, "input"), body["input"])
    IN  IF client = upstream THEN <<Defaults(upstream, Repaired(upstream, body, to, stream), to)>>
        ELSE IF pivot = Nothing \/ made = Nothing THEN Nothing
        ELSE <<Defaults(upstream, Repaired(upstream, plain, to, FALSE), to)>>

----------------------------------------------------------------------------
(* The dialect of the upstream *)

EffortField(format) ==
    CASE format = "chat" -> "reasoning_effort"
      [] format = "responses" -> "reasoning.effort"
      [] format = "anthropic" -> "output_config.effort"

\* parse_client_reasoning_effort: an unknown level is none
ClientEffort(client, body) ==
    IF Value(body, EffortField(client), 8) \in 0..7 THEN <<body[EffortField(client)]>> ELSE Nothing

\* emit_openai_effort falls back to Chat's field in an Anthropic body;
\* emit_anthropic_effort and emit_anthropic_thinking do not look at the format;
\* strip_reasoning_fields
Emitted(body, format, dialect, effort) ==
    LET level == IF effort > Ceiling(dialect) THEN Ceiling(dialect) ELSE effort
        bare == Without(body, {name \in {"reasoning_effort"} : format = "responses"})
    IN  CASE dialect.mechanism = "openai-effort" ->
                Set(bare, IF format = "responses" THEN "reasoning.effort" ELSE "reasoning_effort", level)
          [] dialect.mechanism = "anthropic-effort" -> Set(body, "output_config.effort", level)
          [] dialect.mechanism = "anthropic-thinking" ->
                Set(body, "thinking", IF level = 0 THEN "disabled" ELSE "enabled")
          [] dialect.mechanism \in {"auto-only", "none"} ->
                Without(bare, {EffortField(format)} \cup {name \in {"thinking"} : format = "anthropic"})
===============================================================================
