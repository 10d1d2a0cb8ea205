--------------------------- MODULE MCRequestControls ---------------------------
(***************************************************************************)
(* Small instances of RequestControls: requests with any two controls, and *)
(* requests with tools, a choice among them and a word on parallel calls.  *)
(***************************************************************************)
EXTENDS RequestControls

Each(fields, value) == {<<field, value>> : field \in fields}
Options ==
    [chat |->
        Each({"stop", "seed", "presence_penalty", "frequency_penalty", "prediction", "web_search_options", "metadata",
              "user", "service_tier", "stream_options.include_obfuscation", "verbosity", "prompt_cache_key",
              "prompt_cache_retention", "safety_identifier", "top_logprobs", "logit_bias", "audio",
              "extra_body.google.cached_content", "input.conflict", "input.audio_history", "input.cache_control"}, "v")
        \cup Each({"reasoning_effort"}, 2) \cup Each({"reasoning_effort"}, 6) \cup Each({"reasoning_effort"}, 9)
        \cup Each({"max_tokens"}, 10) \cup Each({"max_completion_tokens"}, 20) \cup Each({"n"}, 1) \cup Each({"n"}, 2)
        \cup Each({"store", "logprobs"}, TRUE) \cup Each({"store", "logprobs"}, FALSE)
        \cup Each({"temperature"}, "default") \cup Each({"temperature", "top_p"}, "other")
        \cup Each({"response_format"}, "text") \cup Each({"response_format"}, "json_schema")
        \cup Each({"response_format"}, "json_object") \cup Each({"modalities"}, {"text"})
        \cup Each({"modalities"}, {"text", "audio"}) \cup Each({"input"}, {"pdf"}) \cup Each({"input"}, {"image"})
        \cup Each({"extra_body.anthropic.cache_control"}, "ephemeral") \cup Each({"extra_body.anthropic.cache_control"}, "odd")
        \cup Each({"messages"}, "developer") \cup Each({"model"}, "real"),
     responses |->
        Each({"stop", "seed", "presence_penalty", "frequency_penalty", "max_tool_calls", "truncation", "metadata",
              "user", "service_tier", "stream_options.include_obfuscation", "text.verbosity", "prompt_cache_key",
              "prompt_cache_retention", "safety_identifier", "top_logprobs", "previous_response_id", "conversation",
              "prompt", "context_management", "reasoning.summary", "include.other", "include.reasoning.encrypted_content",
              "extra_body.google.cached_content", "input.conflict", "input.cache_control"}, "v")
        \cup Each({"reasoning.effort"}, 2) \cup Each({"reasoning.effort"}, 6) \cup Each({"reasoning.effort"}, 9)
        \cup Each({"max_output_tokens"}, 10) \cup Each({"include.message.output_text.logprobs"}, TRUE)
        \cup Each({"store", "background"}, TRUE) \cup Each({"store", "background"}, FALSE)
        \cup Each({"temperature"}, "default") \cup Each({"temperature", "top_p"}, "other")
        \cup Each({"text.format"}, "text") \cup Each({"text.format"}, "json_schema") \cup Each({"text.format"}, "json_object")
        \cup Each({"input"}, {"pdf"}) \cup Each({"input"}, {"image"})
        \cup Each({"extra_body.anthropic.cache_control"}, "ephemeral") \cup Each({"extra_body.anthropic.cache_control"}, "odd")
        \cup Each({"messages"}, "developer") \cup Each({"model"}, "real") \cup Each({"model"}, ""),
     anthropic |->
        Each({"metadata", "stop_sequences", "thinking", "context_management", "top_k", "service_tier", "cache_control",
              "input.cache_control", "input.incomplete", "extra_body.openai.prompt_cache_key",
              "extra_body.openai.prompt_cache_retention"}, "v")
        \cup Each({"output_config.effort", "extra_body.openai.reasoning_effort"}, 2)
        \cup Each({"output_config.effort", "extra_body.openai.reasoning_effort"}, 6)
        \cup Each({"output_config.effort", "extra_body.openai.reasoning_effort"}, 9)
        \cup Each({"container"}, "hint") \cup Each({"container"}, "runtime") \cup Each({"max_tokens"}, 10)
        \cup Each({"temperature"}, "default") \cup Each({"temperature", "top_p"}, "other")
        \cup Each({"output_config.format"}, "json_schema") \cup Each({"input"}, {"pdf"}) \cup Each({"input"}, {"image"})
        \cup Each({"store"}, TRUE) \cup Each({"model"}, "real")]

Base(format) == [model |-> "alias", messages |-> "plain"]
WithOptions(format, options) ==
    [field \in {o[1] : o \in options} |-> (CHOOSE o \in options : o[1] = field)[2]] @@ Base(format)
Mixed(format) ==
    {WithOptions(format, {a, b}) :
        <<a, b>> \in {<<x, y>> \in Options[format] \X Options[format] : x[1] # y[1] \/ x = y}}

Function(name) == FunctionTool(<<name>>)
Custom(format) == [kind |-> "custom", name |-> <<"patch">>, children |-> <<>>, format |-> format]
Hosted == [kind |-> "hosted", name |-> <<"search">>, children |-> <<>>, format |-> "text"]
Namespace(children) == [kind |-> "namespace", name |-> <<"files">>, children |-> children, format |-> "text"]

Choice(type, mode, picks) == [type |-> type, mode |-> mode, picks |-> picks]
ReadPick == Pick("function", <<"read">>)
PatchPick == Pick("custom", <<"patch">>)
FilesPick == Pick("namespace", <<"files">>)
Autos == {Plain(type) : type \in {"auto", "none", "required"}}
Allowed == {Choice("allowed_tools", mode, picks) : mode \in {"auto", "required"}, picks \in {<<ReadPick>>}}

Tools ==
    [chat |-> {<<Function("read")>>, <<Function("read"), Function("write")>>, <<Function("read"), Custom("text")>>},
     anthropic |-> {<<Function("read")>>, <<Function("read"), Function("write")>>, <<Function("read"), Hosted>>},
     responses |-> {<<Function("read"), Function("write")>>, <<Function("read"), Custom("text")>>,
                    <<Custom("grammar"), Function("read")>>, <<Function("read"), Custom("odd")>>, <<Hosted, Function("read")>>,
                    <<Function("read"), Namespace(<<<<"list">>>>)>>, <<Function("read"), Namespace(<<<<"list">>, <<"open">>>>)>>,
                    <<FunctionTool(<<"__llmup_custom", "x">>), Function("read")>>}]
ToolChoices ==
    [chat |-> Autos \cup Allowed \cup {Choice("function", "", <<ReadPick>>), Choice("custom", "", <<PatchPick>>),
                                       Choice("allowed_tools", "auto", <<ReadPick, PatchPick>>)},
     anthropic |-> {Plain("auto"), Plain("none"), Plain("any"), Choice("tool", "", <<ReadPick>>)},
     responses |-> Autos \cup Allowed
                   \cup {Choice("function", "", <<ReadPick>>), Choice("custom", "", <<PatchPick>>), Plain("hosted"),
                         Choice("namespace", "", <<FilesPick>>), Choice("allowed_tools", "required", <<ReadPick, FilesPick>>),
                         Choice("allowed_tools", "auto", <<ReadPick, PatchPick>>)}]
Declared(tools) == {t.name : t \in ToSet(tools)}
Armed(format) ==
    LET choices(tools) == {c \in ToolChoices[format] : {p.name : p \in ToSet(c.picks)} \subseteq Declared(tools)} IN
    UNION {{With(With([tools |-> tools, model |-> "real"] @@ Base(format), "tool_choice", choice # Nothing, choice[1]),
                 ParallelField(format), parallel # Nothing /\ (format # "anthropic" \/ choice # Nothing), parallel[1]) :
            choice \in {Nothing} \cup {<<c>> : c \in choices(tools)}, parallel \in {Nothing, <<TRUE>>, <<FALSE>>}} :
           tools \in Tools[format]}

AllBodies == [format \in Formats |-> Mixed(format) \cup Armed(format)]

Dialect(mechanism, levels, echo) == [mechanism |-> mechanism, levels |-> levels, echo |-> echo]
Everything == {"image", "audio", "pdf", "file", "video"}
Open(format) ==
    [format |-> format, limit |-> 0, serial |-> FALSE, input |-> Everything, output |-> {"audio"}, dialect |-> NoDialect,
     rejects |-> FALSE, minimax |-> FALSE]
AllRoutes ==
    UNION {{Open(format), [Open(format) EXCEPT !.limit = 30, !.serial = TRUE, !.input = {"file"}, !.output = {}],
            [Open(format) EXCEPT !.dialect = Dialect("auto-only", {}, FALSE)]} : format \in Formats}
    \cup {[Open(format) EXCEPT !.dialect = Dialect("openai-effort", {0, 1, 2, 3}, TRUE), !.serial = TRUE] : format \in OpenaiFamily}
    \cup {[Open("anthropic") EXCEPT !.dialect = Dialect("anthropic-thinking", {}, FALSE)],
          [Open("anthropic") EXCEPT !.dialect = Dialect("anthropic-effort", {2, 3}, TRUE), !.serial = TRUE, !.rejects = TRUE],
          [Open("chat") EXCEPT !.minimax = TRUE]}
    \cup {[Open(format) EXCEPT !.dialect = Dialect(mechanism, {1, 3}, TRUE)] : format \in Formats, mechanism \in Mechanisms}

\* Anthropic clients with upstreams of the OpenAI family
AnthropicBodies == [format \in Formats |-> IF format = "anthropic" THEN AllBodies["anthropic"] ELSE {}]
OpenRoutes == {Open(format) : format \in OpenaiFamily}

AllModifiers ==
    {[stream |-> FALSE, forced |-> FALSE, bridge |-> FALSE], [stream |-> TRUE, forced |-> TRUE, bridge |-> FALSE],
     [stream |-> TRUE, forced |-> FALSE, bridge |-> FALSE], [stream |-> FALSE, forced |-> FALSE, bridge |-> TRUE]}
=============================================================================
