---------------------------- MODULE RequestControls ----------------------------
(***************************************************************************)
(* What becomes of the controls of one request in the proxy                *)
(* (server/proxy.rs, request_processing.rs, prompt_cache_controls.rs):     *)
(* whether its bytes can be forwarded as they are is decided first, then   *)
(* whether it can be carried over at all and what is lost on the way; then *)
(* it is translated, given the effort of the upstream's dialect, and given *)
(* a key for the upstream's prompt cache.                                  *)
(*                                                                         *)
(* Every one of these looks at the client's request with predicates of its *)
(* own, some of them written twice, and they must agree with what the      *)
(* translation does.                                                       *)
(***************************************************************************)
EXTENDS ControlTranslation

CONSTANTS
    Bodies,     \* for each format, the requests a client may send
    Routes,     \* what the route of a request and its surface say
    Modifiers   \* [stream, forced, bridge]: what else is known of the request

Formats == {"chat", "anthropic", "responses"}

\* The fields a request may have, each under the name of its own protocol
FieldsOfAll == {"model", "messages", "tools", "tool_choice", "input", "input.cache_control", "temperature", "top_p", "metadata",
                "service_tier", "store"}
FieldsOfFamily ==
    {"parallel_tool_calls", "stop", "seed", "presence_penalty", "frequency_penalty", "user", "safety_identifier",
     "stream_options.include_obfuscation", "top_logprobs", "prompt_cache_key", "prompt_cache_retention",
     "extra_body.anthropic.cache_control", "extra_body.google.cached_content", "input.conflict"}
Fields ==
    [chat |-> FieldsOfAll \cup FieldsOfFamily \cup
        {"max_tokens", "max_completion_tokens", "reasoning_effort", "response_format", "verbosity", "logprobs", "logit_bias",
         "prediction", "web_search_options", "n", "modalities", "audio", "input.audio_history"},
     responses |-> FieldsOfAll \cup FieldsOfFamily \cup
        {"max_output_tokens", "reasoning.effort", "reasoning.summary", "text.format", "text.verbosity", "include.other",
         "include.message.output_text.logprobs", "include.reasoning.encrypted_content", "background", "max_tool_calls",
         "truncation", "context_management", "previous_response_id", "conversation", "prompt"},
     anthropic |-> FieldsOfAll \cup
        {"max_tokens", "tool_choice.disable_parallel_tool_use", "stop_sequences", "top_k", "thinking", "output_config.effort",
         "output_config.format", "context_management", "container", "cache_control", "input.incomplete",
         "extra_body.openai.prompt_cache_key", "extra_body.openai.prompt_cache_retention",
         "extra_body.openai.reasoning_effort"}]

ASSUME BodiesAssumption ==
    \A format \in Formats : \A b \in Bodies[format] : b = [field \in DOMAIN b |-> b[field]] /\ DOMAIN b \subseteq Fields[format]

ASSUME ValuesAssumption ==
    \A format \in Formats : \A b \in Bodies[format] :
        /\ \A field \in Among(b, {"parallel_tool_calls", "tool_choice.disable_parallel_tool_use", "store", "background",
                                  "logprobs"}) : b[field] \in BOOLEAN
        /\ Value(b, "include.message.output_text.logprobs", TRUE) = TRUE
        /\ Value(b, "n", 1) \in Nat \ {0}
        /\ Value(b, "modalities", {"text"}) \in {{"text"}, {"audio"}, {"text", "audio"}}
        /\ \A field \in {"response_format", "text.format"} :
                Value(b, field, "text") \in {"text", "json_object", "json_schema"}

\* The tools and the choices of each protocol. A choice names one tool, or those
\* that are allowed; a namespace that is allowed is one of the tools, and not an
\* empty one. That calls come one by one is part of a choice of Anthropic's.
ToolKinds == [chat |-> {"function", "custom"}, anthropic |-> {"function", "hosted"},
              responses |-> {"function", "custom", "namespace", "hosted"}]
ToolFormats == {"text", "grammar", "odd"}
ToolsOfKinds(kinds) == Seq([kind : kinds, name : Seq(STRING), children : Seq(Seq(STRING)), format : ToolFormats])
Picks == [kind : ToolKinds["responses"], name : Seq(STRING)]
ChoosesAll == [chat |-> {"auto", "none", "required"}, anthropic |-> {"auto", "none", "any"},
               responses |-> {"auto", "none", "required", "hosted"}]
ChoosesOne == [chat |-> {"function", "custom"}, anthropic |-> {"tool"}, responses |-> {"function", "custom", "namespace"}]
IsChoice(format, choice, tools) ==
    \/ choice.type \in ChoosesAll[format] /\ choice.picks = <<>>
    \/ /\ choice.type \in ChoosesOne[format] /\ Len(choice.picks) = 1
       /\ choice.picks[1].kind = IF choice.type = "tool" THEN "function" ELSE choice.type
    \/ /\ format # "anthropic" /\ choice.type = "allowed_tools" /\ choice.mode \in {"auto", "required"}
       /\ choice.picks # <<>>
       /\ \A i \in DOMAIN choice.picks :
            \/ choice.picks[i].kind \in {"function", "custom"}
            \/ /\ format = "responses" /\ choice.picks[i].kind = "namespace"
               /\ \E t \in ToSet(tools) : t.kind = "namespace" /\ t.name = choice.picks[i].name /\ t.children # <<>>

ASSUME ToolsAssumption ==
    \A format \in Formats : \A b \in Bodies[format] :
        /\ ToolsOf(b) \in ToolsOfKinds(ToolKinds[format])
        /\ Has(b, "tool_choice") => LET choice == b["tool_choice"] IN
                /\ choice = [type |-> choice.type, mode |-> choice.mode, picks |-> choice.picks]
                /\ choice.picks \in Seq(Picks) /\ IsChoice(format, choice, ToolsOf(b))
        /\ Has(b, "tool_choice.disable_parallel_tool_use") => Has(b, "tool_choice")

\* DialectBlock: without one there is no mechanism.
Mechanisms == {"openai-effort", "anthropic-effort", "anthropic-thinking", "auto-only", "none"}
NoDialect == [mechanism |-> "absent", levels |-> {}, echo |-> TRUE]

ASSUME RoutesAssumption ==
    \A route \in Routes :
        /\ route.format \in Formats /\ {route.serial, route.rejects, route.minimax} \subseteq BOOLEAN
        /\ route.dialect = NoDialect \/ route.dialect.mechanism \in Mechanisms
        /\ route.dialect.levels \subseteq 0..7

VARIABLES
    client,   \* the format of the client
    body,     \* its request
    to,       \* the route: [format, limit, serial, input, output, dialect, rejects, minimax]
    with,     \* the modifiers
    stage,    \* "submitted", "assessed", "translated", "emitted", "sent", or "refused"
    raw,      \* the request's own bytes are sent
    sent,     \* the body for the upstream, as it is so far
    warned,   \* what is said to be dropped
    report    \* provider_native_prompt_cache

vars == <<client, body, to, with, stage, raw, sent, warned, report>>

Upstream == to.format

Init ==
    /\ client \in Formats /\ body \in Bodies[client] /\ to \in Routes /\ with \in Modifiers
    /\ Value(body, "model", "") = "" => client = "responses" /\ Upstream = "responses" /\ StatefulControls(body) # {}
    /\ stage = "submitted" /\ raw = FALSE /\ sent = body /\ warned = {} /\ report = "none"

----------------------------------------------------------------------------
(* request_processing.rs *)

\* native_responses_model_less_stateful_...: no model was asked for, none is resolved
ModelLess == Value(body, "model", "") = ""

\* model_body_mutation_required
ModelMutates == IF ModelLess THEN Has(body, "model") ELSE body["model"] # "real"

\* Mutant: the parallel gate is forgotten.
RouteMutatesLimit ==
    \/ to.limit # 0 /\ Among(body, LimitFields(Upstream)) = {}
    \/ to.dialect # NoDialect /\ (ClientEffort(client, body) # Nothing \/ ~to.dialect.echo)

\* request_translation_policy_requires_body_mutation, and what a dialect adds;
\* the defaults have predicates of their own in server/proxy.rs.
RouteMutates ==
    \/ to.limit # 0 /\ Among(body, LimitFields(Upstream)) = {}
    \/ to.serial /\ ~Has(body, ParallelField(Upstream)) /\ ToolsOf(body) # <<>>
    \/ to.dialect # NoDialect /\ (ClientEffort(client, body) # Nothing \/ ~to.dialect.echo)

\* same_protocol_request_mutation_required
SameProtocolMutates ==
    CASE client = "chat" -> body["messages"] # "plain" \/ to.minimax
      [] client = "responses" -> with.stream /\ body["messages"] = "developer"
      [] client = "anthropic" -> FALSE

\* request_transformation_required
MustTransform ==
    \/ client # Upstream \/ with.bridge \/ with.forced
    \/ ModelMutates \/ RouteMutates \/ SameProtocolMutates

\* classify_provider_prompt_cache_request_control
CacheControl ==
    LET crosses == client = "anthropic" <=> Upstream # "anthropic"
        given == Among(body, IF client = "anthropic" THEN {"cache_control", "input.cache_control"}
                                                     ELSE {"prompt_cache_key", "prompt_cache_retention"}) # {}
        mapped == crosses /\ Has(body, IF client = "anthropic" THEN "extra_body.openai.prompt_cache_key"
                                                               ELSE "extra_body.anthropic.cache_control")
    IN  IF mapped THEN "mapped" ELSE IF ~given THEN "none" ELSE IF crosses THEN "dropped" ELSE "preserved"

----------------------------------------------------------------------------
(* The handler *)

\* classify_request_processing and classify_request_boundary_with_policy
Assess ==
    /\ stage = "submitted"
    /\ raw' = ~MustTransform
    /\ report' = CacheControl
    /\ IF Translatable(client, Upstream, body, to)
       THEN stage' = "assessed" /\ warned' = Warned(client, Upstream, body, to)
       ELSE stage' = "refused" /\ UNCHANGED warned
    /\ UNCHANGED <<client, body, to, with, sent>>

\* validate_provider_forwarding_request_boundary
Forward ==
    /\ stage = "assessed" /\ raw
    /\ stage' = IF PublicNamesAllowed(ToolsOf(body)) THEN "translated" ELSE "refused"
    /\ UNCHANGED <<client, body, to, with, raw, sent, warned, report>>

\* The model of the route is set, or none at all.
WithModel(made) == IF ModelLess THEN Without(made, {"model"}) ELSE Set(made, "model", "real")

\* translate_request_with_policy
Translate ==
    LET made == Translated(client, Upstream, body, to, with.stream) IN
    /\ stage = "assessed" /\ ~raw
    /\ IF PublicNamesAllowed(ToolsOf(body)) /\ made # Nothing
       THEN stage' = "translated" /\ sent' = WithModel(made[1])
       ELSE stage' = "refused" /\ UNCHANGED sent
    /\ UNCHANGED <<client, body, to, with, raw, warned, report>>

\* apply_dialect_reasoning_emit: what is capped or dropped is said
Emit ==
    LET effort == ClientEffort(client, body)
        lossy == ~MapsReasoning(to.dialect) \/ effort[1] > Ceiling(to.dialect)
    IN
    /\ stage = "translated"
    /\ stage' = "emitted"
    /\ IF to.dialect # NoDialect /\ effort # Nothing
       THEN /\ sent' = Emitted(sent, Upstream, to.dialect, effort[1])
            /\ warned' = warned \cup {name \in {"effort"} : lossy}
       ELSE UNCHANGED <<sent, warned>>
    /\ UNCHANGED <<client, body, to, with, raw, report>>

\* Mutant: a request that goes on from a state of the provider's gets a key too.
TakesKeyAnyway == ~raw /\ Upstream \in OpenaiFamily /\ ~Has(sent, "prompt_cache_key")

\* synthesize_openai_family_prompt_cache_key
TakesKey ==
    /\ ~raw /\ Upstream \in OpenaiFamily
    /\ Among(sent, {"prompt_cache_key", "previous_response_id", "conversation", "prompt"}) = {}

Send ==
    /\ stage = "emitted"
    /\ stage' = "sent"
    /\ sent' = With(sent, "prompt_cache_key", TakesKey, "llmup")
    /\ report' = IF TakesKey THEN "synthesized" ELSE report
    /\ UNCHANGED <<client, body, to, with, raw, warned>>

\* One request is followed to its end.
Rest == stage \in {"sent", "refused"} /\ UNCHANGED vars

Next == Assess \/ Forward \/ Translate \/ Emit \/ Send \/ Rest

Spec == Init /\ [][Next]_vars

----------------------------------------------------------------------------
(* What is kept, and what is lost *)

\* Fields that mean the same in different protocols, or in different ways of
\* writing one.
Meanings ==
    {{"max_completion_tokens", "max_tokens", "max_output_tokens"}, {"stop", "stop_sequences"},
     {"reasoning_effort", "reasoning.effort", "output_config.effort", "extra_body.openai.reasoning_effort"},
     {"response_format", "text.format", "output_config.format"}, {"verbosity", "text.verbosity"},
     {"logprobs", "include.message.output_text.logprobs"}, {"cache_control", "extra_body.anthropic.cache_control"},
     {"prompt_cache_key", "extra_body.openai.prompt_cache_key"},
     {"prompt_cache_retention", "extra_body.openai.prompt_cache_retention"}}
Alike(field) == {field} \cup UNION {meaning \in Meanings : field \in meaning}
Names(field) == IF client = Upstream THEN {field} ELSE Alike(field)

\* A field whose value is what the upstream does anyway
Neutral(field) ==
    \/ field \in {"store", "background", "logprobs"} /\ ~body[field]
    \/ field = "n" /\ body[field] = 1
    \/ field \in {"response_format", "text.format", "output_config.format"} /\ body[field] = "text"
    \/ field = "modalities" /\ body[field] = {"text"}

\* Tools and their choice have a property of their own, as has who is spoken to.
Controls ==
    {field \in DOMAIN body : ~Neutral(field)}
    \ {"tools", "tool_choice", "tool_choice.disable_parallel_tool_use", "parallel_tool_calls",
       "model", "messages", "input", "input.incomplete", "input.conflict"}

\* It reaches the upstream with its value. Thinking stands for any effort below
\* the ceiling.
Reaches(field) ==
    \/ \E theirs \in Among(sent, Names(field)) : sent[theirs] = body[field]
    \/ /\ field = EffortField(client) /\ to.dialect.mechanism = "anthropic-thinking" /\ Has(sent, "thinking")
       /\ ClientEffort(client, body) # Nothing /\ ClientEffort(client, body)[1] <= Ceiling(to.dialect)

\* It does, or another of the client's that means the same goes before it.
Kept(field) == \E mine \in Among(body, Names(field)) : Reaches(mine)

\* What a warning is about, if that is more than the field it names
About(name) ==
    {name} \cup
    IF name = "reasoning" THEN {"reasoning.effort", "reasoning.summary"}
    ELSE IF name = "text" THEN {"text.verbosity"}
    ELSE IF name = "include" THEN {"include.other", "include.message.output_text.logprobs"}
    ELSE IF name = "cache_control" THEN {"input.cache_control"}
    ELSE IF name = "effort" THEN Alike("reasoning_effort") \cup {"thinking"}
    ELSE {}

\* The mechanism that writes an effort where the upstream reads it. With one of
\* another protocol, or with thinking, the effort the client wrote stays beside it.
OwnMechanism == IF Upstream = "anthropic" THEN "anthropic-effort" ELSE "openai-effort"

LostSilently == {field \in Controls : ~Kept(field) /\ \A name \in warned : field \notin About(name)}

\* What the proxy does lose without a word.
\*   claude_to_openai knows nothing of output_config and metadata, and
\*   messages_to_responses removes the stop it made of stop_sequences; the
\*   assessment of an Anthropic request has no warning for any of them.
\*   A dialect that maps efforts silences the warning, also for an effort it
\*   cannot read, and writes its thinking over the client's.
\*   Marks of a prompt cache in an OpenAI history are refused by an Anthropic
\*   upstream only.
KnownLosses ==
    {field \in {"metadata", "output_config.format", "output_config.effort"} : client = "anthropic" /\ Upstream \in OpenaiFamily}
    \cup {field \in {"stop_sequences"} : client = "anthropic" /\ Upstream = "responses"}
    \cup {field \in {"thinking"} : client = Upstream /\ to.dialect.mechanism = "anthropic-thinking"}
    \cup {field \in {"reasoning_effort"} : /\ client = "chat" /\ Upstream = "anthropic"
                                         /\ MapsReasoning(to.dialect) /\ ClientEffort(client, body) = Nothing}
    \cup {field \in {"input.cache_control"} : client \in OpenaiFamily /\ Upstream \in OpenaiFamily}

\* A control of the client's reaches the upstream with its value, under the
\* name it has there, or a warning says that it does not: the predicates that
\* warn (assessment.rs) and the translation (internal.rs, openai_responses.rs)
\* agree, but for KnownLosses.
OnlyKnownLosses == stage = "sent" => LostSilently \subseteq KnownLosses

\* The same without exceptions: no control is lost without a warning.
NothingIsLostSilently == stage = "sent" => LostSilently = {}

\* A warning is about something: a control it names did not reach the upstream
\* as it was. A Responses effort that an Anthropic dialect maps is one exception:
\* responses_top_level_nonportable_reasoning_fields warns of it. A mechanism that
\* is not the upstream's own, or thinking, is the other: what it caps stays in the
\* body under the client's name, and what it writes may be what a warning named.
WarnedIsDropped ==
    stage = "sent" => \A name \in warned \ {"tools.hosted", "tools.format"} :
        \/ \E field \in Among(body, About(name)) : ~Reaches(field)
        \/ name = "reasoning" /\ client = "responses" /\ MapsReasoning(to.dialect) /\ ClientEffort(client, body) # Nothing
        \/ /\ name \in {"effort", "thinking"} /\ (Upstream = "anthropic" => client = "anthropic")
           /\ MapsReasoning(to.dialect) /\ to.dialect.mechanism # OwnMechanism

----------------------------------------------------------------------------
(* What the route promises *)

NoTools == [mode |-> "none", callable |-> {}]

\* Which functions may be called, and whether one must be
Asked(request) ==
    LET tools == NormalizedTools(ToolsOf(request))
        choice == Value(request, "tool_choice", Plain("auto"))
        picked(p) == IF p.kind = "namespace" THEN ToSet(FlatChildren(tools, p.name)) ELSE {p.name}
        callable == IF choice.picks = <<>> THEN ToSet(FunctionNames(tools)) ELSE UNION {picked(p) : p \in ToSet(choice.picks)}
        mode == CASE choice.type \in {"auto", "none"} -> choice.type
                  [] choice.type = "allowed_tools" -> choice.mode
                  [] OTHER -> "required"
    IN  IF mode = "none" \/ callable = {} THEN NoTools ELSE [mode |-> mode, callable |-> callable]

OneByOne(format, request) ==
    IF format = "anthropic" THEN Value(request, "tool_choice.disable_parallel_tool_use", FALSE)
                            ELSE ~Value(request, "parallel_tool_calls", TRUE)

\* Through renamed and flattened tools and two translations of the choice, the
\* model may call what the client let it call, and must if it had to; what the
\* client wanted one by one comes one by one. Only a namespace of several
\* functions cannot be forced: the choice among all is left to the model.
ChoiceKeepsItsMeaning ==
    stage = "sent" =>
        /\ \/ Asked(sent) = Asked(body)
           \/ /\ client # Upstream /\ Value(body, "tool_choice", Plain("auto")).type = "namespace"
              /\ Asked(sent) = Asked(Without(body, {"tool_choice"}))
        /\ OneByOne(client, body) /\ Asked(sent) # NoTools => OneByOne(Upstream, sent)

\* There are tools, and they may be called.
Offers(request) == ToolsOf(request) # <<>> /\ Value(request, "tool_choice", Plain("auto")).type # "none"

\* What the surface of a model says binds every path to it, also that of bytes
\* forwarded as they came: a serial one is never asked for parallel calls, the
\* limit of the route is there if the client gave none, and no effort goes
\* beyond a dialect of the upstream's own, but for one in extra_body that no
\* dialect looks at.
SurfaceIsHonoured ==
    stage = "sent" =>
        /\ to.serial /\ Offers(sent) => OneByOne(Upstream, sent)
        /\ to.limit # 0 /\ Among(body, LimitFields(client)) = {} =>
            \E field \in Among(sent, LimitFields(Upstream)) : sent[field] = to.limit
        /\ LET effort == ClientEffort(Upstream, sent) IN
           /\ to.dialect # NoDialect /\ effort # Nothing
           /\ ~Has(body, "extra_body.openai.reasoning_effort")
           /\ MapsReasoning(to.dialect) => to.dialect.mechanism = OwnMechanism
           => MapsReasoning(to.dialect) /\ effort[1] <= Ceiling(to.dialect)

\* A request whose bytes are forwarded is one that the translation, the model
\* of the route, its defaults and its dialect would have left as it is: the
\* predicates that decide about it repeat theirs, in two other files.
ForwardedIsTranslated ==
    raw /\ stage = "sent" =>
        sent = body /\ WithModel(Translated(client, Upstream, body, to, with.stream)[1]) = body

\* provider_native_prompt_cache says what became of the request's prompt-cache
\* controls, which is decided before the translation; and a key is never added
\* to a request that goes on from a state of the provider's.
CacheReportIsTrue ==
    LET keys == {"prompt_cache_key", "prompt_cache_retention"}
        marks == {"cache_control", "input.cache_control"}
        own == keys \cup marks \cup UNION {Alike(field) : field \in keys \cup marks}
        reached == {field \in Among(body, own) : Kept(field)}
    IN  stage = "sent" =>
        CASE report = "synthesized" ->
                /\ sent["prompt_cache_key"] = "llmup"
                /\ Among(sent, {"previous_response_id", "conversation", "prompt"}) = {}
          [] report \in {"mapped", "preserved"} -> reached # {}
          [] report = "dropped" -> reached = {}
          [] report = "none" -> Among(sent, IF Upstream = "anthropic" THEN marks ELSE keys) = {}
=============================================================================
