------------------------ MODULE RequestControlsProofs ------------------------
(***************************************************************************)
(* Proofs about RequestControls, for any requests, routes and modifiers.   *)
(*                                                                         *)
(* A request is followed through five steps, none of which chooses         *)
(* anything, so the invariant says of each stage what the body is by then  *)
(* as an expression of the client's (Carriage, Dialected, Final). What is  *)
(* left is to prove of these expressions, field by field, what the         *)
(* properties say.                                                         *)
(***************************************************************************)
EXTENDS RequestControls, WellFoundedInduction, TLAPS

-----------------------------------------------------------------------------
(* Bodies: what becomes of their fields *)

LEMMA SetFacts ==
    ASSUME NEW b, NEW f, NEW v
    PROVE  /\ DOMAIN Set(b, f, v) = DOMAIN b \cup {f}
           /\ Set(b, f, v)[f] = v
           /\ \A g \in DOMAIN b : g # f => Set(b, f, v)[g] = b[g]
BY DEF Set

LEMMA WithFacts ==
    ASSUME NEW b, NEW f, NEW present \in BOOLEAN, NEW v
    PROVE  /\ DOMAIN With(b, f, present, v) = IF present THEN DOMAIN b \cup {f} ELSE DOMAIN b
           /\ present => With(b, f, present, v)[f] = v
           /\ \A g \in DOMAIN b : ~ (present /\ g = f) => With(b, f, present, v)[g] = b[g]
BY DEF With, Set

LEMMA WithoutFacts ==
    ASSUME NEW b, NEW fields
    PROVE  /\ DOMAIN Without(b, fields) = DOMAIN b \ fields
           /\ \A g \in DOMAIN b \ fields : Without(b, fields)[g] = b[g]
BY DEF Without, Restrict

\* Of fields with different new names each is carried with its value.
LEMMA CarriedFacts ==
    ASSUME NEW b, NEW renamings
    PROVE  /\ \A g : g \in DOMAIN Carried(b, renamings) <=> \E r \in renamings : r[1] \in DOMAIN b /\ r[2] = g
           /\ \A r \in renamings :
                r[1] \in DOMAIN b /\ (\A q \in renamings : q[2] = r[2] => q[1] = r[1]) =>
                    Carried(b, renamings)[r[2]] = b[r[1]]
<1> DEFINE present == {r \in renamings : r[1] \in DOMAIN b}
<1>1. Carried(b, renamings) =
        [field \in {r[2] : r \in present} |-> b[(CHOOSE r \in present : r[2] = field)[1]]]
  BY DEF Carried
<1>2. \A g : g \in DOMAIN Carried(b, renamings) <=> \E r \in renamings : r[1] \in DOMAIN b /\ r[2] = g
  BY <1>1
<1>3. ASSUME NEW r \in renamings, r[1] \in DOMAIN b,
             \A q \in renamings : q[2] = r[2] => q[1] = r[1]
      PROVE  Carried(b, renamings)[r[2]] = b[r[1]]
  <2> DEFINE chosen == CHOOSE q \in present : q[2] = r[2]
  <2>1. r \in present
    BY <1>3
  <2>2. chosen \in present /\ chosen[2] = r[2]
    BY <2>1
  <2>3. chosen[1] = r[1]
    BY <2>2, <1>3
  <2>4. Carried(b, renamings)[r[2]] = b[chosen[1]]
    BY <1>1, <2>1
  <2> QED
    BY <2>3, <2>4
<1> QED
  BY <1>2, <1>3

-----------------------------------------------------------------------------
(* What the body is at each stage *)

Carriage == IF raw THEN body ELSE WithModel(Translated(client, Upstream, body, to, with.stream)[1])

Asking == ClientEffort(client, body)
Dialects == to.dialect # NoDialect /\ Asking # Nothing
Dialected == IF Dialects THEN Emitted(Carriage, Upstream, to.dialect, Asking[1]) ELSE Carriage

Lossy == ~MapsReasoning(to.dialect) \/ Asking[1] > Ceiling(to.dialect)
Warnings ==
    Warned(client, Upstream, body, to) \cup IF Dialects THEN {name \in {"effort"} : Lossy} ELSE {}

KeyTaken ==
    /\ ~raw /\ Upstream \in OpenaiFamily
    /\ Among(Dialected, {"prompt_cache_key", "previous_response_id", "conversation", "prompt"}) = {}
Final == With(Dialected, "prompt_cache_key", KeyTaken, "llmup")

\* What is known of a request that was let through
Admitted ==
    /\ raw = ~MustTransform
    /\ Translatable(client, Upstream, body, to)

Progress ==
    /\ client \in Formats /\ body \in Bodies[client] /\ to \in Routes /\ with \in Modifiers
    /\ stage \in {"submitted", "assessed", "translated", "emitted", "sent", "refused"}
    /\ stage \in {"submitted", "assessed"} => sent = body
    /\ stage \in {"assessed", "translated", "emitted", "sent"} => Admitted
    /\ stage \in {"assessed", "translated", "emitted"} => report = CacheControl
    /\ stage \in {"assessed", "translated"} => warned = Warned(client, Upstream, body, to)
    /\ stage \in {"translated", "emitted", "sent"} /\ ~raw =>
        Translated(client, Upstream, body, to, with.stream) # Nothing
    /\ stage = "translated" => sent = Carriage
    /\ stage = "emitted" => sent = Dialected
    /\ stage \in {"emitted", "sent"} => warned = Warnings
    /\ stage = "sent" => sent = Final /\ report = IF KeyTaken THEN "synthesized" ELSE CacheControl

\* What decides about a request does not change after its assessment.
LEMMA Settled ==
    ASSUME UNCHANGED <<client, body, to, with, raw>>
    PROVE  /\ Admitted' <=> Admitted
           /\ CacheControl' = CacheControl /\ Upstream' = Upstream
           /\ Carriage' = Carriage /\ Dialected' = Dialected /\ Warnings' = Warnings
           /\ KeyTaken' <=> KeyTaken
           /\ Final' = Final
<1>1. /\ Admitted' <=> Admitted
      /\ CacheControl' = CacheControl /\ Upstream' = Upstream
  BY DEF Admitted, MustTransform, CacheControl, ModelMutates, ModelLess, RouteMutates, SameProtocolMutates, Upstream
<1>2. Carriage' = Carriage
  BY DEF Carriage, WithModel, ModelLess, Upstream
<1>3. Dialected' = Dialected /\ Warnings' = Warnings
  BY <1>1, <1>2 DEF Dialected, Dialects, Asking, Warnings, Lossy
<1>4. KeyTaken' <=> KeyTaken
  BY <1>1, <1>3 DEF KeyTaken
<1>5. Final' = Final
  BY <1>3, <1>4 DEF Final, With
<1> QED
  BY <1>1, <1>2, <1>3, <1>4, <1>5

\* Every step makes of the body what the stage it leads to says.
LEMMA ProgressHolds == Spec => []Progress
<1>1. Init => Progress
  BY DEF Init, Progress
<1>2. Progress /\ [Next]_vars => Progress'
  <2> SUFFICES ASSUME Progress, [Next]_vars PROVE Progress'
    OBVIOUS
  <2>1. CASE Assess
    <3>1. stage' \in {"assessed", "refused"} /\ UNCHANGED <<client, body, to, with, sent>> /\ sent = body
      BY <2>1 DEF Assess, Progress
    <3>2. CASE stage' = "refused"
      BY <3>1, <3>2 DEF Progress
    <3>3. CASE stage' = "assessed"
      <4>1. /\ raw' = ~MustTransform /\ report' = CacheControl
            /\ Translatable(client, Upstream, body, to) /\ warned' = Warned(client, Upstream, body, to)
        BY <2>1, <3>3 DEF Assess
      <4>2. MustTransform' = MustTransform /\ CacheControl' = CacheControl /\ Upstream' = Upstream
        BY <3>1 DEF MustTransform, CacheControl, ModelMutates, ModelLess, RouteMutates, SameProtocolMutates, Upstream
      <4> QED
        BY <3>1, <3>3, <4>1, <4>2 DEF Progress, Admitted
    <3> QED
      BY <3>1, <3>2, <3>3
  <2>2. CASE Forward
    <3>1. /\ stage = "assessed" /\ raw /\ stage' \in {"translated", "refused"}
          /\ UNCHANGED <<client, body, to, with, raw, sent, warned, report>>
      BY <2>2 DEF Forward
    <3>2. sent' = Carriage /\ sent = body /\ raw'
      BY <3>1 DEF Carriage, Progress
    <3> QED
      BY <3>1, <3>2, Settled DEF Progress
  <2>3. CASE Translate
    <3>1. /\ stage = "assessed" /\ ~raw /\ stage' \in {"translated", "refused"}
          /\ UNCHANGED <<client, body, to, with, raw, warned, report>>
      BY <2>3 DEF Translate
    <3>2. stage' = "translated" =>
            /\ sent' = Carriage
            /\ Translated(client, Upstream, body, to, with.stream) # Nothing
      BY <2>3, <3>1 DEF Translate, Carriage
    <3>3. Upstream' = Upstream
      BY <3>1 DEF Upstream
    <3> QED
      BY <3>1, <3>2, <3>3, Settled DEF Progress
  <2>4. CASE Emit
    <3>1. /\ stage = "translated" /\ stage' = "emitted"
          /\ UNCHANGED <<client, body, to, with, raw, report>>
      BY <2>4 DEF Emit
    <3>2. sent' = Dialected /\ warned' = Warnings
      BY <2>4, <3>1 DEF Emit, Dialected, Dialects, Asking, Warnings, Lossy, Progress
    <3>3. Upstream' = Upstream
      BY <3>1 DEF Upstream
    <3> QED
      BY <3>1, <3>2, <3>3, Settled DEF Progress
  <2>5. CASE Send
    <3>1. /\ stage = "emitted" /\ stage' = "sent" /\ sent = Dialected
          /\ UNCHANGED <<client, body, to, with, raw, warned>>
      BY <2>5 DEF Send, Progress
    <3>2. TakesKey <=> KeyTaken
      BY <3>1 DEF TakesKey, KeyTaken
    <3>3. sent' = Final
      BY <2>5, <3>1, <3>2 DEF Send, Final, With
    <3>4. report' = IF KeyTaken THEN "synthesized" ELSE CacheControl
      BY <2>5, <3>1, <3>2 DEF Send, Progress
    <3>5. Upstream' = Upstream
      BY <3>1 DEF Upstream
    <3> QED
      BY <3>1, <3>3, <3>4, <3>5, Settled DEF Progress
  <2>6. CASE UNCHANGED vars
    <3>1. Upstream' = Upstream
      BY <2>6 DEF vars, Upstream
    <3> QED
      BY <2>6, <3>1, Settled DEF vars, Progress
  <2> QED
    BY <2>1, <2>2, <2>3, <2>4, <2>5, <2>6 DEF Next, Rest
<1> QED
  BY <1>1, <1>2, PTL DEF Spec

-----------------------------------------------------------------------------
(* Forwarding *)

\* What is not transformed is in the upstream's protocol and needs none of the
\* repairs, defaults and the model a translation would give it.
LEMMA RawIsTranslated ==
    ASSUME Progress, Admitted, raw
    PROVE  WithModel(Translated(client, Upstream, body, to, with.stream)[1]) = body
<1>1. ~MustTransform
  BY DEF Admitted
<1>2. client = Upstream /\ ~ModelMutates /\ ~RouteMutates /\ ~SameProtocolMutates
  BY <1>1 DEF MustTransform
<1>3. Repaired(Upstream, body, to, with.stream) = body
  BY <1>2 DEF Repaired, SameProtocolMutates, With, Progress, Formats
<1>4. Defaults(Upstream, body, to) = body
  BY <1>2 DEF Defaults, LimitApplies, Gated, GateApplies, RouteMutates, With
<1>5. Translated(client, Upstream, body, to, with.stream) = <<body>>
  BY <1>2, <1>3, <1>4 DEF Translated
<1>6. body = [field \in DOMAIN body |-> body[field]]
  <2>1. client \in Formats /\ body \in Bodies[client]
    BY DEF Progress
  <2> QED
    BY <2>1, BodiesAssumption
<1>7. CASE ModelLess
  <2>1. DOMAIN body \ {"model"} = DOMAIN body
    BY <1>2, <1>7 DEF ModelMutates, Has
  <2> QED
    BY <1>5, <1>6, <1>7, <2>1 DEF WithModel, Without, Restrict
<1>8. CASE ~ModelLess
  <2>1. "model" \in DOMAIN body /\ body["model"] = "real"
    BY <1>2, <1>8 DEF ModelMutates, ModelLess, Value, Has
  <2>2. Set(body, "model", "real") = body
    BY <1>6, <2>1 DEF Set
  <2> QED
    BY <1>5, <1>8, <2>2 DEF WithModel
<1> QED
  BY <1>7, <1>8

\* and its bytes go out as they came: no dialect and no key is added.
LEMMA RawIsKept ==
    ASSUME Progress, Admitted, raw
    PROVE  Final = body
<1>1. ~RouteMutates
  BY DEF Admitted, MustTransform
<1>2. ~Dialects
  BY <1>1 DEF RouteMutates, Dialects, Asking
<1> QED
  BY <1>2 DEF Final, KeyTaken, Dialected, Carriage, With

\* A request whose bytes are forwarded is one that translate_request_with_policy
\* would have left as it is: request_transformation_required repeats the conditions
\* of all that changes a body.
THEOREM ForwardingIsExact == Spec => []ForwardedIsTranslated
<1>1. Progress => ForwardedIsTranslated
  <2> SUFFICES ASSUME Progress, raw, stage = "sent"
               PROVE  sent = body /\ WithModel(Translated(client, Upstream, body, to, with.stream)[1]) = body
    BY DEF ForwardedIsTranslated
  <2>1. Admitted /\ sent = Final
    BY DEF Progress
  <2> QED
    BY <2>1, RawIsTranslated, RawIsKept
<1> QED
  BY <1>1, ProgressHolds, PTL

-----------------------------------------------------------------------------
(* Fields that a step leaves alone *)

\* Both bodies have the field with one value, or neither has it.
Agree(made, b, field) ==
    /\ field \in DOMAIN made <=> field \in DOMAIN b
    /\ field \in DOMAIN b => made[field] = b[field]

LEMMA AgreeTwice ==
    ASSUME NEW a, NEW b, NEW c, NEW f, Agree(a, b, f), Agree(b, c, f)
    PROVE  Agree(a, c, f)
BY DEF Agree

LEMMA SetAgrees ==
    ASSUME NEW b, NEW f, NEW v, NEW g, g # f
    PROVE  Agree(Set(b, f, v), b, g)
BY DEF Set, Agree

LEMMA WithAgrees ==
    ASSUME NEW b, NEW f, NEW p, NEW v, NEW g, g # f
    PROVE  Agree(With(b, f, p, v), b, g)
BY DEF With, Set, Agree

LEMMA WithoutAgrees ==
    ASSUME NEW b, NEW fields, NEW g, g \notin fields
    PROVE  Agree(Without(b, fields), b, g)
BY DEF Without, Restrict, Agree

\* A field that is carried from one name only
LEMMA CarriedField ==
    ASSUME NEW b, NEW renamings, NEW mine, NEW theirs,
           <<mine, theirs>> \in renamings,
           \A q \in renamings : q[2] = theirs => q[1] = mine
    PROVE  /\ theirs \in DOMAIN Carried(b, renamings) <=> mine \in DOMAIN b
           /\ mine \in DOMAIN b => Carried(b, renamings)[theirs] = b[mine]
<1> DEFINE r == <<mine, theirs>>
<1>1. r \in renamings /\ r[1] = mine /\ r[2] = theirs
  OBVIOUS
<1> HIDE DEF r
<1>2. theirs \in DOMAIN Carried(b, renamings) <=> \E q \in renamings : q[1] \in DOMAIN b /\ q[2] = theirs
  BY CarriedFacts
<1>3. mine \in DOMAIN b => Carried(b, renamings)[theirs] = b[mine]
  BY <1>1, CarriedFacts
<1> QED
  BY <1>1, <1>2, <1>3

LEMMA NotCarried ==
    ASSUME NEW b, NEW renamings, NEW theirs, \A q \in renamings : q[2] # theirs
    PROVE  theirs \notin DOMAIN Carried(b, renamings)
BY CarriedFacts

ParallelFields == {"parallel_tool_calls", "tool_choice", "tool_choice.disable_parallel_tool_use"}
LimitNames == {"max_completion_tokens", "max_output_tokens", "max_tokens"}
EffortNames == {"reasoning_effort", "reasoning.effort", "output_config.effort", "thinking"}

LEMMA GatedAgrees ==
    ASSUME NEW format, NEW b, NEW g, g \notin ParallelFields
    PROVE  Agree(Gated(format, b, to), b, g)
<1>1. CASE ~GateApplies(format, b, to)
  BY <1>1 DEF Gated, Agree
<1>2. CASE GateApplies(format, b, to) /\ format # "anthropic"
  BY <1>2, SetAgrees DEF Gated, ParallelFields
<1>3. CASE GateApplies(format, b, to) /\ format = "anthropic"
  <2> DEFINE choice == Value(b, "tool_choice", Plain("auto"))
             chosen == Set(b, "tool_choice", choice)
  <2>1. Gated(format, b, to) = With(chosen, "tool_choice.disable_parallel_tool_use", choice.type # "none", TRUE)
    BY <1>3 DEF Gated
  <2>2. Agree(chosen, b, g)
    BY SetAgrees DEF ParallelFields
  <2> HIDE DEF chosen, choice
  <2>3. Agree(With(chosen, "tool_choice.disable_parallel_tool_use", choice.type # "none", TRUE), chosen, g)
    BY WithAgrees DEF ParallelFields
  <2> QED
    BY <2>1, <2>2, <2>3, AgreeTwice
<1> QED
  BY <1>1, <1>2, <1>3

LEMMA DefaultsAgree ==
    ASSUME NEW format \in Formats, NEW b, NEW g, g \notin ParallelFields \cup LimitNames
    PROVE  Agree(Defaults(format, b, to), b, g)
<1> DEFINE limited == With(b, DefaultLimitField[format], LimitApplies(format, b, to), to.limit)
<1>1. DefaultLimitField[format] \in LimitNames
  BY DEF DefaultLimitField, LimitNames, Formats
<1>2. Agree(limited, b, g)
  BY <1>1, WithAgrees
<1> HIDE DEF limited
<1>3. Agree(Gated(format, limited, to), limited, g)
  BY GatedAgrees
<1>4. Defaults(format, b, to) = Gated(format, limited, to)
  BY DEF Defaults, limited
<1> QED
  BY <1>2, <1>3, <1>4, AgreeTwice

LEMMA RepairedAgrees ==
    ASSUME NEW format, NEW b, NEW stream, NEW g, g \notin {"messages", "reasoning_split"}
    PROVE  Agree(Repaired(format, b, to, stream), b, g)
<1> DEFINE repairs == (format = "chat" /\ b["messages"] # "plain")
                      \/ (format = "responses" /\ stream /\ b["messages"] = "developer")
           safe == With(b, "messages", repairs, IF format = "chat" THEN "plain" ELSE "system")
<1>1. Repaired(format, b, to, stream) = With(safe, "reasoning_split", format = "chat" /\ to.minimax, TRUE)
  BY DEF Repaired
<1>2. Agree(safe, b, g)
  BY WithAgrees
<1> HIDE DEF safe
<1>3. Agree(With(safe, "reasoning_split", format = "chat" /\ to.minimax, TRUE), safe, g)
  BY WithAgrees
<1> QED
  BY <1>1, <1>2, <1>3, AgreeTwice

LEMMA EmittedAgrees ==
    ASSUME NEW b, NEW format \in Formats, NEW dialect, dialect.mechanism \in Mechanisms, NEW effort, NEW g, g \notin EffortNames
    PROVE  Agree(Emitted(b, format, dialect, effort), b, g)
<1> DEFINE level == IF effort > Ceiling(dialect) THEN Ceiling(dialect) ELSE effort
           bare == Without(b, {name \in {"reasoning_effort"} : format = "responses"})
<1>1. Agree(bare, b, g)
  BY WithoutAgrees DEF EffortNames
<1>2. CASE dialect.mechanism = "openai-effort"
  <2> DEFINE field == IF format = "responses" THEN "reasoning.effort" ELSE "reasoning_effort"
  <2>1. Emitted(b, format, dialect, effort) = Set(bare, field, level)
    BY <1>2 DEF Emitted
  <2>2. field \in EffortNames
    BY DEF EffortNames
  <2> HIDE DEF level, bare, field
  <2>3. Agree(Set(bare, field, level), bare, g)
    BY <2>2, SetAgrees
  <2> QED
    BY <1>1, <2>1, <2>3, AgreeTwice
<1>3. CASE dialect.mechanism = "anthropic-effort"
  <2>1. Emitted(b, format, dialect, effort) = Set(b, "output_config.effort", level)
    BY <1>3 DEF Emitted
  <2> HIDE DEF level
  <2> QED
    BY <2>1, SetAgrees DEF EffortNames
<1>4. CASE dialect.mechanism = "anthropic-thinking"
  <2>1. Emitted(b, format, dialect, effort) = Set(b, "thinking", IF level = 0 THEN "disabled" ELSE "enabled")
    BY <1>4 DEF Emitted
  <2> HIDE DEF level
  <2> QED
    BY <2>1, SetAgrees DEF EffortNames
<1>5. CASE dialect.mechanism \in {"auto-only", "none"}
  <2> DEFINE removed == {EffortField(format)} \cup {name \in {"thinking"} : format = "anthropic"}
  <2>1. Emitted(b, format, dialect, effort) = Without(bare, removed)
    BY <1>5 DEF Emitted
  <2>2. g \notin removed
    BY DEF EffortField, Formats, EffortNames
  <2> HIDE DEF removed, bare
  <2>3. Agree(Without(bare, removed), bare, g)
    BY <2>2, WithoutAgrees
  <2> QED
    BY <1>1, <2>1, <2>3, AgreeTwice
<1> QED
  BY <1>2, <1>3, <1>4, <1>5 DEF Mechanisms

-----------------------------------------------------------------------------
(* The way of a request *)

\* The request as a Chat request, and what another protocol makes of it
Pivoted ==
    IF client = "chat" THEN <<body>>
    ELSE IF client = "responses" THEN ChatOfResponses(body, Upstream) ELSE <<ChatOfClaude(body)>>
Chat == Defaults("chat", Pivoted[1], to)
Made ==
    IF Upstream = "chat" THEN <<Chat>>
    ELSE IF Upstream = "responses" THEN ResponsesOfChat(Chat) ELSE ClaudeOfChat(Chat, to.rejects)
Cleaned ==
    With(Set(Without(Made[1], {"input.cache_control", "input.incomplete"}), "messages", "plain"),
         "input", Has(body, "input"), body["input"])

RepairNames == {"messages", "reasoning_split", "model"}
LostNames == {"input", "input.cache_control", "input.incomplete"}

LEMMA TranslatedParts ==
    ASSUME client \in Formats, Upstream \in Formats, client # Upstream,
           Translated(client, Upstream, body, to, with.stream) # Nothing
    PROVE  /\ Pivoted # Nothing /\ Made # Nothing
           /\ Translated(client, Upstream, body, to, with.stream) =
                <<Defaults(Upstream, Repaired(Upstream, Cleaned, to, FALSE), to)>>
<1> DEFINE pivot == CASE client = "chat" -> <<body>>
                      [] client = "responses" -> ChatOfResponses(body, Upstream)
                      [] client = "anthropic" -> <<ChatOfClaude(body)>>
           chat == Defaults("chat", pivot[1], to)
           made == CASE Upstream = "chat" -> <<chat>>
                     [] Upstream = "responses" -> ResponsesOfChat(chat)
                     [] Upstream = "anthropic" -> ClaudeOfChat(chat, to.rejects)
<1>1. pivot = Pivoted
  BY DEF Pivoted, Formats
<1>2. made = Made
  <2>1. chat = Chat
    BY <1>1 DEF Chat
  <2> HIDE DEF chat
  <2> QED
    BY <2>1 DEF Made, Formats
<1> DEFINE carried == Without(made[1], {"input.cache_control", "input.incomplete"})
           plain == With(Set(carried, "messages", "plain"), "input", Has(body, "input"), body["input"])
<1>3. plain = Cleaned
  BY <1>2 DEF Cleaned
<1>4. Translated(client, Upstream, body, to, with.stream) =
        IF pivot = Nothing \/ made = Nothing THEN Nothing
        ELSE <<Defaults(Upstream, Repaired(Upstream, plain, to, FALSE), to)>>
  BY DEF Translated
<1> HIDE DEF pivot, made, plain
<1> QED
  BY <1>1, <1>2, <1>3, <1>4

LEMMA WithModelAgrees ==
    ASSUME NEW made, NEW f, f # "model"
    PROVE  Agree(WithModel(made), made, f)
BY SetAgrees, WithoutAgrees DEF WithModel

\* Between two protocols
LEMMA CarriesCleaned ==
    ASSUME client \in Formats, Upstream \in Formats, client # Upstream, ~raw,
           Translated(client, Upstream, body, to, with.stream) # Nothing,
           NEW f, f \notin ParallelFields \cup LimitNames \cup RepairNames
    PROVE  Agree(Carriage, Cleaned, f)
<1> DEFINE repaired == Repaired(Upstream, Cleaned, to, FALSE)
           done == Defaults(Upstream, repaired, to)
<1>1. Carriage = WithModel(done)
  <2>1. Translated(client, Upstream, body, to, with.stream) = <<done>>
    BY TranslatedParts
  <2>2. Carriage = WithModel(Translated(client, Upstream, body, to, with.stream)[1])
    BY DEF Carriage
  <2> HIDE DEF done
  <2> QED
    BY <2>1, <2>2
<1>2. Agree(repaired, Cleaned, f)
  BY RepairedAgrees DEF RepairNames
<1> HIDE DEF repaired
<1>3. Agree(done, repaired, f)
  BY DefaultsAgree
<1> HIDE DEF done
<1>4. Agree(Carriage, done, f)
  BY <1>1, WithModelAgrees DEF RepairNames
<1> QED
  BY <1>2, <1>3, <1>4, AgreeTwice

LEMMA CleanedFacts ==
    /\ \A f : f \notin RepairNames \cup LostNames => Agree(Cleaned, Made[1], f)
    /\ "input.cache_control" \notin DOMAIN Cleaned
<1> DEFINE bare == Without(Made[1], {"input.cache_control", "input.incomplete"})
           spoken == Set(bare, "messages", "plain")
<1>1. Cleaned = With(spoken, "input", Has(body, "input"), body["input"])
  BY DEF Cleaned
<1>2. \A f : f \notin LostNames => Agree(bare, Made[1], f)
  BY WithoutAgrees DEF LostNames
<1>3. "input.cache_control" \notin DOMAIN bare
  BY DEF Without, Restrict
<1> HIDE DEF bare
<1>4. \A f : f # "messages" => Agree(spoken, bare, f)
  BY SetAgrees
<1> HIDE DEF spoken
<1>5. \A f : f # "input" => Agree(Cleaned, spoken, f)
  BY <1>1, WithAgrees
<1>6. ASSUME NEW f, f \notin RepairNames \cup LostNames
      PROVE  Agree(Cleaned, Made[1], f)
  <2>1. Agree(bare, Made[1], f) /\ Agree(spoken, bare, f) /\ Agree(Cleaned, spoken, f)
    BY <1>2, <1>4, <1>5, <1>6 DEF RepairNames, LostNames
  <2> QED
    BY <2>1, AgreeTwice
<1>7. "input.cache_control" \notin DOMAIN Cleaned
  <2>1. Agree(spoken, bare, "input.cache_control") /\ Agree(Cleaned, spoken, "input.cache_control")
    BY <1>4, <1>5
  <2> QED
    BY <1>3, <2>1 DEF Agree
<1> QED
  BY <1>6, <1>7

\* In one protocol
LEMMA WithinAgrees ==
    ASSUME client \in Formats, client = Upstream,
           NEW f, f \notin ParallelFields \cup LimitNames \cup RepairNames
    PROVE  Agree(Carriage, body, f)
<1>1. CASE raw
  BY <1>1 DEF Carriage, Agree
<1>2. CASE ~raw
  <2> DEFINE repaired == Repaired(Upstream, body, to, with.stream)
             done == Defaults(Upstream, repaired, to)
  <2>1. Carriage = WithModel(done)
    BY <1>2 DEF Carriage, Translated
  <2>2. Agree(repaired, body, f)
    BY RepairedAgrees DEF RepairNames
  <2> HIDE DEF repaired
  <2>3. Agree(done, repaired, f)
    BY DefaultsAgree
  <2> HIDE DEF done
  <2>4. Agree(Carriage, done, f)
    BY <2>1, WithModelAgrees DEF RepairNames
  <2> QED
    BY <2>2, <2>3, <2>4, AgreeTwice
<1> QED
  BY <1>1, <1>2

\* The dialect and the key
LEMMA DialectedAgrees ==
    ASSUME to \in Routes, NEW f, f \notin EffortNames
    PROVE  Agree(Dialected, Carriage, f)
<1>1. CASE Dialects
  <2>1. to.dialect.mechanism \in Mechanisms /\ Upstream \in Formats
    BY <1>1, RoutesAssumption DEF Dialects, Upstream
  <2> QED
    BY <1>1, <2>1, EmittedAgrees DEF Dialected
<1>2. CASE ~Dialects
  BY <1>2 DEF Dialected, Agree
<1> QED
  BY <1>1, <1>2

LEMMA FinalAgrees ==
    ASSUME NEW f, f # "prompt_cache_key" \/ ~KeyTaken
    PROVE  Agree(Final, Dialected, f)
BY WithAgrees DEF Final, With, Agree

-----------------------------------------------------------------------------
(* The four translations: what is carried under which name *)

FromResponses(target) ==
    (Same({"temperature", "top_p", "parallel_tool_calls"})
     \cup {<<"max_output_tokens", "max_completion_tokens">>, <<"text.format", "response_format">>})
    \cup {r \in ResponsesNames : r[2] \in SharedControls(target)}
    \cup Same({field \in {"extra_body.anthropic.cache_control"} : target = "anthropic"})
FromClaude ==
    Same({"temperature", "top_p", "tools"})
    \cup {<<"max_tokens", "max_completion_tokens">>, <<"stop_sequences", "stop">>,
          <<"extra_body.openai.prompt_cache_key", "prompt_cache_key">>,
          <<"extra_body.openai.prompt_cache_retention", "prompt_cache_retention">>,
          <<"extra_body.openai.reasoning_effort", "reasoning_effort">>}
ToClaude ==
    Same({"temperature", "top_p", "metadata"})
    \cup {<<"stop", "stop_sequences">>, <<"extra_body.anthropic.cache_control", "cache_control">>}
ToResponsesRenamed ==
    {<<"response_format", "text.format">>, <<"verbosity", "text.verbosity">>, <<"reasoning_effort", "reasoning.effort">>}
ToResponsesRemoved ==
    {"max_completion_tokens", "max_tokens"} \cup {r[1] : r \in ToResponsesRenamed}
    \cup {"stop", "seed", "presence_penalty", "frequency_penalty", "logprobs", "logit_bias", "prediction",
          "web_search_options", "n", "store", "modalities", "audio"}
ToResponses(b) == ToResponsesRenamed \cup Same(DOMAIN b \ ToResponsesRemoved)

LEMMA ChatOfResponsesCarries ==
    ASSUME NEW b, NEW target, ChatOfResponses(b, target) # Nothing,
           NEW f, f \notin {"logprobs", "tools", "tool_choice"}
    PROVE  Agree(ChatOfResponses(b, target)[1], Carried(b, FromResponses(target)), f)
<1> DEFINE tools == NormalizedTools(ToolsOf(b))
           names == FunctionNames(tools)
           choice == IF Has(b, "tool_choice") THEN ChoiceOfResponses(b["tool_choice"], tools) ELSE Nothing
           logprobs == /\ "top_logprobs" \in SharedControls(target)
                       /\ Among(b, {"include.message.output_text.logprobs", "top_logprobs"}) # {}
           plain == Carried(b, FromResponses(target))
           one == With(plain, "logprobs", logprobs, TRUE)
           two == With(one, "tools", names # <<>>, [i \in DOMAIN names |-> FunctionTool(names[i])])
           three == With(two, "tool_choice", choice # Nothing, choice[1])
<1>1. ChatOfResponses(b, target) =
        IF ~PublicNamesAllowed(ToolsOf(b)) \/ CustomConflict(tools) \/ NamespaceConflict(tools) THEN Nothing ELSE <<three>>
  BY DEF ChatOfResponses, FromResponses
<1>2. Agree(one, plain, f)
  BY WithAgrees
<1> HIDE DEF one, plain
<1>3. Agree(two, one, f)
  BY WithAgrees
<1> HIDE DEF two
<1>4. Agree(three, two, f)
  BY WithAgrees
<1> HIDE DEF three
<1>5. ChatOfResponses(b, target)[1] = three
  BY <1>1
<1>6. Agree(three, plain, f)
  BY <1>2, <1>3, <1>4, AgreeTwice
<1> QED
  BY <1>5, <1>6 DEF plain

LEMMA ChatOfClaudeCarries ==
    ASSUME NEW b, NEW f, f \notin {"tool_choice", "parallel_tool_calls"}
    PROVE  Agree(ChatOfClaude(b), Carried(b, FromClaude), f)
<1> DEFINE chosen == Has(b, "tool_choice")
           serial == chosen /\ Value(b, "tool_choice.disable_parallel_tool_use", FALSE)
           plain == Carried(b, FromClaude)
           one == With(plain, "tool_choice", chosen, ChoiceOfClaude(b["tool_choice"]))
           two == With(one, "parallel_tool_calls", serial, FALSE)
<1>1. ChatOfClaude(b) = two
  BY DEF ChatOfClaude, FromClaude
<1>2. Agree(one, plain, f)
  BY WithAgrees
<1> HIDE DEF one, plain
<1>3. Agree(two, one, f)
  BY WithAgrees
<1> HIDE DEF two
<1>4. Agree(two, plain, f)
  BY <1>2, <1>3, AgreeTwice
<1> QED
  BY <1>1, <1>4 DEF plain

LEMMA ResponsesOfChatCarries ==
    ASSUME NEW b, ResponsesOfChat(b) # Nothing,
           NEW f, f \notin {"include.message.output_text.logprobs", "max_output_tokens", "tool_choice"}
    PROVE  Agree(ResponsesOfChat(b)[1], Carried(b, ToResponses(b)), f)
<1> DEFINE policy == ToolPolicy(b)
           logprobs == Value(b, "logprobs", FALSE) \/ Has(b, "top_logprobs")
           plain == Carried(b, ToResponses(b))
           one == With(plain, "include.message.output_text.logprobs", logprobs, TRUE)
           two == With(one, "max_output_tokens", Among(b, {"max_completion_tokens", "max_tokens"}) # {},
                       Value(b, "max_completion_tokens", Value(b, "max_tokens", 0)))
           three == With(two, "tool_choice", policy.policy # Nothing, ResponsesChoiceOfPolicy(policy.policy[1], policy.names))
<1>1. ResponsesOfChat(b) = IF ~policy.ok THEN Nothing ELSE <<three>>
  BY DEF ResponsesOfChat, ToResponses, ToResponsesRemoved, ToResponsesRenamed
<1>2. Agree(one, plain, f)
  BY WithAgrees
<1> HIDE DEF one, plain
<1>3. Agree(two, one, f)
  BY WithAgrees
<1> HIDE DEF two
<1>4. Agree(three, two, f)
  BY WithAgrees
<1> HIDE DEF three
<1>5. ResponsesOfChat(b)[1] = three
  BY <1>1
<1>6. Agree(three, plain, f)
  BY <1>2, <1>3, <1>4, AgreeTwice
<1> QED
  BY <1>5, <1>6 DEF plain

\* The limit has one name only in Responses.
LEMMA ResponsesOfChatLimit ==
    ASSUME NEW b, ResponsesOfChat(b) # Nothing, Among(b, {"max_completion_tokens", "max_tokens"}) # {}
    PROVE  /\ "max_output_tokens" \in DOMAIN ResponsesOfChat(b)[1]
           /\ ResponsesOfChat(b)[1]["max_output_tokens"] = Value(b, "max_completion_tokens", Value(b, "max_tokens", 0))
<1> DEFINE policy == ToolPolicy(b)
           limits == {"max_completion_tokens", "max_tokens"}
           logprobs == Value(b, "logprobs", FALSE) \/ Has(b, "top_logprobs")
           plain == Carried(b, ToResponses(b))
           limit == Value(b, "max_completion_tokens", Value(b, "max_tokens", 0))
           one == With(plain, "include.message.output_text.logprobs", logprobs, TRUE)
           two == With(one, "max_output_tokens", Among(b, limits) # {}, limit)
           three == With(two, "tool_choice", policy.policy # Nothing, ResponsesChoiceOfPolicy(policy.policy[1], policy.names))
<1>1. ResponsesOfChat(b) = IF ~policy.ok THEN Nothing ELSE <<three>>
  BY DEF ResponsesOfChat, ToResponses, ToResponsesRemoved, ToResponsesRenamed
<1>2. ResponsesOfChat(b)[1] = three
  <2> HIDE DEF three
  <2> QED
    BY <1>1
<1>3. Among(b, limits) # {}
  OBVIOUS
<1> HIDE DEF plain, one, limit, limits
<1>5. "max_output_tokens" \in DOMAIN two /\ two["max_output_tokens"] = limit
  BY <1>3 DEF With, Set
<1> HIDE DEF two
<1>6. Agree(three, two, "max_output_tokens")
  BY WithAgrees
<1> HIDE DEF three
<1> QED
  BY <1>2, <1>5, <1>6 DEF Agree, limit

LEMMA ClaudeOfChatCarries ==
    ASSUME NEW b, NEW rejects, ClaudeOfChat(b, rejects) # Nothing
    PROVE  /\ \A f : f \notin {"tool_choice", "tool_choice.disable_parallel_tool_use", "output_config.format", "tools",
                              "max_tokens"} \cup Withheld(b, rejects) =>
                Agree(ClaudeOfChat(b, rejects)[1], Carried(b, ToClaude), f)
           /\ "max_tokens" \in DOMAIN ClaudeOfChat(b, rejects)[1]
           /\ ClaudeOfChat(b, rejects)[1]["max_tokens"] =
                Value(b, "max_completion_tokens", Value(b, "max_tokens", 4096))
<1> DEFINE policy == ToolPolicy(b)
           serial == Value(b, "parallel_tool_calls", TRUE) = FALSE
           shape == Value(b, "response_format", "text")
           limit == Value(b, "max_completion_tokens", Value(b, "max_tokens", 4096))
           functions == Those(ToolsOf(b), LAMBDA t : t.kind = "function")
           selected == IF policy.names = Nothing \/ policy.policy = <<"forced">> THEN functions
                       ELSE [i \in DOMAIN policy.names[1] |-> CHOOSE t \in Named(functions, policy.names[1][i]) : TRUE]
           choice == IF policy.policy = Nothing THEN Plain("auto") ELSE ChoiceOfPolicy(policy.policy[1], policy.names[1])
           chosen == policy.policy # Nothing \/ (serial /\ ToolsOf(b) # <<>>)
           plain == Carried(b, ToClaude)
           allowed == Without(plain, Withheld(b, rejects))
           limited == Set(allowed, "max_tokens", limit)
           one == With(limited, "tool_choice", chosen, choice)
           two == With(one, "tool_choice.disable_parallel_tool_use", chosen /\ serial /\ choice.type # "none", TRUE)
           three == With(two, "output_config.format", shape = "json_schema", shape)
           four == With(three, "tools", selected # <<>>, selected)
<1>1. ClaudeOfChat(b, rejects) = IF ~policy.ok \/ shape = "json_object" THEN Nothing ELSE <<four>>
  BY DEF ClaudeOfChat, ToClaude
<1>2. ClaudeOfChat(b, rejects)[1] = four
  <2> HIDE DEF four
  <2> QED
    BY <1>1
<1>3. \A f : f \notin Withheld(b, rejects) => Agree(allowed, plain, f)
  BY WithoutAgrees
<1> HIDE DEF plain, allowed, limit, chosen, serial, choice, shape, selected
<1>5. \A f : f # "max_tokens" => Agree(limited, allowed, f)
  BY SetAgrees
<1>6. "max_tokens" \in DOMAIN limited /\ limited["max_tokens"] = limit
  BY DEF Set
<1> HIDE DEF limited
<1>7. \A f : f # "tool_choice" => Agree(one, limited, f)
  BY WithAgrees
<1> HIDE DEF one
<1>8. \A f : f # "tool_choice.disable_parallel_tool_use" => Agree(two, one, f)
  BY WithAgrees
<1> HIDE DEF two
<1>10. \A f : f # "output_config.format" => Agree(three, two, f)
  BY WithAgrees
<1> HIDE DEF three
<1>11. \A f : f # "tools" => Agree(four, three, f)
  BY WithAgrees
<1> HIDE DEF four
<1>12. ASSUME NEW f, f \notin {"tool_choice", "tool_choice.disable_parallel_tool_use", "output_config.format", "tools",
                               "max_tokens"} \cup Withheld(b, rejects)
       PROVE  Agree(ClaudeOfChat(b, rejects)[1], Carried(b, ToClaude), f)
  <2>1. Agree(four, three, f) /\ Agree(three, two, f) /\ Agree(two, one, f)
    BY <1>8, <1>10, <1>11, <1>12
  <2>2. Agree(one, limited, f) /\ Agree(limited, allowed, f) /\ Agree(allowed, plain, f)
    BY <1>3, <1>5, <1>7, <1>12
  <2>3. Agree(four, plain, f)
    BY <2>1, <2>2, AgreeTwice
  <2> QED
    BY <1>2, <2>3 DEF plain
<1>13. "max_tokens" \in DOMAIN four /\ four["max_tokens"] = limit
  BY <1>6, <1>7, <1>8, <1>10, <1>11 DEF Agree
<1> QED
  BY <1>2, <1>12, <1>13 DEF limit

\* It forbids parallel calls or says nothing of them.
LEMMA ClaudeOfChatIsSerial ==
    ASSUME NEW b, NEW rejects, ClaudeOfChat(b, rejects) # Nothing,
           "tool_choice.disable_parallel_tool_use" \in DOMAIN ClaudeOfChat(b, rejects)[1]
    PROVE  ClaudeOfChat(b, rejects)[1]["tool_choice.disable_parallel_tool_use"] = TRUE
<1> DEFINE policy == ToolPolicy(b)
           serial == Value(b, "parallel_tool_calls", TRUE) = FALSE
           shape == Value(b, "response_format", "text")
           limit == Value(b, "max_completion_tokens", Value(b, "max_tokens", 4096))
           functions == Those(ToolsOf(b), LAMBDA t : t.kind = "function")
           selected == IF policy.names = Nothing \/ policy.policy = <<"forced">> THEN functions
                       ELSE [i \in DOMAIN policy.names[1] |-> CHOOSE t \in Named(functions, policy.names[1][i]) : TRUE]
           choice == IF policy.policy = Nothing THEN Plain("auto") ELSE ChoiceOfPolicy(policy.policy[1], policy.names[1])
           chosen == policy.policy # Nothing \/ (serial /\ ToolsOf(b) # <<>>)
           plain == Carried(b, ToClaude)
           allowed == Without(plain, Withheld(b, rejects))
           limited == Set(allowed, "max_tokens", limit)
           one == With(limited, "tool_choice", chosen, choice)
           two == With(one, "tool_choice.disable_parallel_tool_use", chosen /\ serial /\ choice.type # "none", TRUE)
           three == With(two, "output_config.format", shape = "json_schema", shape)
           four == With(three, "tools", selected # <<>>, selected)
<1>1. ClaudeOfChat(b, rejects) = IF ~policy.ok \/ shape = "json_object" THEN Nothing ELSE <<four>>
  BY DEF ClaudeOfChat, ToClaude
<1>2. ClaudeOfChat(b, rejects)[1] = four
  <2> HIDE DEF four
  <2> QED
    BY <1>1
<1>4. "tool_choice.disable_parallel_tool_use" \notin DOMAIN allowed
  <2>1. \A q \in ToClaude : q[2] # "tool_choice.disable_parallel_tool_use"
    BY DEF ToClaude, Same
  <2>2. "tool_choice.disable_parallel_tool_use" \notin DOMAIN plain
    BY <2>1, NotCarried
  <2> HIDE DEF plain
  <2> QED
    BY <2>2 DEF Without, Restrict
<1> HIDE DEF plain, allowed, limit, chosen, serial, choice, shape, selected
<1>5. \A f : f # "max_tokens" => Agree(limited, allowed, f)
  BY SetAgrees
<1> HIDE DEF limited
<1>7. \A f : f # "tool_choice" => Agree(one, limited, f)
  BY WithAgrees
<1> HIDE DEF one
<1>9. "tool_choice.disable_parallel_tool_use" \in DOMAIN two => two["tool_choice.disable_parallel_tool_use"] = TRUE
  BY <1>4, <1>5, <1>7 DEF With, Set, Agree
<1> HIDE DEF two
<1>10. \A f : f # "output_config.format" => Agree(three, two, f)
  BY WithAgrees
<1> HIDE DEF three
<1>11. \A f : f # "tools" => Agree(four, three, f)
  BY WithAgrees
<1> HIDE DEF four
<1>14. "tool_choice.disable_parallel_tool_use" \in DOMAIN four => four["tool_choice.disable_parallel_tool_use"] = TRUE
  BY <1>9, <1>10, <1>11 DEF Agree
<1> QED
  BY <1>2, <1>14

-----------------------------------------------------------------------------
(* The controls of a prompt cache *)

Keys == {"prompt_cache_key", "prompt_cache_retention"}
Marks == {"cache_control", "input.cache_control"}
KeyExtra(key) ==
    IF key = "prompt_cache_key" THEN "extra_body.openai.prompt_cache_key" ELSE "extra_body.openai.prompt_cache_retention"
Continuations == {"previous_response_id", "conversation", "prompt"}

\* A field arrives under another name.
Arrives(made, theirs, b, mine) ==
    /\ theirs \in DOMAIN made <=> mine \in DOMAIN b
    /\ mine \in DOMAIN b => made[theirs] = b[mine]

LEMMA AgreeArrives ==
    ASSUME NEW a, NEW b, NEW c, NEW f, NEW g
    PROVE  /\ Agree(a, b, f) /\ Arrives(b, f, c, g) => Arrives(a, f, c, g)
           /\ Arrives(a, f, b, g) /\ Agree(b, c, g) => Arrives(a, f, c, g)
           /\ Arrives(a, f, b, f) <=> Agree(a, b, f)
BY DEF Agree, Arrives

LEMMA ChatHasKeys ==
    ASSUME client = "responses", Pivoted # Nothing, Upstream = "chat", NEW k \in Keys
    PROVE  Agree(Chat, body, k)
<1>1. Pivoted = ChatOfResponses(body, "chat")
  BY DEF Pivoted
<1>2. Agree(Pivoted[1], Carried(body, FromResponses("chat")), k)
  BY <1>1, ChatOfResponsesCarries DEF Keys
<1>3. Agree(Carried(body, FromResponses("chat")), body, k)
  <2>1. <<k, k>> \in FromResponses("chat")
    BY DEF FromResponses, ResponsesNames, SharedControls, SharedNames, Same, Keys
  <2>2. \A q \in FromResponses("chat") : q[2] = k => q[1] = k
    BY DEF FromResponses, ResponsesNames, SharedControls, SharedNames, Same, Keys
  <2> HIDE DEF FromResponses
  <2> QED
    BY <2>1, <2>2, CarriedField DEF Agree
<1>4. Agree(Chat, Pivoted[1], k)
  BY DefaultsAgree DEF Chat, Formats, ParallelFields, LimitNames, Keys
<1> QED
  BY <1>2, <1>3, <1>4, AgreeTwice

LEMMA ResponsesKeeps ==
    ASSUME NEW b, ResponsesOfChat(b) # Nothing, NEW f,
           f \notin ToResponsesRemoved \cup {r[2] : r \in ToResponsesRenamed}
                    \cup {"include.message.output_text.logprobs", "max_output_tokens", "tool_choice"}
    PROVE  Agree(ResponsesOfChat(b)[1], b, f)
<1>1. Agree(ResponsesOfChat(b)[1], Carried(b, ToResponses(b)), f)
  BY ResponsesOfChatCarries
<1>2. f \notin {r[2] : r \in ToResponsesRenamed} /\ f \notin ToResponsesRemoved
  OBVIOUS
<1> HIDE DEF ToResponsesRenamed, ToResponsesRemoved
<1>3. \A q \in ToResponses(b) : q[2] = f => q[1] = f /\ f \in DOMAIN b
  BY <1>2 DEF ToResponses, Same
<1>4. CASE f \in DOMAIN b
  <2>1. <<f, f>> \in ToResponses(b)
    BY <1>2, <1>4 DEF ToResponses, Same
  <2>2. Agree(Carried(b, ToResponses(b)), b, f)
    BY <1>3, <2>1, CarriedField DEF Agree
  <2> QED
    BY <1>1, <2>2, AgreeTwice
<1>5. CASE f \notin DOMAIN b
  <2>1. f \notin DOMAIN Carried(b, ToResponses(b))
    BY <1>3, <1>5, NotCarried
  <2> QED
    BY <1>1, <1>5, <2>1 DEF Agree
<1> QED
  BY <1>4, <1>5

LEMMA ClaudeGivesKeys ==
    ASSUME client = "anthropic"
    PROVE  /\ \A k \in Keys : Arrives(Chat, k, body, KeyExtra(k))
           /\ \A k \in Continuations : k \notin DOMAIN Chat
<1>1. Pivoted[1] = ChatOfClaude(body)
  BY DEF Pivoted
<1>2. ASSUME NEW k \in Keys \cup Continuations
      PROVE  Agree(Chat, Carried(body, FromClaude), k)
  <2>1. Agree(Pivoted[1], Carried(body, FromClaude), k)
    BY <1>1, ChatOfClaudeCarries DEF Keys, Continuations
  <2>2. Agree(Chat, Pivoted[1], k)
    BY DefaultsAgree DEF Chat, Formats, ParallelFields, LimitNames, Keys, Continuations
  <2> QED
    BY <2>1, <2>2, AgreeTwice
<1>3. ASSUME NEW k \in Keys
      PROVE  Arrives(Chat, k, body, KeyExtra(k))
  <2>1. <<KeyExtra(k), k>> \in FromClaude
    BY DEF FromClaude, KeyExtra, Keys
  <2>2. \A q \in FromClaude : q[2] = k => q[1] = KeyExtra(k)
    BY DEF FromClaude, KeyExtra, Keys, Same
  <2>3. Arrives(Carried(body, FromClaude), k, body, KeyExtra(k))
    BY <2>1, <2>2, CarriedField DEF Arrives
  <2> QED
    BY <1>2, <2>3, AgreeArrives
<1>4. ASSUME NEW k \in Continuations
      PROVE  k \notin DOMAIN Chat
  <2>1. \A q \in FromClaude : q[2] # k
    BY DEF FromClaude, Same, Continuations
  <2> QED
    BY <1>2, <2>1, NotCarried DEF Agree
<1> QED
  BY <1>3, <1>4

Extras == {"extra_body.anthropic.cache_control", "extra_body.openai.prompt_cache_key", "extra_body.openai.prompt_cache_retention"}

LEMMA ClaudeTakesMarks ==
    ASSUME client \in OpenaiFamily, Upstream = "anthropic", Pivoted # Nothing, Made # Nothing
    PROVE  /\ Arrives(Made[1], "cache_control", body, "extra_body.anthropic.cache_control")
           /\ \A f \in (Keys \cup Marks \cup Extras) \ {"cache_control"} : f \notin DOMAIN Made[1]
<1>1. Made = ClaudeOfChat(Chat, to.rejects)
  BY DEF Made
<1>0. \A f : f \notin {"tool_choice", "tool_choice.disable_parallel_tool_use", "output_config.format", "tools",
                       "max_tokens"} \cup Withheld(Chat, to.rejects) =>
                Agree(ClaudeOfChat(Chat, to.rejects)[1], Carried(Chat, ToClaude), f)
  BY <1>1, ClaudeOfChatCarries
<1>2. ASSUME NEW f \in Keys \cup Marks \cup Extras
      PROVE  Agree(Made[1], Carried(Chat, ToClaude), f)
  <2>1. f \notin Withheld(Chat, to.rejects)
    BY DEF Keys, Marks, Extras, Withheld, Among
  <2>2. f \notin {"tool_choice", "tool_choice.disable_parallel_tool_use", "output_config.format", "tools", "max_tokens"}
    BY DEF Keys, Marks, Extras
  <2> QED
    BY <1>0, <1>1, <2>1, <2>2
<1>3. ASSUME NEW f \in (Keys \cup Marks \cup Extras) \ {"cache_control"}
      PROVE  f \notin DOMAIN Made[1]
  <2>1. \A q \in ToClaude : q[2] # f
    BY DEF ToClaude, Same, Keys, Marks, Extras
  <2> QED
    BY <1>2, <2>1, NotCarried DEF Agree
<1>4. Arrives(Carried(Chat, ToClaude), "cache_control", Chat, "extra_body.anthropic.cache_control")
  <2>1. <<"extra_body.anthropic.cache_control", "cache_control">> \in ToClaude
    BY DEF ToClaude
  <2>2. \A q \in ToClaude : q[2] = "cache_control" => q[1] = "extra_body.anthropic.cache_control"
    BY DEF ToClaude, Same
  <2> QED
    BY <2>1, <2>2, CarriedField DEF Arrives
<1>5. Agree(Chat, body, "extra_body.anthropic.cache_control")
  <2>1. Agree(Chat, Pivoted[1], "extra_body.anthropic.cache_control")
    BY DefaultsAgree DEF Chat, Formats, ParallelFields, LimitNames
  <2>2. CASE client = "chat"
    BY <2>1, <2>2 DEF Pivoted
  <2>3. CASE client = "responses"
    <3>1. Pivoted = ChatOfResponses(body, "anthropic")
      BY <2>3 DEF Pivoted
    <3>2. Agree(Pivoted[1], Carried(body, FromResponses("anthropic")), "extra_body.anthropic.cache_control")
      BY <3>1, ChatOfResponsesCarries
    <3>3. <<"extra_body.anthropic.cache_control", "extra_body.anthropic.cache_control">> \in FromResponses("anthropic")
      BY DEF FromResponses, Same
    <3>4. \A q \in FromResponses("anthropic") :
            q[2] = "extra_body.anthropic.cache_control" => q[1] = "extra_body.anthropic.cache_control"
      BY DEF FromResponses, ResponsesNames, SharedControls, SharedNames, Same
    <3>5. Agree(Carried(body, FromResponses("anthropic")), body, "extra_body.anthropic.cache_control")
      BY <3>3, <3>4, CarriedField DEF Agree
    <3> QED
      BY <2>1, <3>2, <3>5, AgreeTwice
  <2> QED
    BY <2>2, <2>3 DEF OpenaiFamily
<1>6. Arrives(Made[1], "cache_control", Carried(Chat, ToClaude), "cache_control")
  BY <1>2, AgreeArrives DEF Marks
<1>7. Arrives(Made[1], "cache_control", Chat, "extra_body.anthropic.cache_control")
  BY <1>4, <1>6 DEF Arrives
<1> QED
  BY <1>3, <1>5, <1>7, AgreeArrives

\* The other names of these controls
LEMMA InAlike ==
    ASSUME NEW f, NEW g
    PROVE  g \in Alike(f) <=> g = f \/ \E meaning \in Meanings : f \in meaning /\ g \in meaning
BY DEF Alike

LEMMA AlikeKeys ==
    /\ Alike("prompt_cache_key") = {"prompt_cache_key", "extra_body.openai.prompt_cache_key"}
    /\ Alike("extra_body.openai.prompt_cache_key") = {"prompt_cache_key", "extra_body.openai.prompt_cache_key"}
    /\ Alike("prompt_cache_retention") = {"prompt_cache_retention", "extra_body.openai.prompt_cache_retention"}
    /\ Alike("extra_body.openai.prompt_cache_retention") =
            {"prompt_cache_retention", "extra_body.openai.prompt_cache_retention"}
    /\ Alike("cache_control") = {"cache_control", "extra_body.anthropic.cache_control"}
    /\ Alike("extra_body.anthropic.cache_control") = {"cache_control", "extra_body.anthropic.cache_control"}
    /\ Alike("input.cache_control") = {"input.cache_control"}
<1>1. Alike("prompt_cache_key") =
        {"prompt_cache_key", "extra_body.openai.prompt_cache_key"}
  <2>1. \A g : g \in Alike("prompt_cache_key") <=> g \in {"prompt_cache_key", "extra_body.openai.prompt_cache_key"}
    BY InAlike DEF Meanings
  <2> QED
    BY <2>1
<1>2. Alike("extra_body.openai.prompt_cache_key") =
        {"prompt_cache_key", "extra_body.openai.prompt_cache_key"}
  <2>1. \A g : g \in Alike("extra_body.openai.prompt_cache_key") <=> g \in {"prompt_cache_key", "extra_body.openai.prompt_cache_key"}
    BY InAlike DEF Meanings
  <2> QED
    BY <2>1
<1>3. Alike("prompt_cache_retention") =
        {"prompt_cache_retention", "extra_body.openai.prompt_cache_retention"}
  <2>1. \A g : g \in Alike("prompt_cache_retention") <=> g \in {"prompt_cache_retention", "extra_body.openai.prompt_cache_retention"}
    BY InAlike DEF Meanings
  <2> QED
    BY <2>1
<1>4. Alike("extra_body.openai.prompt_cache_retention") =
        {"prompt_cache_retention", "extra_body.openai.prompt_cache_retention"}
  <2>1. \A g : g \in Alike("extra_body.openai.prompt_cache_retention") <=> g \in {"prompt_cache_retention", "extra_body.openai.prompt_cache_retention"}
    BY InAlike DEF Meanings
  <2> QED
    BY <2>1
<1>5. Alike("cache_control") =
        {"cache_control", "extra_body.anthropic.cache_control"}
  <2>1. \A g : g \in Alike("cache_control") <=> g \in {"cache_control", "extra_body.anthropic.cache_control"}
    BY InAlike DEF Meanings
  <2> QED
    BY <2>1
<1>6. Alike("extra_body.anthropic.cache_control") =
        {"cache_control", "extra_body.anthropic.cache_control"}
  <2>1. \A g : g \in Alike("extra_body.anthropic.cache_control") <=> g \in {"cache_control", "extra_body.anthropic.cache_control"}
    BY InAlike DEF Meanings
  <2> QED
    BY <2>1
<1>7. Alike("input.cache_control") =
        {"input.cache_control"}
  <2>1. \A g : g \in Alike("input.cache_control") <=> g \in {"input.cache_control"}
    BY InAlike DEF Meanings
  <2> QED
    BY <2>1
<1> QED
  BY <1>1, <1>2, <1>3, <1>4, <1>5, <1>6, <1>7

Own == Keys \cup Marks \cup Extras

\* What is known of a request that was sent
LEMMA SentFacts ==
    ASSUME Progress, stage = "sent"
    PROVE  /\ client \in Formats /\ Upstream \in Formats /\ to \in Routes /\ body \in Bodies[client]
           /\ Admitted /\ sent = Final /\ warned = Warnings
           /\ report = IF KeyTaken THEN "synthesized" ELSE CacheControl
           /\ client # Upstream =>
                /\ ~raw /\ Translated(client, Upstream, body, to, with.stream) # Nothing
                /\ Pivoted # Nothing /\ Made # Nothing
<1>1. /\ client \in Formats /\ to \in Routes /\ body \in Bodies[client]
      /\ Admitted /\ sent = Final /\ warned = Warnings
      /\ report = IF KeyTaken THEN "synthesized" ELSE CacheControl
  BY DEF Progress
<1>2. Upstream \in Formats
  BY <1>1, RoutesAssumption DEF Upstream
<1>3. ASSUME client # Upstream
      PROVE  /\ ~raw /\ Translated(client, Upstream, body, to, with.stream) # Nothing
             /\ Pivoted # Nothing /\ Made # Nothing
  <2>1. ~raw
    BY <1>1, <1>3 DEF Admitted, MustTransform
  <2>2. Translated(client, Upstream, body, to, with.stream) # Nothing
    BY <2>1 DEF Progress
  <2> QED
    BY <1>1, <1>2, <1>3, <2>1, <2>2, TranslatedParts
<1> QED
  BY <1>1, <1>2, <1>3

LEMMA OwnWithin ==
    ASSUME Progress, stage = "sent", client = Upstream, NEW f \in Own
    PROVE  Agree(Dialected, body, f)
<1>1. Agree(Dialected, Carriage, f)
  BY SentFacts, DialectedAgrees DEF Own, Keys, Marks, Extras, EffortNames
<1>2. Agree(Carriage, body, f)
  BY SentFacts, WithinAgrees DEF Own, Keys, Marks, Extras, ParallelFields, LimitNames, RepairNames
<1> QED
  BY <1>1, <1>2, AgreeTwice

LEMMA OwnAcross ==
    ASSUME Progress, stage = "sent", client # Upstream, NEW f \in Own \cup Continuations
    PROVE  /\ f # "input.cache_control" => Agree(Dialected, Made[1], f)
           /\ f = "input.cache_control" => f \notin DOMAIN Dialected
<1>1. Agree(Dialected, Carriage, f)
  BY SentFacts, DialectedAgrees DEF Own, Keys, Marks, Extras, EffortNames, Continuations
<1>2. f \notin ParallelFields \cup LimitNames \cup RepairNames
  BY DEF Own, Keys, Marks, Extras, ParallelFields, LimitNames, RepairNames, Continuations
<1>3. Agree(Carriage, Cleaned, f)
  BY <1>2, SentFacts, CarriesCleaned
<1>4. Agree(Dialected, Cleaned, f)
  BY <1>1, <1>3, AgreeTwice
<1>5. CASE f = "input.cache_control"
  BY <1>4, <1>5, CleanedFacts DEF Agree
<1>6. CASE f # "input.cache_control"
  <2>1. f \notin LostNames
    BY <1>6 DEF Own, Keys, Marks, Extras, LostNames, Continuations
  <2>2. Agree(Cleaned, Made[1], f)
    BY <1>2, <2>1, CleanedFacts
  <2> QED
    BY <1>4, <1>6, <2>2, AgreeTwice
<1> QED
  BY <1>5, <1>6

\* Between the two protocols of OpenAI a key stays what it is.
LEMMA FamilyKeepsKeys ==
    ASSUME Progress, stage = "sent", client \in OpenaiFamily, Upstream \in OpenaiFamily, NEW k \in Keys
    PROVE  Agree(Dialected, body, k)
<1>1. CASE client = Upstream
  BY <1>1, OwnWithin DEF Own
<1>2. CASE client # Upstream
  <2>1. Agree(Dialected, Made[1], k)
    BY <1>2, OwnAcross DEF Own, Keys
  <2>2. CASE client = "chat"
    <3>1. Upstream = "responses"
      BY <1>2, <2>2 DEF OpenaiFamily
    <3>2. Made = ResponsesOfChat(Chat) /\ Made # Nothing
      BY <1>2, <3>1, SentFacts DEF Made
    <3>3. Agree(Made[1], Chat, k)
      BY <3>2, ResponsesKeeps DEF Keys, ToResponsesRemoved, ToResponsesRenamed
    <3>4. Agree(Chat, body, k)
      BY <2>2, DefaultsAgree DEF Chat, Pivoted, Formats, ParallelFields, LimitNames, Keys
    <3> QED
      BY <2>1, <3>3, <3>4, AgreeTwice
  <2>3. CASE client = "responses"
    <3>1. Upstream = "chat"
      BY <1>2, <2>3 DEF OpenaiFamily
    <3>2. Agree(Chat, body, k)
      BY <1>2, <2>3, <3>1, SentFacts, ChatHasKeys
    <3>3. Made[1] = Chat
      BY <3>1 DEF Made
    <3> QED
      BY <2>1, <3>2, <3>3, AgreeTwice
  <2> QED
    BY <2>2, <2>3 DEF OpenaiFamily
<1> QED
  BY <1>1, <1>2

\* An Anthropic request can have keys for OpenAI in its extra_body only.
LEMMA ClaudeKeys ==
    ASSUME Progress, stage = "sent", client = "anthropic", Upstream \in OpenaiFamily
    PROVE  /\ \A k \in Keys : Arrives(Dialected, k, body, KeyExtra(k))
           /\ \A k \in Continuations : k \notin DOMAIN Dialected
<1>1. client # Upstream
  BY DEF OpenaiFamily
<1>2. ASSUME NEW k \in Keys \cup Continuations
      PROVE  Agree(Dialected, Chat, k)
  <2>1. Agree(Dialected, Made[1], k)
    BY <1>1, OwnAcross DEF Own, Keys, Continuations
  <2>2. CASE Upstream = "chat"
    BY <2>1, <2>2 DEF Made
  <2>3. CASE Upstream = "responses"
    <3>1. Made = ResponsesOfChat(Chat) /\ Made # Nothing
      BY <1>1, <2>3, SentFacts DEF Made
    <3>2. Agree(Made[1], Chat, k)
      BY <3>1, ResponsesKeeps DEF Keys, Continuations, ToResponsesRemoved, ToResponsesRenamed
    <3> QED
      BY <2>1, <3>2, AgreeTwice
  <2> QED
    BY <2>2, <2>3 DEF OpenaiFamily
<1> QED
  BY <1>2, ClaudeGivesKeys DEF Agree, Arrives

\* so that without one it is given a key.
LEMMA ClaudeIsGivenAKey ==
    ASSUME Progress, stage = "sent", client = "anthropic", Upstream \in OpenaiFamily, ~KeyTaken
    PROVE  Has(body, "extra_body.openai.prompt_cache_key")
<1>1. ~raw
  BY SentFacts DEF OpenaiFamily
<1>2. Among(Dialected, {"prompt_cache_key", "previous_response_id", "conversation", "prompt"}) # {}
  BY <1>1 DEF KeyTaken
<1>3. "prompt_cache_key" \in DOMAIN Dialected
  BY <1>2, ClaudeKeys DEF Among, Continuations
<1> QED
  BY <1>3, ClaudeKeys DEF Arrives, Keys, KeyExtra, Has

\* Towards Anthropic only the mark in an extra_body goes.
LEMMA ClaudeMarks ==
    ASSUME Progress, stage = "sent", client \in OpenaiFamily, Upstream = "anthropic"
    PROVE  /\ Arrives(Dialected, "cache_control", body, "extra_body.anthropic.cache_control")
           /\ \A f \in Own \ {"cache_control"} : f \notin DOMAIN Dialected
<1>1. client # Upstream
  BY DEF OpenaiFamily
<1>2. /\ Arrives(Made[1], "cache_control", body, "extra_body.anthropic.cache_control")
      /\ \A f \in Own \ {"cache_control"} : f \notin DOMAIN Made[1]
  BY <1>1, SentFacts, ClaudeTakesMarks DEF Own
<1>3. Agree(Dialected, Made[1], "cache_control")
  BY <1>1, OwnAcross DEF Own, Marks
<1>4. ASSUME NEW f \in Own \ {"cache_control"}
      PROVE  f \notin DOMAIN Dialected
  <2>1. CASE f = "input.cache_control"
    BY <1>1, <2>1, OwnAcross
  <2>2. CASE f # "input.cache_control"
    BY <1>1, <1>2, <2>2, OwnAcross DEF Agree
  <2> QED
    BY <2>1, <2>2
<1> QED
  BY <1>2, <1>3, <1>4 DEF Agree, Arrives

LEMMA KeptAlike ==
    ASSUME NEW mine, NEW theirs, mine \in DOMAIN body, theirs \in DOMAIN sent, sent[theirs] = body[mine],
           mine \in Names(mine), theirs \in Names(mine)
    PROVE  Kept(mine)
BY DEF Kept, Reaches, Among

\* provider_native_prompt_cache says what became of the prompt-cache controls of a
\* request, although classify_provider_prompt_cache_request_control decides it
\* before the translation and sees neither the translation nor what is sent.
THEOREM CacheReportIsExact == Spec => []CacheReportIsTrue
<1>1. Progress => CacheReportIsTrue
  <2> DEFINE own == Keys \cup Marks \cup UNION {Alike(field) : field \in Keys \cup Marks}
             reached == {field \in Among(body, own) : Kept(field)}
             truthful ==
                CASE report = "synthesized" ->
                        /\ sent["prompt_cache_key"] = "llmup"
                        /\ Among(sent, {"previous_response_id", "conversation", "prompt"}) = {}
                  [] report \in {"mapped", "preserved"} -> reached # {}
                  [] report = "dropped" -> reached = {}
                  [] report = "none" -> Among(sent, IF Upstream = "anthropic" THEN Marks ELSE Keys) = {}
  <2> SUFFICES ASSUME Progress, stage = "sent" PROVE truthful
    BY DEF CacheReportIsTrue, Keys, Marks
  <2>1. client \in Formats /\ Upstream \in Formats /\ sent = Final
        /\ report = IF KeyTaken THEN "synthesized" ELSE CacheControl
    BY SentFacts
  <2>2. own = Own
    BY AlikeKeys DEF Own, Keys, Marks, Extras
  <2>3. CASE KeyTaken
    <3>1. report = "synthesized"
      BY <2>1, <2>3
    <3>2. sent["prompt_cache_key"] = "llmup" /\ DOMAIN sent = DOMAIN Dialected \cup {"prompt_cache_key"}
      <4>1. sent = Set(Dialected, "prompt_cache_key", "llmup")
        BY <2>1, <2>3 DEF Final, With
      <4> QED
        BY <4>1 DEF Set
    <3>3. Among(sent, {"previous_response_id", "conversation", "prompt"}) = {}
      BY <2>3, <3>2 DEF KeyTaken, Among
    <3> HIDE DEF own, reached
    <3> QED
      BY <3>1, <3>2, <3>3
  <2>4. CASE ~KeyTaken
    <3>1. sent = Dialected /\ report = CacheControl
      BY <2>1, <2>4 DEF Final, With
    <3>2. ASSUME report \in {"mapped", "preserved"}
          PROVE  reached # {}
      <4>1. ASSUME NEW f \in Own, f \in DOMAIN body, Kept(f)
            PROVE  reached # {}
        BY <2>2, <4>1 DEF Among
      <4> HIDE DEF own, reached
      <4>2. CASE client = "anthropic" /\ Upstream = "anthropic"
        <5>1. PICK f \in Marks : f \in DOMAIN body
          BY <3>1, <3>2, <4>2 DEF CacheControl, Among, Marks
        <5>2. Agree(sent, body, f)
          BY <3>1, <4>2, OwnWithin DEF Own
        <5>3. Kept(f)
          BY <4>2, <5>1, <5>2, KeptAlike DEF Agree, Names
        <5> QED
          BY <4>1, <5>1, <5>3 DEF Own
      <4>3. CASE client \in OpenaiFamily /\ Upstream \in OpenaiFamily
        <5>1. PICK f \in Keys : f \in DOMAIN body
          BY <3>1, <3>2, <4>3 DEF CacheControl, Among, Keys, OpenaiFamily
        <5>2. Agree(sent, body, f)
          BY <3>1, <4>3, FamilyKeepsKeys
        <5>3. f \in Names(f)
          BY AlikeKeys DEF Names, Keys
        <5>4. Kept(f)
          BY <5>1, <5>2, <5>3, KeptAlike DEF Agree
        <5> QED
          BY <4>1, <5>1, <5>4 DEF Own
      <4>4. CASE client \in OpenaiFamily /\ Upstream = "anthropic"
        <5> DEFINE f == "extra_body.anthropic.cache_control"
        <5>1. f \in DOMAIN body
          BY <3>1, <3>2, <4>4 DEF CacheControl, Has, OpenaiFamily
        <5>2. "cache_control" \in DOMAIN sent /\ sent["cache_control"] = body[f]
          BY <3>1, <4>4, <5>1, ClaudeMarks DEF Arrives
        <5>3. f \in Names(f) /\ "cache_control" \in Names(f)
          BY <4>4, AlikeKeys DEF Names, OpenaiFamily
        <5>4. Kept(f)
          BY <5>1, <5>2, <5>3, KeptAlike
        <5> QED
          BY <4>1, <5>1, <5>4 DEF Own, Extras
      <4>5. CASE client = "anthropic" /\ Upstream \in OpenaiFamily
        <5> DEFINE f == "extra_body.openai.prompt_cache_key"
        <5>1. f \in DOMAIN body
          BY <2>4, <4>5, ClaudeIsGivenAKey DEF Has
        <5>2. "prompt_cache_key" \in DOMAIN sent /\ sent["prompt_cache_key"] = body[f]
          BY <3>1, <4>5, <5>1, ClaudeKeys DEF Arrives, Keys, KeyExtra
        <5>3. f \in Names(f) /\ "prompt_cache_key" \in Names(f)
          BY <4>5, AlikeKeys DEF Names, OpenaiFamily
        <5>4. Kept(f)
          BY <5>1, <5>2, <5>3, KeptAlike
        <5> QED
          BY <4>1, <5>1, <5>4 DEF Own, Extras
      <4> QED
        BY <2>1, <4>2, <4>3, <4>4, <4>5 DEF Formats, OpenaiFamily
    <3>3. ASSUME report = "dropped"
          PROVE  reached = {}
      <4>1. client \in OpenaiFamily /\ Upstream = "anthropic" /\ ~Has(body, "extra_body.anthropic.cache_control")
        <5>1. CASE client = "anthropic"
          <6>1. Upstream \in OpenaiFamily /\ ~Has(body, "extra_body.openai.prompt_cache_key")
            BY <2>1, <3>1, <3>3, <5>1 DEF CacheControl, OpenaiFamily, Formats
          <6> QED
            BY <2>4, <5>1, <6>1, ClaudeIsGivenAKey
        <5>2. CASE client # "anthropic"
          BY <2>1, <3>1, <3>3, <5>2 DEF CacheControl, OpenaiFamily, Formats
        <5> QED
          BY <5>1, <5>2
      <4>2. \A f \in Own : f \notin DOMAIN sent
        BY <3>1, <4>1, ClaudeMarks DEF Arrives, Has
      <4>3. ASSUME NEW f \in Own, f \in DOMAIN body, Kept(f)
            PROVE  FALSE
        <5>1. \A g \in Own : Names(g) \subseteq Own
          <6>1. \A g : Names(g) = Alike(g)
            BY <4>1 DEF Names, OpenaiFamily
          <6> QED
            BY <6>1, AlikeKeys DEF Own, Keys, Marks, Extras
        <5>2. PICK mine \in Own : Reaches(mine)
          BY <4>3, <5>1 DEF Kept, Among
        <5>3. mine # EffortField(client)
          BY <4>1 DEF Own, Keys, Marks, Extras, EffortField, OpenaiFamily
        <5> QED
          BY <4>2, <5>1, <5>2, <5>3 DEF Reaches, Among
      <4> QED
        BY <2>2, <4>3 DEF Among
    <3>4. ASSUME report = "none"
          PROVE  Among(sent, IF Upstream = "anthropic" THEN Marks ELSE Keys) = {}
      <4>1. CASE client = "anthropic" /\ Upstream = "anthropic"
        <5>1. \A f \in Marks : f \notin DOMAIN body
          BY <3>1, <3>4, <4>1 DEF CacheControl, Among, Marks
        <5>2. \A f \in Marks : f \notin DOMAIN sent
          BY <3>1, <4>1, <5>1, OwnWithin DEF Agree, Own
        <5> QED
          BY <4>1, <5>2 DEF Among
      <4>2. CASE client \in OpenaiFamily /\ Upstream \in OpenaiFamily
        <5>1. \A f \in Keys : f \notin DOMAIN body
          BY <3>1, <3>4, <4>2 DEF CacheControl, Among, Keys, OpenaiFamily
        <5>2. \A f \in Keys : f \notin DOMAIN sent
          BY <3>1, <4>2, <5>1, FamilyKeepsKeys DEF Agree
        <5> QED
          BY <4>2, <5>2 DEF Among, OpenaiFamily
      <4>3. CASE client \in OpenaiFamily /\ Upstream = "anthropic"
        <5>1. "extra_body.anthropic.cache_control" \notin DOMAIN body
          BY <3>1, <3>4, <4>3 DEF CacheControl, Has, OpenaiFamily
        <5>2. \A f \in Marks : f \notin DOMAIN sent
          BY <3>1, <4>3, <5>1, ClaudeMarks DEF Arrives, Own
        <5> QED
          BY <4>3, <5>2 DEF Among
      <4>4. CASE client = "anthropic" /\ Upstream \in OpenaiFamily
        <5>1. Has(body, "extra_body.openai.prompt_cache_key")
          BY <2>4, <4>4, ClaudeIsGivenAKey
        <5> QED
          BY <3>1, <3>4, <4>4, <5>1 DEF CacheControl, OpenaiFamily
      <4> QED
        BY <2>1, <4>1, <4>2, <4>3, <4>4 DEF Formats, OpenaiFamily
    <3>5. report \in {"mapped", "preserved", "dropped", "none"}
      BY <3>1 DEF CacheControl
    <3> HIDE DEF own, reached
    <3> QED
      BY <3>2, <3>3, <3>4, <3>5
  <2> QED
    BY <2>3, <2>4
<1> QED
  BY <1>1, ProgressHolds, PTL

-----------------------------------------------------------------------------
(* The defaults of the route *)

LEMMA AgreeValue ==
    ASSUME NEW a, NEW b, NEW f, NEW default, Agree(a, b, f)
    PROVE  Value(a, f, default) = Value(b, f, default)
BY DEF Agree, Value, Has

\* The limit is the route's if the request has none, and the request's if not.
LEMMA DefaultsLimit ==
    ASSUME NEW format \in Formats, NEW b
    PROVE  /\ LimitApplies(format, b, to) =>
                /\ DefaultLimitField[format] \in DOMAIN Defaults(format, b, to)
                /\ Defaults(format, b, to)[DefaultLimitField[format]] = to.limit
           /\ \A g : g \notin ParallelFields /\ ~LimitApplies(format, b, to) => Agree(Defaults(format, b, to), b, g)
<1> DEFINE limited == With(b, DefaultLimitField[format], LimitApplies(format, b, to), to.limit)
<1>1. Defaults(format, b, to) = Gated(format, limited, to)
  BY DEF Defaults
<1>2. CASE LimitApplies(format, b, to)
  <2>1. DefaultLimitField[format] \in DOMAIN limited /\ limited[DefaultLimitField[format]] = to.limit
    BY <1>2 DEF With, Set
  <2>2. DefaultLimitField[format] \notin ParallelFields
    BY DEF DefaultLimitField, ParallelFields, Formats
  <2> HIDE DEF limited
  <2>3. Agree(Gated(format, limited, to), limited, DefaultLimitField[format])
    BY <2>2, GatedAgrees
  <2> QED
    BY <1>1, <1>2, <2>1, <2>3 DEF Agree
<1>3. CASE ~LimitApplies(format, b, to)
  <2>1. limited = b
    BY <1>3 DEF With
  <2> QED
    BY <1>1, <1>3, <2>1, GatedAgrees
<1> QED
  BY <1>2, <1>3

\* A serial model is told so, or the request said something itself.
LEMMA DefaultsSerial ==
    ASSUME NEW format \in Formats, NEW b, to.serial, ToolsOf(Defaults(format, b, to)) # <<>>,
           format = "anthropic" => Offers(Defaults(format, b, to))
    PROVE  /\ ParallelField(format) \in DOMAIN Defaults(format, b, to)
           /\ \/ Defaults(format, b, to)[ParallelField(format)] = (format = "anthropic")
              \/ /\ ParallelField(format) \in DOMAIN b
                 /\ Defaults(format, b, to)[ParallelField(format)] = b[ParallelField(format)]
<1> DEFINE limited == With(b, DefaultLimitField[format], LimitApplies(format, b, to), to.limit)
           made == Defaults(format, b, to)
           field == ParallelField(format)
<1>1. made = Gated(format, limited, to)
  BY DEF Defaults
<1>2. field \in ParallelFields
  BY DEF ParallelField, ParallelFields
<1>3. Agree(limited, b, field)
  <2>1. DefaultLimitField[format] # field
    BY DEF DefaultLimitField, ParallelField, Formats
  <2> QED
    BY <2>1, WithAgrees
<1> HIDE DEF limited
<1>4. Agree(made, limited, "tools")
  BY <1>1, GatedAgrees DEF ParallelFields
<1>5. ToolsOf(limited) # <<>>
  BY <1>4, AgreeValue DEF ToolsOf
<1>6. CASE Has(limited, field)
  <2>1. made = limited
    BY <1>1, <1>6 DEF Gated, GateApplies
  <2> QED
    BY <1>3, <1>6, <2>1 DEF Agree, Has
<1>7. CASE ~Has(limited, field)
  <2>1. GateApplies(format, limited, to)
    BY <1>5, <1>7 DEF GateApplies
  <2>2. CASE format # "anthropic"
    <3>1. made = Set(limited, field, FALSE)
      BY <1>1, <2>1, <2>2 DEF Gated, ParallelField
    <3> QED
      BY <2>2, <3>1 DEF Set
  <2>3. CASE format = "anthropic"
    <3> DEFINE choice == Value(limited, "tool_choice", Plain("auto"))
               chosen == Set(limited, "tool_choice", choice)
    <3>1. made = With(chosen, field, choice.type # "none", TRUE)
      BY <1>1, <2>1, <2>3 DEF Gated, ParallelField
    <3>2. "tool_choice" \in DOMAIN chosen /\ chosen["tool_choice"] = choice
      BY DEF Set
    <3> HIDE DEF chosen, choice
    <3>3. Agree(made, chosen, "tool_choice")
      BY <2>3, <3>1, WithAgrees DEF ParallelField
    <3>4. choice.type # "none"
      BY <2>3, <3>2, <3>3 DEF Offers, Value, Has, Agree
    <3>5. made = Set(chosen, field, TRUE)
      BY <3>1, <3>4 DEF With
    <3> QED
      BY <2>3, <3>5 DEF Set
  <2> QED
    BY <2>2, <2>3
<1> QED
  BY <1>6, <1>7

-----------------------------------------------------------------------------
(* What the surface of a model asks for *)

\* What the last defaults are applied to
Source ==
    IF client = Upstream THEN Repaired(Upstream, body, to, with.stream) ELSE Repaired(Upstream, Cleaned, to, FALSE)
Completed == Defaults(Upstream, Source, to)

LEMMA CarriageIsCompleted ==
    ASSUME Progress, stage = "sent"
    PROVE  Carriage = WithModel(Completed)
<1>1. Translated(client, Upstream, body, to, with.stream) = <<Completed>>
  <2>1. CASE client = Upstream
    BY <2>1 DEF Translated, Completed, Source
  <2>2. CASE client # Upstream
    BY <2>2, SentFacts, TranslatedParts DEF Completed, Source
  <2> QED
    BY <2>1, <2>2
<1>2. Carriage = WithModel(Translated(client, Upstream, body, to, with.stream)[1])
  BY SentFacts, RawIsTranslated DEF Carriage
<1> QED
  BY <1>1, <1>2

LEMMA SentIsCompleted ==
    ASSUME Progress, stage = "sent", NEW f, f \notin EffortNames \cup {"model", "prompt_cache_key"}
    PROVE  Agree(sent, Completed, f)
<1>1. Agree(sent, Dialected, f)
  BY SentFacts, FinalAgrees
<1>2. Agree(Dialected, Carriage, f)
  BY SentFacts, DialectedAgrees
<1>3. Agree(Carriage, Completed, f)
  BY CarriageIsCompleted, WithModelAgrees
<1> QED
  BY <1>1, <1>2, <1>3, AgreeTwice

\* What the last defaults find is what was asked for, or what was made of it.
LEMMA SourceAgrees ==
    ASSUME Progress, stage = "sent", NEW f, f \notin RepairNames
    PROVE  /\ client = Upstream => Agree(Source, body, f)
           /\ client # Upstream /\ f \notin LostNames => Agree(Source, Made[1], f)
<1>1. client = Upstream => Agree(Source, body, f)
  BY RepairedAgrees DEF Source, RepairNames
<1>2. ASSUME client # Upstream, f \notin LostNames
      PROVE  Agree(Source, Made[1], f)
  <2>1. Agree(Source, Cleaned, f)
    BY <1>2, RepairedAgrees DEF Source, RepairNames
  <2>2. Agree(Cleaned, Made[1], f)
    BY <1>2, CleanedFacts
  <2> QED
    BY <2>1, <2>2, AgreeTwice
<1> QED
  BY <1>1, <1>2

\* Without tools a Responses request gives none to Chat.
LEMMA NoToolsToChat ==
    ASSUME NEW b, NEW target, ChatOfResponses(b, target) # Nothing, ToolsOf(b) = <<>>
    PROVE  ToolsOf(ChatOfResponses(b, target)[1]) = <<>>
<1> DEFINE tools == NormalizedTools(ToolsOf(b))
           names == FunctionNames(tools)
           choice == IF Has(b, "tool_choice") THEN ChoiceOfResponses(b["tool_choice"], tools) ELSE Nothing
           logprobs == /\ "top_logprobs" \in SharedControls(target)
                       /\ Among(b, {"include.message.output_text.logprobs", "top_logprobs"}) # {}
           plain == Carried(b, FromResponses(target))
           one == With(plain, "logprobs", logprobs, TRUE)
           two == With(one, "tools", names # <<>>, [i \in DOMAIN names |-> FunctionTool(names[i])])
           three == With(two, "tool_choice", choice # Nothing, choice[1])
<1>1. ChatOfResponses(b, target)[1] = three
  BY DEF ChatOfResponses, FromResponses
<1>2. tools = <<>>
  BY DEF NormalizedTools, Those, FlattenSeq
<1>3. names = <<>>
  BY <1>2 DEF FunctionNames, FlattenSeq
<1> HIDE DEF tools, names, choice, logprobs
<1>4. two = one
  BY <1>3 DEF With
<1>5. "tools" \notin DOMAIN plain
  <2>1. \A q \in FromResponses(target) : q[2] # "tools"
    BY DEF FromResponses, ResponsesNames, SharedNames, Same
  <2> QED
    BY <2>1, NotCarried
<1> HIDE DEF plain
<1>6. Agree(one, plain, "tools")
  BY WithAgrees
<1> HIDE DEF one
<1>7. Agree(three, two, "tools")
  BY WithAgrees
<1> HIDE DEF two, three
<1>8. "tools" \notin DOMAIN three
  BY <1>4, <1>5, <1>6, <1>7 DEF Agree
<1> QED
  BY <1>1, <1>8 DEF ToolsOf, Value, Has

\* A client of the OpenAI family is not let through with parallel calls for a
\* serial model.
LEMMA SaidSerial ==
    ASSUME Progress, stage = "sent", to.serial, ToolsOf(body) # <<>>, ParallelField(client) \in DOMAIN body
    PROVE  body[ParallelField(client)] = (client = "anthropic")
<1>1. body[ParallelField(client)] \in BOOLEAN
  BY SentFacts, ValuesAssumption DEF Among, ParallelField
<1>2. ~ExplicitlyParallel(client, body)
  BY SentFacts DEF Admitted, Translatable, FitsSurface
<1> QED
  BY <1>1, <1>2 DEF ExplicitlyParallel, Value, Has, ParallelField

\* On the way through Chat a serial model is told so, or was by the client.
LEMMA ChatIsSerial ==
    ASSUME Progress, stage = "sent", client # Upstream, to.serial, ToolsOf(Chat) # <<>>
    PROVE  "parallel_tool_calls" \in DOMAIN Chat /\ Chat["parallel_tool_calls"] = FALSE
<1> DEFINE field == "parallel_tool_calls"
<1>1. ParallelField("chat") = field /\ "chat" \in Formats
  BY DEF ParallelField, Formats
<1>2. /\ field \in DOMAIN Chat
      /\ Chat[field] = FALSE \/ (field \in DOMAIN Pivoted[1] /\ Chat[field] = Pivoted[1][field])
  BY <1>1, DefaultsSerial DEF Chat
<1>3. Agree(Chat, Pivoted[1], "tools")
  BY <1>1, DefaultsAgree DEF Chat, ParallelFields, LimitNames
<1>4. ToolsOf(Pivoted[1]) # <<>>
  BY <1>3, AgreeValue DEF ToolsOf
<1>5. ASSUME field \in DOMAIN Pivoted[1]
      PROVE  Pivoted[1][field] = FALSE
  <2>1. CASE client = "chat"
    BY <1>4, <1>5, <2>1, SaidSerial DEF Pivoted, ParallelField
  <2>2. CASE client = "responses"
    <3>1. Pivoted = ChatOfResponses(body, Upstream) /\ Pivoted # Nothing
      BY <2>2, SentFacts DEF Pivoted
    <3>2. ToolsOf(body) # <<>>
      BY <1>4, <3>1, NoToolsToChat
    <3>3. Agree(Pivoted[1], Carried(body, FromResponses(Upstream)), field)
      BY <3>1, ChatOfResponsesCarries
    <3>4. <<field, field>> \in FromResponses(Upstream)
      BY DEF FromResponses, Same
    <3>5. \A q \in FromResponses(Upstream) : q[2] = field => q[1] = field
      BY DEF FromResponses, ResponsesNames, SharedNames, Same
    <3>6. Agree(Carried(body, FromResponses(Upstream)), body, field)
      BY <3>4, <3>5, CarriedField DEF Agree
    <3> QED
      BY <1>5, <2>2, <3>2, <3>3, <3>6, SaidSerial DEF Agree, ParallelField
  <2>3. CASE client = "anthropic"
    <3> DEFINE chosen == Has(body, "tool_choice")
               serial == chosen /\ Value(body, "tool_choice.disable_parallel_tool_use", FALSE)
               plain == Carried(body, FromClaude)
               one == With(plain, "tool_choice", chosen, ChoiceOfClaude(body["tool_choice"]))
    <3>1. Pivoted[1] = With(one, field, serial, FALSE)
      BY <2>3 DEF Pivoted, ChatOfClaude, FromClaude
    <3>2. \A q \in FromClaude : q[2] # field
      BY DEF FromClaude, Same
    <3>3. field \notin DOMAIN plain
      BY <3>2, NotCarried
    <3> HIDE DEF plain, serial, chosen
    <3>4. field \notin DOMAIN one
      BY <3>3, WithAgrees DEF Agree
    <3> HIDE DEF one
    <3> QED
      BY <1>5, <3>1, <3>4 DEF With, Set
  <2> QED
    BY <2>1, <2>2, <2>3, SentFacts DEF Formats
<1> QED
  BY <1>2, <1>5

LEMMA SerialIsHonoured ==
    ASSUME Progress, stage = "sent", to.serial, Offers(sent)
    PROVE  OneByOne(Upstream, sent)
<1> DEFINE field == ParallelField(Upstream)
<1>1. Upstream \in Formats /\ field \in ParallelFields
  BY SentFacts DEF ParallelField, ParallelFields
<1>2. \A f \in ParallelFields \cup {"tools"} : Agree(sent, Completed, f)
  BY SentIsCompleted DEF ParallelFields, EffortNames
<1>3. Offers(Completed)
  <2>1. Agree(sent, Completed, "tools") /\ Agree(sent, Completed, "tool_choice")
    BY <1>2 DEF ParallelFields
  <2>2. Value(sent, "tools", <<>>) = Value(Completed, "tools", <<>>)
        /\ Value(sent, "tool_choice", Plain("auto")) = Value(Completed, "tool_choice", Plain("auto"))
    BY <2>1, AgreeValue
  <2> QED
    BY <2>2 DEF Offers, ToolsOf
<1>4. /\ field \in DOMAIN Completed
      /\ Completed[field] = (Upstream = "anthropic") \/ (field \in DOMAIN Source /\ Completed[field] = Source[field])
  <2>1. ToolsOf(Completed) # <<>>
    BY <1>3 DEF Offers
  <2> QED
    BY <1>1, <1>3, <2>1, DefaultsSerial DEF Completed
<1>5. ToolsOf(Source) # <<>>
  <2>1. Agree(Completed, Source, "tools")
    BY <1>1, DefaultsAgree DEF Completed, ParallelFields, LimitNames
  <2> QED
    BY <1>3, <2>1, AgreeValue DEF Offers, ToolsOf
<1>6. ASSUME field \in DOMAIN Source
      PROVE  Source[field] = (Upstream = "anthropic")
  <2>1. field \notin RepairNames \cup LostNames /\ "tools" \notin RepairNames \cup LostNames
    BY <1>1 DEF ParallelFields, RepairNames, LostNames
  <2>2. CASE client = Upstream
    <3>1. Agree(Source, body, field) /\ Agree(Source, body, "tools")
      BY <2>1, <2>2, SourceAgrees
    <3>2. ToolsOf(body) # <<>>
      BY <1>5, <3>1, AgreeValue DEF ToolsOf
    <3> QED
      BY <1>6, <2>2, <3>1, <3>2, SaidSerial DEF Agree
  <2>3. CASE client # Upstream
    <3>1. Agree(Source, Made[1], field) /\ Agree(Source, Made[1], "tools")
      BY <2>1, <2>3, SourceAgrees
    <3>2. ToolsOf(Made[1]) # <<>>
      BY <1>5, <3>1, AgreeValue DEF ToolsOf
    <3>3. CASE Upstream = "chat"
      <4>1. Made[1] = Chat
        BY <3>3 DEF Made
      <4> QED
        BY <1>6, <2>3, <3>1, <3>2, <3>3, <4>1, ChatIsSerial DEF Agree, ParallelField
    <3>4. CASE Upstream = "responses"
      <4>1. Made = ResponsesOfChat(Chat) /\ Made # Nothing
        BY <2>3, <3>4, SentFacts DEF Made
      <4>3. Agree(Made[1], Chat, "tools") /\ Agree(Made[1], Chat, "parallel_tool_calls")
        BY <4>1, ResponsesKeeps DEF ToResponsesRemoved, ToResponsesRenamed
      <4>4. ToolsOf(Chat) # <<>>
        BY <3>2, <4>3, AgreeValue DEF ToolsOf
      <4>5. Chat["parallel_tool_calls"] = FALSE /\ "parallel_tool_calls" \in DOMAIN Chat
        BY <2>3, <4>4, ChatIsSerial
      <4> QED
        BY <1>6, <3>1, <3>4, <4>3, <4>5 DEF Agree, ParallelField
    <3>5. CASE Upstream = "anthropic"
      <4>1. Made = ClaudeOfChat(Chat, to.rejects) /\ Made # Nothing
        BY <2>3, <3>5, SentFacts DEF Made
      <4>2. field \in DOMAIN Made[1] /\ Source[field] = Made[1][field]
        BY <1>6, <3>1 DEF Agree
      <4> QED
        <5>1. field = "tool_choice.disable_parallel_tool_use"
          BY <3>5 DEF ParallelField
        <5>2. Made[1][field] = TRUE
          BY <4>1, <4>2, <5>1, ClaudeOfChatIsSerial
        <5> QED
          BY <3>5, <4>2, <5>2
    <3> QED
      BY <1>1, <3>3, <3>4, <3>5 DEF Formats
  <2> QED
    BY <2>2, <2>3
<1>7. field \in DOMAIN sent /\ sent[field] = (Upstream = "anthropic")
  BY <1>1, <1>2, <1>4, <1>6 DEF Agree
<1> QED
  BY <1>7 DEF OneByOne, ParallelField, Value, Has

\* No client's limit becomes one of the Chat request in between but the client's own.
LEMMA NoLimitInChat ==
    ASSUME Progress, stage = "sent", client # Upstream, Among(body, LimitFields(client)) = {}
    PROVE  Among(Pivoted[1], {"max_completion_tokens", "max_tokens"}) = {}
<1>1. CASE client = "chat"
  BY <1>1 DEF Pivoted, LimitFields
<1>2. CASE client = "responses"
  <2>1. Pivoted = ChatOfResponses(body, Upstream) /\ Pivoted # Nothing
    BY <1>2, SentFacts DEF Pivoted
  <2>2. "max_output_tokens" \notin DOMAIN body
    BY <1>2 DEF LimitFields, Among
  <2>3. \A q \in FromResponses(Upstream) :
          q[2] \in {"max_completion_tokens", "max_tokens"} => q[1] = "max_output_tokens"
    BY DEF FromResponses, ResponsesNames, SharedNames, Same
  <2>4. \A f \in {"max_completion_tokens", "max_tokens"} : f \notin DOMAIN Carried(body, FromResponses(Upstream))
    BY <2>2, <2>3, CarriedFacts
  <2>5. \A f \in {"max_completion_tokens", "max_tokens"} : Agree(Pivoted[1], Carried(body, FromResponses(Upstream)), f)
    BY <2>1, ChatOfResponsesCarries
  <2> QED
    BY <2>4, <2>5 DEF Agree, Among
<1>3. CASE client = "anthropic"
  <2>1. Pivoted[1] = ChatOfClaude(body)
    BY <1>3 DEF Pivoted
  <2>2. "max_tokens" \notin DOMAIN body
    BY <1>3 DEF LimitFields, Among
  <2>3. \A q \in FromClaude : q[2] \in {"max_completion_tokens", "max_tokens"} => q[1] = "max_tokens"
    BY DEF FromClaude, Same
  <2>4. \A f \in {"max_completion_tokens", "max_tokens"} : f \notin DOMAIN Carried(body, FromClaude)
    BY <2>2, <2>3, CarriedFacts
  <2>5. \A f \in {"max_completion_tokens", "max_tokens"} : Agree(Pivoted[1], Carried(body, FromClaude), f)
    BY <2>1, ChatOfClaudeCarries
  <2> QED
    BY <2>4, <2>5 DEF Agree, Among
<1> QED
  BY <1>1, <1>2, <1>3, SentFacts DEF Formats

LEMMA LimitIsHonoured ==
    ASSUME Progress, stage = "sent", to.limit # 0, Among(body, LimitFields(client)) = {}
    PROVE  \E field \in Among(sent, LimitFields(Upstream)) : sent[field] = to.limit
<1> DEFINE default == DefaultLimitField[Upstream]
<1>1. Upstream \in Formats /\ "chat" \in Formats
  BY SentFacts DEF Formats
<1>2. default \in LimitFields(Upstream) /\ default \in LimitNames /\ LimitFields(Upstream) \subseteq LimitNames
  BY <1>1 DEF DefaultLimitField, LimitFields, LimitNames, Formats
<1>3. default \in DOMAIN Completed /\ Completed[default] = to.limit
  <2>1. CASE client = Upstream
    <3>1. \A f \in LimitNames : Agree(Source, body, f)
      BY <2>1, SourceAgrees DEF LimitNames, RepairNames
    <3>2. LimitApplies(Upstream, Source, to)
      BY <1>2, <2>1, <3>1 DEF LimitApplies, Among, Agree
    <3> QED
      BY <1>1, <3>2, DefaultsLimit DEF Completed
  <2>2. CASE client # Upstream
    <3>1. Chat["max_completion_tokens"] = to.limit /\ "max_completion_tokens" \in DOMAIN Chat
      <4>1. LimitApplies("chat", Pivoted[1], to)
        BY <2>2, NoLimitInChat DEF LimitApplies, LimitFields
      <4> QED
        BY <1>1, <4>1, DefaultsLimit DEF Chat, DefaultLimitField
    <3>2. default \in DOMAIN Made[1] /\ Made[1][default] = to.limit
      <4>1. CASE Upstream = "chat"
        BY <3>1, <4>1 DEF Made, DefaultLimitField
      <4>2. CASE Upstream = "responses"
        <5>1. Made = ResponsesOfChat(Chat) /\ Made # Nothing
          BY <2>2, <4>2, SentFacts DEF Made
        <5>2. default = "max_output_tokens"
          BY <4>2 DEF DefaultLimitField
        <5>3. Value(Chat, "max_completion_tokens", Value(Chat, "max_tokens", 0)) = to.limit
          BY <3>1 DEF Value, Has
        <5>4. Among(Chat, {"max_completion_tokens", "max_tokens"}) # {}
          BY <3>1 DEF Among
        <5> QED
          BY <5>1, <5>2, <5>3, <5>4, ResponsesOfChatLimit
      <4>3. CASE Upstream = "anthropic"
        <5>1. Made = ClaudeOfChat(Chat, to.rejects) /\ Made # Nothing
          BY <2>2, <4>3, SentFacts DEF Made
        <5>2. default = "max_tokens"
          BY <4>3 DEF DefaultLimitField
        <5>3. Value(Chat, "max_completion_tokens", Value(Chat, "max_tokens", 4096)) = to.limit
          BY <3>1 DEF Value, Has
        <5> QED
          BY <5>1, <5>2, <5>3, ClaudeOfChatCarries
      <4> QED
        BY <1>1, <4>1, <4>2, <4>3 DEF Formats
    <3>3. Agree(Source, Made[1], default)
      BY <1>2, <2>2, SourceAgrees DEF LimitNames, RepairNames, LostNames
    <3>4. ~LimitApplies(Upstream, Source, to)
      BY <1>2, <3>2, <3>3 DEF LimitApplies, Among, Agree
    <3>5. Agree(Completed, Source, default)
      BY <1>1, <1>2, <3>4, DefaultsLimit DEF Completed, LimitNames, ParallelFields
    <3> QED
      BY <3>2, <3>3, <3>5 DEF Agree
  <2> QED
    BY <2>1, <2>2
<1>4. Agree(sent, Completed, default)
  BY <1>2, SentIsCompleted DEF LimitNames, EffortNames
<1> QED
  BY <1>2, <1>3, <1>4 DEF Agree, Among

LEMMA EffortValue ==
    ASSUME NEW format, NEW b
    PROVE  /\ ClientEffort(format, b) # Nothing <=> EffortField(format) \in DOMAIN b /\ b[EffortField(format)] \in 0..7
           /\ ClientEffort(format, b) # Nothing => ClientEffort(format, b)[1] = b[EffortField(format)]
<1>1. CASE EffortField(format) \in DOMAIN b /\ b[EffortField(format)] \in 0..7
  BY <1>1 DEF ClientEffort, Value, Has, Nothing
<1>2. CASE ~(EffortField(format) \in DOMAIN b /\ b[EffortField(format)] \in 0..7)
  <2>1. Value(b, EffortField(format), 8) \notin 0..7
    BY <1>2 DEF Value, Has
  <2> QED
    BY <1>2, <2>1 DEF ClientEffort
<1> QED
  BY <1>1, <1>2

LEMMA CeilingIsLevel ==
    ASSUME to \in Routes
    PROVE  Ceiling(to.dialect) \in 0..7
<1>1. to.dialect.levels \subseteq 0..7
  BY RoutesAssumption
<1>2. CASE to.dialect.levels # {}
  <2> DEFINE levels == to.dialect.levels
  <2>1. levels \subseteq 0..7 /\ levels # {}
    BY <1>1, <1>2
  <2> HIDE DEF levels
  <2>2. \E x \in levels : \A y \in levels : x >= y
    <3>1. PICK z \in levels : z \in 0..7
      BY <2>1
    <3>2. CASE 7 \in levels
      BY <2>1, <3>2
    <3>3. CASE 7 \notin levels /\ 6 \in levels
      BY <2>1, <3>3
    <3>4. CASE {6, 7} \cap levels = {} /\ 5 \in levels
      BY <2>1, <3>4
    <3>5. CASE {5, 6, 7} \cap levels = {} /\ 4 \in levels
      BY <2>1, <3>5
    <3>6. CASE {4, 5, 6, 7} \cap levels = {} /\ 3 \in levels
      BY <2>1, <3>6
    <3>7. CASE {3, 4, 5, 6, 7} \cap levels = {} /\ 2 \in levels
      BY <2>1, <3>7
    <3>8. CASE {2, 3, 4, 5, 6, 7} \cap levels = {}
      BY <2>1, <3>1, <3>8
    <3> QED
      BY <3>2, <3>3, <3>4, <3>5, <3>6, <3>7, <3>8
  <2>3. Max(levels) \in levels
    BY <2>2 DEF Max
  <2> QED
    BY <1>2, <2>1, <2>3 DEF Ceiling, levels
<1>3. CASE to.dialect.levels = {}
  BY <1>3 DEF Ceiling
<1> QED
  BY <1>2, <1>3

\* Where the dialect writes nothing, there is no effort but in an extra_body.
LEMMA NoEffortAcross ==
    ASSUME Progress, stage = "sent", client # Upstream, Asking = Nothing, ~Has(body, "extra_body.openai.reasoning_effort")
    PROVE  ClientEffort(Upstream, Made[1]) = Nothing
<1>1. ~(EffortField(client) \in DOMAIN body /\ body[EffortField(client)] \in 0..7)
  BY EffortValue DEF Asking
<1>2. \A f : f \notin ParallelFields \cup LimitNames => Agree(Chat, Pivoted[1], f)
  BY DefaultsAgree DEF Chat, Formats
<1>3. CASE client = "anthropic" /\ Upstream \in OpenaiFamily
  <2>1. Pivoted[1] = ChatOfClaude(body)
    BY <1>3 DEF Pivoted
  <2>2. \A q \in FromClaude :
          q[2] \in {"reasoning_effort", "reasoning.effort"} => q[1] = "extra_body.openai.reasoning_effort"
    BY DEF FromClaude, Same
  <2>3. \A f \in {"reasoning_effort", "reasoning.effort"} : f \notin DOMAIN Carried(body, FromClaude)
    BY <2>2, CarriedFacts DEF Has
  <2>4. \A f \in {"reasoning_effort", "reasoning.effort"} : f \notin DOMAIN Chat
    <3>1. \A f \in {"reasoning_effort", "reasoning.effort"} : Agree(Pivoted[1], Carried(body, FromClaude), f)
      BY <2>1, ChatOfClaudeCarries
    <3>2. \A f \in {"reasoning_effort", "reasoning.effort"} : Agree(Chat, Pivoted[1], f)
      BY <1>2 DEF ParallelFields, LimitNames
    <3> QED
      BY <2>3, <3>1, <3>2 DEF Agree
  <2>5. CASE Upstream = "chat"
    BY <2>4, <2>5, EffortValue DEF Made, EffortField
  <2>6. CASE Upstream = "responses"
    <3>1. Made = ResponsesOfChat(Chat) /\ Made # Nothing
      BY <1>3, <2>6, SentFacts DEF Made
    <3>2. \A q \in ToResponses(Chat) : q[2] = "reasoning.effort" => q[1] \in {"reasoning_effort", "reasoning.effort"}
      BY DEF ToResponses, ToResponsesRenamed, Same
    <3>3. "reasoning.effort" \notin DOMAIN Carried(Chat, ToResponses(Chat))
      BY <2>4, <3>2, CarriedFacts
    <3>4. Agree(Made[1], Carried(Chat, ToResponses(Chat)), "reasoning.effort")
      BY <3>1, ResponsesOfChatCarries
    <3> QED
      BY <2>6, <3>3, <3>4, EffortValue DEF Agree, EffortField
  <2> QED
    BY <1>3, <2>5, <2>6 DEF OpenaiFamily
<1>4. CASE client = "responses" /\ Upstream = "chat"
  <2>1. Pivoted = ChatOfResponses(body, "chat") /\ Pivoted # Nothing /\ Made[1] = Chat
    BY <1>4, SentFacts DEF Pivoted, Made
  <2>2. <<"reasoning.effort", "reasoning_effort">> \in FromResponses("chat")
    BY DEF FromResponses, ResponsesNames, SharedControls, SharedNames
  <2>3. \A q \in FromResponses("chat") : q[2] = "reasoning_effort" => q[1] = "reasoning.effort"
    BY DEF FromResponses, ResponsesNames, SharedNames, Same
  <2>4. Arrives(Carried(body, FromResponses("chat")), "reasoning_effort", body, "reasoning.effort")
    BY <2>2, <2>3, CarriedField DEF Arrives
  <2>5. Agree(Pivoted[1], Carried(body, FromResponses("chat")), "reasoning_effort")
    BY <2>1, ChatOfResponsesCarries
  <2>6. Agree(Chat, Pivoted[1], "reasoning_effort")
    BY <1>2 DEF ParallelFields, LimitNames
  <2>7. Arrives(Made[1], "reasoning_effort", body, "reasoning.effort")
    BY <2>1, <2>4, <2>5, <2>6 DEF Agree, Arrives
  <2> QED
    BY <1>1, <1>4, <2>7, EffortValue DEF Arrives, EffortField
<1>5. CASE client = "chat" /\ Upstream = "responses"
  <2>1. Made = ResponsesOfChat(Chat) /\ Made # Nothing /\ Pivoted[1] = body
    BY <1>5, SentFacts DEF Made, Pivoted
  <2>2. Agree(Chat, body, "reasoning_effort") /\ Agree(Chat, body, "reasoning.effort")
    BY <1>2, <2>1 DEF ParallelFields, LimitNames
  <2>3. "reasoning.effort" \notin DOMAIN body
    <3>1. DOMAIN body \subseteq Fields["chat"]
      BY <1>5, SentFacts, BodiesAssumption
    <3> QED
      BY <3>1 DEF Fields, FieldsOfAll, FieldsOfFamily
  <2>4. <<"reasoning_effort", "reasoning.effort">> \in ToResponses(Chat)
    BY DEF ToResponses, ToResponsesRenamed
  <2>5. \A q \in ToResponses(Chat) : q[2] = "reasoning.effort" => q[1] = "reasoning_effort"
    BY <2>2, <2>3 DEF ToResponses, ToResponsesRenamed, Same, Agree
  <2>6. Arrives(Carried(Chat, ToResponses(Chat)), "reasoning.effort", Chat, "reasoning_effort")
    BY <2>4, <2>5, CarriedField DEF Arrives
  <2>7. Agree(Made[1], Carried(Chat, ToResponses(Chat)), "reasoning.effort")
    BY <2>1, ResponsesOfChatCarries
  <2>8. Arrives(Made[1], "reasoning.effort", body, "reasoning_effort")
    BY <2>2, <2>6, <2>7 DEF Agree, Arrives
  <2> QED
    BY <1>1, <1>5, <2>8, EffortValue DEF Arrives, EffortField
<1>6. CASE Upstream = "anthropic"
  <2>1. Made = ClaudeOfChat(Chat, to.rejects) /\ Made # Nothing
    BY <1>6, SentFacts DEF Made
  <2>2. \A q \in ToClaude : q[2] # "output_config.effort"
    BY DEF ToClaude, Same
  <2>3. "output_config.effort" \notin DOMAIN Carried(Chat, ToClaude)
    BY <2>2, NotCarried
  <2>4. "output_config.effort" \notin Withheld(Chat, to.rejects)
    BY DEF Withheld, Among
  <2>5. Agree(Made[1], Carried(Chat, ToClaude), "output_config.effort")
    BY <2>1, <2>4, ClaudeOfChatCarries
  <2> QED
    BY <1>6, <2>3, <2>5, EffortValue DEF Agree, EffortField
<1> QED
  BY <1>3, <1>4, <1>5, <1>6, SentFacts DEF Formats, OpenaiFamily

\* A dialect of the upstream's own leaves an effort below its ceiling, or none.
LEMMA DialectBounds ==
    ASSUME NEW b, NEW format \in Formats, NEW dialect, dialect.mechanism \in Mechanisms, Ceiling(dialect) \in 0..7,
           NEW effort \in 0..7, ClientEffort(format, Emitted(b, format, dialect, effort)) # Nothing,
           MapsReasoning(dialect) =>
                dialect.mechanism = IF format = "anthropic" THEN "anthropic-effort" ELSE "openai-effort"
    PROVE  MapsReasoning(dialect) /\ ClientEffort(format, Emitted(b, format, dialect, effort))[1] <= Ceiling(dialect)
<1> DEFINE level == IF effort > Ceiling(dialect) THEN Ceiling(dialect) ELSE effort
           bare == Without(b, {name \in {"reasoning_effort"} : format = "responses"})
           made == Emitted(b, format, dialect, effort)
<1>1. level <= Ceiling(dialect)
  OBVIOUS
<1> HIDE DEF level, bare
<1>2. CASE ~MapsReasoning(dialect)
  <2> DEFINE removed == {EffortField(format)} \cup {name \in {"thinking"} : format = "anthropic"}
  <2>1. dialect.mechanism \in {"auto-only", "none"}
    BY <1>2 DEF MapsReasoning, Mechanisms
  <2>2. made = Without(bare, removed)
    BY <2>1 DEF Emitted, bare
  <2>3. EffortField(format) \notin DOMAIN made
    BY <2>2 DEF Without, Restrict
  <2> QED
    BY <2>3, EffortValue
<1>3. CASE MapsReasoning(dialect)
  <2>1. CASE format = "anthropic"
    <3>1. made = Set(b, "output_config.effort", level)
      BY <1>3, <2>1 DEF Emitted, level
    <3>2. made["output_config.effort"] = level
      BY <3>1 DEF Set
    <3>3. EffortField(format) = "output_config.effort"
      BY <2>1 DEF EffortField
    <3> QED
      BY <1>1, <1>3, <3>2, <3>3, EffortValue
  <2>2. CASE format # "anthropic"
    <3>1. made = Set(bare, EffortField(format), level)
      BY <1>3, <2>2 DEF Emitted, level, bare, EffortField, Formats
    <3>2. made[EffortField(format)] = level
      BY <3>1 DEF Set
    <3> QED
      BY <1>1, <1>3, <3>2, EffortValue
  <2> QED
    BY <2>1, <2>2
<1> QED
  BY <1>2, <1>3

LEMMA EffortIsHonoured ==
    ASSUME Progress, stage = "sent", to.dialect # NoDialect, ClientEffort(Upstream, sent) # Nothing,
           ~Has(body, "extra_body.openai.reasoning_effort"),
           MapsReasoning(to.dialect) => to.dialect.mechanism = OwnMechanism
    PROVE  MapsReasoning(to.dialect) /\ ClientEffort(Upstream, sent)[1] <= Ceiling(to.dialect)
<1> DEFINE field == EffortField(Upstream)
<1>1. Upstream \in Formats /\ to \in Routes
  BY SentFacts
<1>2. field \in EffortNames /\ field # "prompt_cache_key" /\ field \notin RepairNames \cup LostNames
      /\ field \notin ParallelFields \cup LimitNames
  BY <1>1 DEF EffortField, EffortNames, Formats, RepairNames, LostNames, ParallelFields, LimitNames
<1>3. Agree(sent, Dialected, field)
  BY <1>2, SentFacts, FinalAgrees
<1>4. /\ ClientEffort(Upstream, Dialected) # Nothing
      /\ ClientEffort(Upstream, sent)[1] = ClientEffort(Upstream, Dialected)[1]
  BY <1>3, EffortValue DEF Agree
<1>5. CASE Dialects
  <2>1. Dialected = Emitted(Carriage, Upstream, to.dialect, Asking[1])
    BY <1>5 DEF Dialected
  <2>2. Asking[1] \in 0..7
    BY <1>5, EffortValue DEF Dialects, Asking
  <2>3. to.dialect.mechanism \in Mechanisms /\ Ceiling(to.dialect) \in 0..7
    BY <1>1, <1>5, RoutesAssumption, CeilingIsLevel DEF Dialects
  <2>4. MapsReasoning(to.dialect) =>
          to.dialect.mechanism = IF Upstream = "anthropic" THEN "anthropic-effort" ELSE "openai-effort"
    BY DEF OwnMechanism
  <2>5. MapsReasoning(to.dialect) /\ ClientEffort(Upstream, Dialected)[1] <= Ceiling(to.dialect)
    BY <1>1, <1>4, <2>1, <2>2, <2>3, <2>4, DialectBounds
  <2> QED
    BY <1>4, <2>5
<1>6. CASE ~Dialects
  <2>1. Asking = Nothing /\ Dialected = Carriage
    BY <1>6 DEF Dialects, Dialected
  <2>2. Agree(Carriage, Completed, field)
    BY <1>2, CarriageIsCompleted, WithModelAgrees DEF RepairNames
  <2>3. Agree(Completed, Source, field)
    BY <1>1, <1>2, DefaultsAgree DEF Completed
  <2>4. CASE client = Upstream
    <3>1. Agree(Source, body, field)
      BY <1>2, <2>4, SourceAgrees
    <3>2. ClientEffort(Upstream, body) = Nothing
      BY <2>1, <2>4 DEF Asking
    <3> QED
      BY <1>4, <2>1, <2>2, <2>3, <3>1, <3>2, EffortValue DEF Agree
  <2>5. CASE client # Upstream
    <3>1. Agree(Source, Made[1], field)
      BY <1>2, <2>5, SourceAgrees
    <3>2. ClientEffort(Upstream, Made[1]) = Nothing
      BY <2>1, <2>5, NoEffortAcross
    <3> QED
      BY <1>4, <2>1, <2>2, <2>3, <3>1, <3>2, EffortValue DEF Agree
  <2> QED
    BY <2>4, <2>5
<1> QED
  BY <1>5, <1>6

\* What the surface and the dialect of a model ask for holds of every request that
\* reaches it: the gate, the limit and the ceiling are applied on each path
\* (translate_request_with_policy, apply_dialect_reasoning_emit), or the request
\* that is forwarded as it came satisfied them.
THEOREM SurfaceIsRespected == Spec => []SurfaceIsHonoured
<1>1. Progress => SurfaceIsHonoured
  BY SerialIsHonoured, LimitIsHonoured, EffortIsHonoured DEF SurfaceIsHonoured
<1> QED
  BY <1>1, ProgressHolds, PTL

-----------------------------------------------------------------------------
(* What becomes of each control *)

\* Fields that no step touches after the translation
Touched == ParallelFields \cup LimitNames \cup RepairNames \cup EffortNames \cup {"prompt_cache_key"}

LEMMA SentBody ==
    ASSUME Progress, stage = "sent", client = Upstream, NEW f, f \notin Touched
    PROVE  Agree(sent, body, f)
<1>1. Agree(sent, Dialected, f)
  BY SentFacts, FinalAgrees DEF Touched
<1>2. Agree(Dialected, Carriage, f)
  BY SentFacts, DialectedAgrees DEF Touched
<1>3. Agree(Carriage, body, f)
  BY SentFacts, WithinAgrees DEF Touched
<1> QED
  BY <1>1, <1>2, <1>3, AgreeTwice

LEMMA SentMade ==
    ASSUME Progress, stage = "sent", client # Upstream, NEW f, f \notin Touched \cup LostNames
    PROVE  Agree(sent, Made[1], f)
<1>1. Agree(sent, Dialected, f)
  BY SentFacts, FinalAgrees DEF Touched
<1>2. Agree(Dialected, Carriage, f)
  BY SentFacts, DialectedAgrees DEF Touched
<1>3. Agree(Carriage, Cleaned, f)
  BY SentFacts, CarriesCleaned DEF Touched
<1>4. Agree(Cleaned, Made[1], f)
  BY CleanedFacts DEF Touched
<1> QED
  BY <1>1, <1>2, <1>3, <1>4, AgreeTwice

LEMMA ChatAgrees ==
    ASSUME NEW f, f \notin ParallelFields \cup LimitNames
    PROVE  Agree(Chat, Pivoted[1], f)
BY DefaultsAgree DEF Chat, Formats

\* No two fields become one.
Unmixed(renamings) == \A p, q \in renamings : p[2] = q[2] => p[1] = q[1]

LEMMA UnmixedArrive ==
    ASSUME NEW b, NEW renamings, Unmixed(renamings), NEW mine, NEW theirs, <<mine, theirs>> \in renamings
    PROVE  Arrives(Carried(b, renamings), theirs, b, mine)
<1>1. \A q \in renamings : q[2] = theirs => q[1] = mine
  BY DEF Unmixed
<1> QED
  BY <1>1, CarriedField DEF Arrives

LEMMA RenamingsAreUnmixed ==
    /\ \A target : Unmixed(FromResponses(target))
    /\ Unmixed(FromClaude)
    /\ Unmixed(ToClaude)
<1>1. ASSUME NEW target
      PROVE  Unmixed(FromResponses(target))
  BY DEF Unmixed, FromResponses, ResponsesNames, SharedNames, Same
<1>2. Unmixed(FromClaude)
  BY DEF Unmixed, FromClaude, Same
<1>3. Unmixed(ToClaude)
  BY DEF Unmixed, ToClaude, Same
<1> QED
  BY <1>1, <1>2, <1>3

\* From the client to Chat
LEMMA ResponsesToChat ==
    ASSUME Progress, stage = "sent", client = "responses", Upstream # "responses",
           NEW theirs, theirs \notin {"logprobs", "tools", "tool_choice"} \cup ParallelFields \cup LimitNames
    PROVE  /\ \A mine : <<mine, theirs>> \in FromResponses(Upstream) => Arrives(Chat, theirs, body, mine)
           /\ (\A q \in FromResponses(Upstream) : q[2] # theirs) => theirs \notin DOMAIN Chat
<1>1. Agree(Chat, Pivoted[1], theirs)
  BY ChatAgrees
<1>2. Pivoted = ChatOfResponses(body, Upstream) /\ Pivoted # Nothing
  BY SentFacts DEF Pivoted
<1>3. Agree(Pivoted[1], Carried(body, FromResponses(Upstream)), theirs)
  BY <1>2, ChatOfResponsesCarries
<1>4. Agree(Chat, Carried(body, FromResponses(Upstream)), theirs)
  BY <1>1, <1>3, AgreeTwice
<1>5. ASSUME NEW mine, <<mine, theirs>> \in FromResponses(Upstream)
      PROVE  Arrives(Chat, theirs, body, mine)
  <2>1. Arrives(Carried(body, FromResponses(Upstream)), theirs, body, mine)
    BY <1>5, UnmixedArrive, RenamingsAreUnmixed
  <2> QED
    BY <1>4, <2>1, AgreeArrives
<1>6. ASSUME \A q \in FromResponses(Upstream) : q[2] # theirs
      PROVE  theirs \notin DOMAIN Chat
  BY <1>4, <1>6, NotCarried DEF Agree
<1> QED
  BY <1>5, <1>6

LEMMA ClaudeToChat ==
    ASSUME client = "anthropic", NEW theirs, theirs \notin ParallelFields \cup LimitNames
    PROVE  /\ \A mine : <<mine, theirs>> \in FromClaude => Arrives(Chat, theirs, body, mine)
           /\ (\A q \in FromClaude : q[2] # theirs) => theirs \notin DOMAIN Chat
<1>1. Agree(Chat, Pivoted[1], theirs)
  BY ChatAgrees
<1>2. Agree(Pivoted[1], Carried(body, FromClaude), theirs)
  BY ChatOfClaudeCarries DEF Pivoted, ParallelFields
<1>3. Agree(Chat, Carried(body, FromClaude), theirs)
  BY <1>1, <1>2, AgreeTwice
<1>4. ASSUME NEW mine, <<mine, theirs>> \in FromClaude
      PROVE  Arrives(Chat, theirs, body, mine)
  <2>1. Arrives(Carried(body, FromClaude), theirs, body, mine)
    BY <1>4, UnmixedArrive, RenamingsAreUnmixed
  <2> QED
    BY <1>3, <2>1, AgreeArrives
<1>5. ASSUME \A q \in FromClaude : q[2] # theirs
      PROVE  theirs \notin DOMAIN Chat
  BY <1>3, <1>5, NotCarried DEF Agree
<1> QED
  BY <1>4, <1>5

\* and from Chat to the upstream
LEMMA ChatToClaude ==
    ASSUME Progress, stage = "sent", client # "anthropic", Upstream = "anthropic",
           NEW theirs, theirs \notin {"tool_choice", "tool_choice.disable_parallel_tool_use", "output_config.format", "tools",
                                      "max_tokens"} \cup Withheld(Chat, to.rejects)
    PROVE  /\ \A mine : <<mine, theirs>> \in ToClaude => Arrives(Made[1], theirs, Chat, mine)
           /\ (\A q \in ToClaude : q[2] # theirs) => theirs \notin DOMAIN Made[1]
<1>1. Made = ClaudeOfChat(Chat, to.rejects) /\ Made # Nothing
  BY SentFacts DEF Made
<1>2. Agree(Made[1], Carried(Chat, ToClaude), theirs)
  BY <1>1, ClaudeOfChatCarries
<1>3. ASSUME NEW mine, <<mine, theirs>> \in ToClaude
      PROVE  Arrives(Made[1], theirs, Chat, mine)
  <2>1. Arrives(Carried(Chat, ToClaude), theirs, Chat, mine)
    BY <1>3, UnmixedArrive, RenamingsAreUnmixed
  <2> QED
    BY <1>2, <2>1, AgreeArrives
<1>4. ASSUME \A q \in ToClaude : q[2] # theirs
      PROVE  theirs \notin DOMAIN Made[1]
  BY <1>2, <1>4, NotCarried DEF Agree
<1> QED
  BY <1>3, <1>4

LEMMA ChatToResponses ==
    ASSUME Progress, stage = "sent", client # "responses", Upstream = "responses", NEW f
    PROVE  /\ f \notin ToResponsesRemoved \cup {r[2] : r \in ToResponsesRenamed}
                       \cup {"include.message.output_text.logprobs", "max_output_tokens", "tool_choice"} =>
                Agree(Made[1], Chat, f)
           /\ f \in ToResponsesRemoved => f \notin DOMAIN Made[1]
           /\ \A mine : <<mine, f>> \in ToResponsesRenamed /\ f \notin DOMAIN Chat => Arrives(Made[1], f, Chat, mine)
<1>1. Made = ResponsesOfChat(Chat) /\ Made # Nothing
  BY SentFacts DEF Made
<1>2. f \notin {"include.message.output_text.logprobs", "max_output_tokens", "tool_choice"} =>
        Agree(Made[1], Carried(Chat, ToResponses(Chat)), f)
  BY <1>1, ResponsesOfChatCarries
<1>3. ASSUME f \in ToResponsesRemoved
      PROVE  f \notin DOMAIN Made[1]
  <2>1. f \notin {"include.message.output_text.logprobs", "max_output_tokens", "tool_choice"}
    BY <1>3 DEF ToResponsesRemoved, ToResponsesRenamed
  <2>2. \A q \in ToResponsesRenamed : q[2] # f
    BY <1>3 DEF ToResponsesRemoved, ToResponsesRenamed
  <2>3. \A q \in Same(DOMAIN Chat \ ToResponsesRemoved) : q[2] # f
    BY <1>3 DEF Same
  <2>4. f \notin DOMAIN Carried(Chat, ToResponses(Chat))
    BY <2>2, <2>3, NotCarried DEF ToResponses
  <2> QED
    BY <1>2, <2>1, <2>4 DEF Agree
<1>4. ASSUME NEW mine, <<mine, f>> \in ToResponsesRenamed, f \notin DOMAIN Chat
      PROVE  Arrives(Made[1], f, Chat, mine)
  <2>1. f \notin {"include.message.output_text.logprobs", "max_output_tokens", "tool_choice"}
    BY <1>4 DEF ToResponsesRenamed
  <2>2. <<mine, f>> \in ToResponses(Chat)
    BY <1>4 DEF ToResponses
  <2>3. \A q \in ToResponsesRenamed : q[2] = f => q[1] = mine
    BY <1>4 DEF ToResponsesRenamed
  <2>4. \A q \in Same(DOMAIN Chat \ ToResponsesRemoved) : q[2] # f
    BY <1>4 DEF Same
  <2>5. \A q \in ToResponses(Chat) : q[2] = f => q[1] = mine
    BY <2>3, <2>4 DEF ToResponses
  <2>6. Arrives(Carried(Chat, ToResponses(Chat)), f, Chat, mine)
    BY <2>2, <2>5, CarriedField DEF Arrives
  <2> QED
    BY <1>2, <2>1, <2>6, AgreeArrives
<1> QED
  BY <1>1, <1>3, <1>4, ResponsesKeeps

\* What is kept
LEMMA ArrivedIsKept ==
    ASSUME NEW f, NEW g, f \in DOMAIN body, g \in Names(f), Arrives(sent, g, body, f)
    PROVE  Reaches(f) /\ Kept(f)
<1>1. Reaches(f)
  BY DEF Reaches, Among, Arrives
<1>2. f \in Names(f)
  BY InAlike DEF Names
<1> QED
  BY <1>1, <1>2 DEF Kept, Among

LEMMA AgreedIsKept ==
    ASSUME NEW f, f \in DOMAIN body, Agree(sent, body, f)
    PROVE  Reaches(f) /\ Kept(f)
<1>1. f \in Names(f)
  BY InAlike DEF Names
<1>2. Arrives(sent, f, body, f)
  BY AgreeArrives
<1> QED
  BY <1>1, <1>2, ArrivedIsKept

LEMMA AbsentIsLost ==
    ASSUME NEW f, f # EffortField(client), \A g \in Names(f) : g \notin DOMAIN sent
    PROVE  ~Reaches(f)
BY DEF Reaches, Among

LEMMA Homonyms ==
    ASSUME client # Upstream, NEW meaning \in Meanings, NEW f \in meaning, NEW g \in meaning
    PROVE  g \in Names(f)
BY InAlike DEF Names

\* A field that means nothing but itself
LEMMA Alone ==
    ASSUME NEW f, \A meaning \in Meanings : f \notin meaning
    PROVE  Names(f) = {f}
<1>1. \A g : g \in Alike(f) <=> g = f
  BY InAlike
<1> QED
  BY <1>1 DEF Names

\* What is said to be lost, or known to be
Told(f) == f \in KnownLosses \/ \E name \in warned : f \in About(name)

LEMMA NamedIsTold ==
    ASSUME NEW f, f \in warned
    PROVE  Told(f)
BY DEF Told, About

LEMMA WarnedOf ==
    ASSUME Progress, stage = "sent"
    PROVE  /\ \A name : name \in warned <=> name \in Warned(client, Upstream, body, to) \/ (Dialects /\ Lossy /\ name = "effort")
           /\ client = Upstream => Warned(client, Upstream, body, to) = {}
<1>1. warned = Warnings
  BY SentFacts
<1>2. client = Upstream => Warned(client, Upstream, body, to) = {}
  BY DEF Warned
<1> QED
  BY <1>1, <1>2 DEF Warnings

-----------------------------------------------------------------------------
(* Efforts *)

Efforts == {"reasoning_effort", "reasoning.effort", "output_config.effort", "extra_body.openai.reasoning_effort"}

LEMMA EffortsAreAlike ==
    /\ \A f \in Efforts : Alike(f) = Efforts
    /\ Efforts \cup {"thinking"} = About("effort") \ {"effort"}
<1>1. ASSUME NEW f \in Efforts
      PROVE  Alike(f) = Efforts
  <2>1. \A g : g \in Alike(f) <=> g \in Efforts
    BY InAlike DEF Meanings, Efforts
  <2> QED
    BY <2>1
<1>2. Alike("reasoning_effort") = Efforts
  BY <1>1 DEF Efforts
<1>3. About("effort") = {"effort"} \cup (Efforts \cup {"thinking"})
  BY <1>2 DEF About
<1> QED
  BY <1>1, <1>3 DEF Efforts

Level(dialect, effort) == IF effort > Ceiling(dialect) THEN Ceiling(dialect) ELSE effort

\* What each mechanism writes
LEMMA OpenaiEmits ==
    ASSUME NEW b, NEW format, NEW dialect, dialect.mechanism = "openai-effort", NEW effort, NEW field,
           field = IF format = "responses" THEN "reasoning.effort" ELSE "reasoning_effort"
    PROVE  LET made == Emitted(b, format, dialect, effort) IN
           /\ field \in DOMAIN made /\ made[field] = Level(dialect, effort)
           /\ format = "responses" => "reasoning_effort" \notin DOMAIN made
           /\ \A g : g \notin {"reasoning_effort", "reasoning.effort"} => Agree(made, b, g)
           /\ format # "responses" => \A g : g # "reasoning_effort" => Agree(made, b, g)
<1> DEFINE level == Level(dialect, effort)
           bare == Without(b, {name \in {"reasoning_effort"} : format = "responses"})
           made == Emitted(b, format, dialect, effort)
<1>1. made = Set(bare, field, level)
  BY DEF Emitted, Level
<1>2. \A g : g # "reasoning_effort" => Agree(bare, b, g)
  BY WithoutAgrees
<1>3. format = "responses" => "reasoning_effort" \notin DOMAIN bare
  BY DEF Without, Restrict
<1> HIDE DEF bare, level, made
<1>4. \A g : g # field => Agree(made, bare, g)
  BY <1>1, SetAgrees
<1>5. field \in DOMAIN made /\ made[field] = level
  BY <1>1 DEF Set
<1>6. \A g : g # "reasoning_effort" /\ g # field => Agree(made, b, g)
  BY <1>2, <1>4, AgreeTwice
<1>7. format = "responses" => "reasoning_effort" \notin DOMAIN made
  BY <1>3, <1>4 DEF Agree
<1> QED
  BY <1>5, <1>6, <1>7 DEF made, level

LEMMA AnthropicEmits ==
    ASSUME NEW b, NEW format, NEW dialect, dialect.mechanism = "anthropic-effort", NEW effort
    PROVE  LET made == Emitted(b, format, dialect, effort) IN
           /\ "output_config.effort" \in DOMAIN made /\ made["output_config.effort"] = Level(dialect, effort)
           /\ \A g : g # "output_config.effort" => Agree(made, b, g)
<1> DEFINE made == Emitted(b, format, dialect, effort)
<1>1. made = Set(b, "output_config.effort", Level(dialect, effort))
  BY DEF Emitted, Level
<1> HIDE DEF made
<1>2. "output_config.effort" \in DOMAIN made /\ made["output_config.effort"] = Level(dialect, effort)
  BY <1>1 DEF Set
<1>3. \A g : g # "output_config.effort" => Agree(made, b, g)
  BY <1>1, SetAgrees
<1> QED
  BY <1>2, <1>3 DEF made

LEMMA ThinkingEmits ==
    ASSUME NEW b, NEW format, NEW dialect, dialect.mechanism = "anthropic-thinking", NEW effort
    PROVE  LET made == Emitted(b, format, dialect, effort) IN
           /\ "thinking" \in DOMAIN made
           /\ \A g : g # "thinking" => Agree(made, b, g)
<1> DEFINE made == Emitted(b, format, dialect, effort)
<1>1. made = Set(b, "thinking", IF Level(dialect, effort) = 0 THEN "disabled" ELSE "enabled")
  BY DEF Emitted, Level
<1> HIDE DEF made
<1>2. "thinking" \in DOMAIN made
  BY <1>1 DEF Set
<1>3. \A g : g # "thinking" => Agree(made, b, g)
  BY <1>1, SetAgrees
<1> QED
  BY <1>2, <1>3 DEF made

LEMMA NothingEmits ==
    ASSUME NEW b, NEW format, NEW dialect, dialect.mechanism = "auto-only" \/ dialect.mechanism = "none", NEW effort, NEW g,
           g = EffortField(format) \/ g \notin DOMAIN b
    PROVE  g \notin DOMAIN Emitted(b, format, dialect, effort)
<1> DEFINE bare == Without(b, {name \in {"reasoning_effort"} : format = "responses"})
           removed == {EffortField(format)} \cup {name \in {"thinking"} : format = "anthropic"}
<1>1. Emitted(b, format, dialect, effort) = Without(bare, removed)
  BY DEF Emitted
<1>2. EffortField(format) \in removed
  OBVIOUS
<1>3. DOMAIN bare \subseteq DOMAIN b
  BY DEF Without, Restrict
<1> HIDE DEF bare, removed
<1>4. DOMAIN Without(bare, removed) = DOMAIN bare \ removed
  BY DEF Without, Restrict
<1> QED
  BY <1>1, <1>2, <1>3, <1>4

\* What is left of efforts before the dialect
LEMMA EffortsCarried ==
    ASSUME Progress, stage = "sent", client # Upstream
    PROVE  /\ Upstream # "anthropic" =>
                Arrives(Carriage, EffortField(Upstream), body,
                        IF client = "anthropic" THEN "extra_body.openai.reasoning_effort" ELSE EffortField(client))
           /\ \A g \in Efforts \cup {"thinking"} :
                g # EffortField(Upstream) \/ Upstream = "anthropic" => g \notin DOMAIN Carriage
<1>1. ASSUME NEW g \in Efforts \cup {"thinking"}
      PROVE  Agree(Carriage, Made[1], g)
  <2>1. g \notin ParallelFields \cup LimitNames \cup RepairNames \cup LostNames
    BY DEF Efforts, ParallelFields, LimitNames, RepairNames, LostNames
  <2>2. Agree(Carriage, Cleaned, g)
    BY <2>1, SentFacts, CarriesCleaned
  <2>3. Agree(Cleaned, Made[1], g)
    BY <2>1, CleanedFacts
  <2> QED
    BY <2>2, <2>3, AgreeTwice
<1>2. CASE Upstream = "anthropic"
  <2>1. ASSUME NEW g \in Efforts \cup {"thinking"}
        PROVE  g \notin DOMAIN Made[1]
    <3>1. \A q \in ToClaude : q[2] # g
      BY DEF ToClaude, Same, Efforts
    <3>2. g \notin {"tool_choice", "tool_choice.disable_parallel_tool_use", "output_config.format", "tools", "max_tokens"}
      BY DEF Efforts
    <3>3. g \notin Withheld(Chat, to.rejects)
      BY DEF Withheld, Among, Efforts
    <3> QED
      BY <1>2, <3>1, <3>2, <3>3, ChatToClaude
  <2> QED
    BY <1>1, <1>2, <2>1 DEF Agree
<1> DEFINE mine == IF client = "anthropic" THEN "extra_body.openai.reasoning_effort" ELSE EffortField(client)
<1>3. CASE Upstream # "anthropic"
  <2>1. Arrives(Chat, "reasoning_effort", body, mine)
    <3>1. CASE client = "chat"
      <4>1. mine = "reasoning_effort"
        BY <3>1 DEF EffortField
      <4>2. Agree(Chat, body, "reasoning_effort")
        BY <3>1, ChatAgrees DEF Pivoted, ParallelFields, LimitNames
      <4> QED
        BY <4>1, <4>2, AgreeArrives
    <3>2. CASE client = "responses"
      <4>1. mine = "reasoning.effort" /\ Upstream = "chat"
        BY <1>3, <3>2, SentFacts DEF EffortField, Formats
      <4>2. <<mine, "reasoning_effort">> \in FromResponses(Upstream)
        BY <4>1 DEF FromResponses, ResponsesNames, SharedControls, SharedNames
      <4> HIDE DEF mine
      <4> QED
        BY <3>2, <4>1, <4>2, ResponsesToChat DEF ParallelFields, LimitNames
    <3>3. CASE client = "anthropic"
      <4>1. <<mine, "reasoning_effort">> \in FromClaude
        BY <3>3 DEF FromClaude
      <4> HIDE DEF mine
      <4> QED
        BY <3>3, <4>1, ClaudeToChat DEF ParallelFields, LimitNames
    <3> QED
      BY <3>1, <3>2, <3>3, SentFacts DEF Formats
  <2>2. ASSUME NEW g \in (Efforts \cup {"thinking"}) \ {"reasoning_effort"}
        PROVE  g \notin DOMAIN Chat
    <3>1. g \notin ParallelFields \cup LimitNames \cup {"logprobs", "tools", "tool_choice"}
      BY DEF Efforts, ParallelFields, LimitNames
    <3>2. CASE client = "chat"
      <4>1. g \notin Fields["chat"]
        BY DEF Fields, FieldsOfAll, FieldsOfFamily, Efforts
      <4>2. g \notin DOMAIN body
        BY <3>2, <4>1, SentFacts, BodiesAssumption
      <4>3. Agree(Chat, body, g)
        BY <3>1, <3>2, ChatAgrees DEF Pivoted
      <4> QED
        BY <4>2, <4>3 DEF Agree
    <3>3. CASE client = "responses"
      <4>1. \A q \in FromResponses(Upstream) : q[2] # g
        BY DEF FromResponses, ResponsesNames, SharedNames, Same, Efforts
      <4> QED
        BY <3>1, <3>3, <4>1, ResponsesToChat
    <3>4. CASE client = "anthropic"
      <4>1. \A q \in FromClaude : q[2] # g
        BY DEF FromClaude, Same, Efforts
      <4> QED
        BY <3>1, <3>4, <4>1, ClaudeToChat
    <3> QED
      BY <3>2, <3>3, <3>4, SentFacts DEF Formats
  <2>3. CASE Upstream = "chat"
    <3>1. Made[1] = Chat /\ EffortField(Upstream) = "reasoning_effort"
      BY <2>3 DEF Made, EffortField
    <3>2. Agree(Carriage, Chat, "reasoning_effort")
      BY <1>1, <3>1 DEF Efforts
    <3>3. Arrives(Carriage, "reasoning_effort", body, mine)
      BY <2>1, <3>2, AgreeArrives
    <3> HIDE DEF mine
    <3> QED
      BY <1>1, <1>3, <2>2, <3>1, <3>3 DEF Agree, mine
  <2>4. CASE Upstream = "responses"
    <3>1. EffortField(Upstream) = "reasoning.effort" /\ client # "responses"
      BY <2>4 DEF EffortField
    <3>2. Arrives(Made[1], "reasoning.effort", Chat, "reasoning_effort")
      <4>1. <<"reasoning_effort", "reasoning.effort">> \in ToResponsesRenamed
        BY DEF ToResponsesRenamed
      <4>2. "reasoning.effort" \notin DOMAIN Chat
        BY <2>2 DEF Efforts
      <4> QED
        BY <2>4, <3>1, <4>1, <4>2, ChatToResponses
    <3>3. Arrives(Carriage, "reasoning.effort", body, mine)
      <4>1. Arrives(Made[1], "reasoning.effort", body, mine)
        BY <2>1, <3>2 DEF Arrives
      <4>2. Agree(Carriage, Made[1], "reasoning.effort")
        BY <1>1 DEF Efforts
      <4> HIDE DEF mine
      <4> QED
        BY <4>1, <4>2, AgreeArrives
    <3>4. ASSUME NEW g \in (Efforts \cup {"thinking"}) \ {"reasoning.effort"}
          PROVE  g \notin DOMAIN Made[1]
      <4>1. CASE g = "reasoning_effort"
        BY <2>4, <3>1, <4>1, ChatToResponses DEF ToResponsesRemoved, ToResponsesRenamed
      <4>2. CASE g # "reasoning_effort"
        <5>1. g \notin ToResponsesRemoved \cup {r[2] : r \in ToResponsesRenamed}
                       \cup {"include.message.output_text.logprobs", "max_output_tokens", "tool_choice"}
          BY <4>2 DEF ToResponsesRemoved, ToResponsesRenamed, Efforts
        <5>2. Agree(Made[1], Chat, g)
          BY <2>4, <3>1, <5>1, ChatToResponses
        <5> QED
          BY <2>2, <4>2, <5>2 DEF Agree
      <4> QED
        BY <4>1, <4>2
    <3> HIDE DEF mine
    <3> QED
      BY <1>1, <1>3, <3>1, <3>3, <3>4 DEF Agree, mine
  <2> QED
    BY <1>3, <2>3, <2>4, SentFacts DEF Formats
<1> QED
  BY <1>2, <1>3

LEMMA DialectFacts ==
    ASSUME Progress, stage = "sent"
    PROVE  /\ \A g : g # "prompt_cache_key" => Agree(sent, Dialected, g)
           /\ ~Dialects => Dialected = Carriage
           /\ Dialects =>
                /\ Dialected = Emitted(Carriage, Upstream, to.dialect, Asking[1])
                /\ to.dialect.mechanism \in Mechanisms
                /\ EffortField(client) \in DOMAIN body /\ Asking[1] = body[EffortField(client)]
                /\ Asking[1] \in 0..7 /\ Ceiling(to.dialect) \in 0..7
           /\ MapsReasoning(to.dialect) => to.dialect # NoDialect
<1>1. \A g : g # "prompt_cache_key" => Agree(sent, Dialected, g)
  BY SentFacts, FinalAgrees
<1>2. ASSUME Dialects
      PROVE  /\ EffortField(client) \in DOMAIN body /\ Asking[1] = body[EffortField(client)]
             /\ Asking[1] \in 0..7 /\ Ceiling(to.dialect) \in 0..7
  <2>1. ClientEffort(client, body) # Nothing
    BY <1>2 DEF Dialects, Asking
  <2>2. EffortField(client) \in DOMAIN body /\ body[EffortField(client)] \in 0..7
    BY <2>1, EffortValue
  <2>3. Asking[1] = body[EffortField(client)]
    BY <2>1, EffortValue DEF Asking
  <2> QED
    BY <2>2, <2>3, SentFacts, CeilingIsLevel
<1>3. Dialects => to.dialect.mechanism \in Mechanisms
  BY SentFacts, RoutesAssumption DEF Dialects
<1>4. MapsReasoning(to.dialect) => to.dialect # NoDialect
  BY DEF MapsReasoning, NoDialect
<1> QED
  BY <1>1, <1>2, <1>3, <1>4 DEF Dialected

LEMMA EffortFields ==
    ASSUME NEW format \in Formats
    PROVE  EffortField(format) \in Efforts /\ EffortField(format) # "prompt_cache_key" /\ EffortField(format) # "thinking"
BY DEF EffortField, Efforts, Formats

\* In one protocol
LEMMA EffortsWithin ==
    ASSUME Progress, stage = "sent", client = Upstream, NEW g \in Efforts \cup {"thinking"}
    PROVE  Agree(Carriage, body, g)
<1>1. g \notin ParallelFields \cup LimitNames \cup RepairNames
  BY DEF Efforts, ParallelFields, LimitNames, RepairNames
<1> QED
  BY <1>1, SentFacts, WithinAgrees

\* A dialect that maps an effort below its ceiling has it reach the upstream.
LEMMA MappedEffortReaches ==
    ASSUME Progress, stage = "sent", Dialects, ~Lossy
    PROVE  EffortField(client) \in DOMAIN body /\ Reaches(EffortField(client))
<1> DEFINE f == EffortField(client)
           effort == Asking[1]
<1>1. /\ client \in Formats /\ Upstream \in Formats /\ f \in DOMAIN body /\ effort = body[f]
      /\ f \in Efforts /\ f # "thinking"
  BY SentFacts, DialectFacts, EffortFields
<1> SUFFICES Reaches(f)
  BY <1>1
<1>2. MapsReasoning(to.dialect) /\ effort <= Ceiling(to.dialect) /\ Level(to.dialect, effort) = effort
  <2>1. effort \in 0..7 /\ Ceiling(to.dialect) \in 0..7
    BY DialectFacts
  <2> QED
    BY <2>1 DEF Lossy, Level
<1>3. Dialected = Emitted(Carriage, Upstream, to.dialect, effort)
  BY DialectFacts
<1> HIDE DEF f
<1>4. ASSUME NEW g \in Efforts, g \in Names(f), g \in DOMAIN Dialected, Dialected[g] = effort
      PROVE  Reaches(f)
  <2>1. g # "prompt_cache_key"
    BY DEF Efforts
  <2>2. g \in DOMAIN sent /\ sent[g] = body[f]
    BY <1>1, <1>4, <2>1, DialectFacts DEF Agree
  <2> QED
    BY <1>4, <2>2 DEF Reaches, Among
<1> HIDE DEF effort
<1>5. client = Upstream => Names(f) = {f} /\ Agree(Carriage, body, f)
  BY <1>1, EffortsWithin DEF Names
<1>6. client # Upstream => Names(f) = Efforts
  BY <1>1, EffortsAreAlike DEF Names
<1>7. CASE to.dialect.mechanism = "openai-effort"
  <2> DEFINE own == IF Upstream = "responses" THEN "reasoning.effort" ELSE "reasoning_effort"
  <2>1. /\ own \in DOMAIN Dialected /\ Dialected[own] = effort
        /\ \A g : g \notin {"reasoning_effort", "reasoning.effort"} => Agree(Dialected, Carriage, g)
    BY <1>2, <1>3, <1>7, OpenaiEmits
  <2>2. own \in Efforts
    BY DEF Efforts
  <2>3. CASE client # Upstream
    BY <1>4, <1>6, <2>1, <2>2, <2>3
  <2>4. CASE client = Upstream /\ client # "anthropic"
    <3>1. own = f
      BY <1>1, <2>4 DEF f, EffortField, Formats
    <3> HIDE DEF own
    <3> QED
      BY <1>1, <1>4, <1>5, <2>1, <2>4, <3>1
  <2>5. CASE client = Upstream /\ client = "anthropic"
    <3>1. f = "output_config.effort"
      BY <2>5 DEF f, EffortField
    <3>2. Agree(Dialected, Carriage, f)
      BY <2>1, <3>1
    <3> HIDE DEF own
    <3> QED
      BY <1>1, <1>4, <1>5, <2>5, <3>2 DEF Agree
  <2> QED
    BY <2>3, <2>4, <2>5
<1>8. CASE to.dialect.mechanism = "anthropic-effort"
  <2>1. /\ "output_config.effort" \in DOMAIN Dialected /\ Dialected["output_config.effort"] = effort
        /\ \A g : g # "output_config.effort" => Agree(Dialected, Carriage, g)
    BY <1>2, <1>3, <1>8, AnthropicEmits
  <2>2. CASE client # Upstream \/ f = "output_config.effort"
    BY <1>4, <1>5, <1>6, <2>1, <2>2 DEF Efforts
  <2>3. CASE client = Upstream /\ f # "output_config.effort"
    BY <1>1, <1>4, <1>5, <2>1, <2>3 DEF Agree
  <2> QED
    BY <2>2, <2>3
<1>9. CASE to.dialect.mechanism = "anthropic-thinking"
  <2>1. "thinking" \in DOMAIN Dialected
    BY <1>3, <1>9, ThinkingEmits
  <2>2. "thinking" \in DOMAIN sent
    BY <2>1, DialectFacts DEF Agree
  <2> QED
    BY <1>2, <1>9, <2>2 DEF Reaches, Has, f, effort, Asking, Dialects
<1> QED
  BY <1>2, <1>7, <1>8, <1>9 DEF MapsReasoning

\* One that does not, or not above its ceiling, is said to lose it.
LEMMA LossIsTold ==
    ASSUME Progress, stage = "sent", Dialects, Lossy, NEW f \in Efforts \cup {"thinking"}
    PROVE  Told(f)
<1>1. "effort" \in warned
  BY WarnedOf
<1>2. f \in About("effort")
  BY EffortsAreAlike
<1> QED
  BY <1>1, <1>2 DEF Told

\* Without a dialect that looks at it an effort goes the way of all fields.
LEMMA EffortIsAccounted ==
    ASSUME Progress, stage = "sent", EffortField(client) \in DOMAIN body
    PROVE  Kept(EffortField(client)) \/ Told(EffortField(client))
<1> DEFINE f == EffortField(client)
<1>1. client \in Formats /\ Upstream \in Formats /\ f \in Efforts /\ f # "prompt_cache_key"
  BY SentFacts, EffortFields
<1>2. CASE Dialects /\ Lossy
  BY <1>1, <1>2, LossIsTold
<1>3. CASE Dialects /\ ~Lossy
  <2>1. f \in Names(f)
    BY InAlike DEF Names
  <2> QED
    BY <1>3, <2>1, MappedEffortReaches DEF Kept, Among
<1>4. CASE ~Dialects
  <2>1. \A g : g # "prompt_cache_key" => Agree(sent, Carriage, g)
    BY <1>4, DialectFacts
  <2>2. CASE client = Upstream
    <3>1. Agree(sent, body, f)
      <4>1. Agree(Carriage, body, f)
        BY <1>1, <2>2, EffortsWithin
      <4> HIDE DEF f
      <4> QED
        BY <1>1, <2>1, <4>1, AgreeTwice
    <3> QED
      BY <3>1, AgreedIsKept
  <2>3. CASE client # Upstream /\ Upstream # "anthropic" /\ client # "anthropic"
    <3> DEFINE theirs == EffortField(Upstream)
    <3>1. theirs \in Efforts /\ theirs # "prompt_cache_key"
      BY <1>1, EffortFields
    <3>2. Arrives(Carriage, theirs, body, f)
      BY <2>3, EffortsCarried
    <3>3. theirs \in Names(f)
      BY <1>1, <2>3, <3>1, EffortsAreAlike DEF Names
    <3> HIDE DEF f, theirs
    <3>4. Arrives(sent, theirs, body, f)
      BY <2>1, <3>1, <3>2, AgreeArrives
    <3> QED
      BY <3>3, <3>4, ArrivedIsKept DEF f
  <2>4. CASE client # Upstream /\ client = "anthropic"
    <3>1. f = "output_config.effort" /\ Upstream \in OpenaiFamily
      BY <1>1, <2>4 DEF EffortField, Formats, OpenaiFamily
    <3> QED
      BY <2>4, <3>1 DEF Told, KnownLosses
  <2>5. CASE Upstream = "anthropic" /\ client = "responses"
    <3>1. f = "reasoning.effort"
      BY <2>5 DEF EffortField
    <3>2. "reasoning" \in Warned(client, Upstream, body, to)
      <4>1. Warned(client, Upstream, body, to) =
                ResponsesControlsDropped(body, Upstream, MapsReasoning(to.dialect)) \cup ToolsDropped(body)
                \cup Withheld(body, to.rejects)
        BY <2>5 DEF Warned
      <4>2. "reasoning" \in ResponsesControlsDropped(body, Upstream, MapsReasoning(to.dialect))
        BY <2>5, <3>1 DEF ResponsesControlsDropped, SharedControls, Among
      <4> QED
        BY <4>1, <4>2
    <3>3. "reasoning" \in warned /\ "reasoning.effort" \in About("reasoning")
      BY <3>2, WarnedOf DEF About
    <3> QED
      BY <3>1, <3>3 DEF Told
  <2>6. CASE Upstream = "anthropic" /\ client = "chat"
    <3>1. f = "reasoning_effort"
      BY <2>6 DEF EffortField
    <3>2. CASE MapsReasoning(to.dialect)
      <4>1. ClientEffort(client, body) = Nothing
        BY <1>4, <3>2, DialectFacts DEF Dialects, Asking
      <4> QED
        BY <2>6, <3>1, <3>2, <4>1 DEF Told, KnownLosses
    <3>3. CASE ~MapsReasoning(to.dialect)
      <4>1. Warned(client, Upstream, body, to) =
                ChatControlsDropped(body, Upstream, MapsReasoning(to.dialect)) \cup Withheld(body, to.rejects)
        BY <2>6 DEF Warned
      <4>2. "reasoning_effort" \in ChatControlsDropped(body, Upstream, MapsReasoning(to.dialect))
        BY <2>6, <3>1, <3>3 DEF ChatControlsDropped, SharedControls, SharedNames, Among
      <4>3. "reasoning_effort" \in warned
        BY <4>1, <4>2, WarnedOf
      <4> QED
        BY <3>1, <4>3, NamedIsTold
    <3> QED
      BY <3>2, <3>3
  <2> QED
    BY <1>1, <2>2, <2>3, <2>4, <2>5, <2>6 DEF Formats
<1> QED
  BY <1>2, <1>3, <1>4

\* and so does the one of an extra_body.
LEMMA ExtraEffortIsAccounted ==
    ASSUME Progress, stage = "sent", client = "anthropic", Upstream # "anthropic",
           "extra_body.openai.reasoning_effort" \in DOMAIN body
    PROVE  Kept("extra_body.openai.reasoning_effort") \/ Told("extra_body.openai.reasoning_effort")
<1> DEFINE f == "extra_body.openai.reasoning_effort"
<1>1. client \in Formats /\ Upstream \in Formats /\ f \in Efforts /\ Names(f) = Efforts
  BY SentFacts, EffortsAreAlike DEF Efforts, Names
<1>2. CASE Dialects /\ Lossy
  BY <1>1, <1>2, LossIsTold
<1>3. CASE Dialects /\ ~Lossy
  <2>1. EffortField(client) \in Names(f)
    BY <1>1, EffortFields
  <2> QED
    BY <1>3, <2>1, MappedEffortReaches DEF Kept, Among
<1>4. CASE ~Dialects
  <2> DEFINE theirs == EffortField(Upstream)
  <2>1. theirs \in Efforts /\ theirs # "prompt_cache_key"
    BY <1>1, EffortFields
  <2>2. Arrives(Carriage, theirs, body, f)
    BY EffortsCarried
  <2> HIDE DEF f, theirs
  <2>3. Agree(sent, Carriage, theirs)
    BY <1>4, <2>1, DialectFacts
  <2>4. Arrives(sent, theirs, body, f)
    BY <2>2, <2>3, AgreeArrives
  <2> QED
    BY <1>1, <2>1, <2>4, ArrivedIsKept DEF f
<1> QED
  BY <1>2, <1>3, <1>4

LEMMA ThinkingIsAccounted ==
    ASSUME Progress, stage = "sent", client = Upstream, "thinking" \in DOMAIN body
    PROVE  Kept("thinking") \/ Told("thinking")
<1>1. Agree(Carriage, body, "thinking") /\ Agree(sent, Dialected, "thinking")
  BY EffortsWithin, DialectFacts
<1>2. CASE Agree(Dialected, Carriage, "thinking")
  <2>1. Agree(sent, body, "thinking")
    BY <1>1, <1>2, AgreeTwice
  <2> QED
    BY <2>1, AgreedIsKept
<1>3. CASE ~Dialects
  BY <1>2, <1>3, DialectFacts DEF Agree
<1>4. CASE Dialects /\ Lossy
  BY <1>4, LossIsTold
<1>5. CASE Dialects /\ ~Lossy
  <2>1. MapsReasoning(to.dialect) /\ Dialected = Emitted(Carriage, Upstream, to.dialect, Asking[1])
    BY <1>5, DialectFacts DEF Lossy
  <2>2. CASE to.dialect.mechanism = "openai-effort"
    BY <1>2, <2>1, <2>2, OpenaiEmits
  <2>3. CASE to.dialect.mechanism = "anthropic-effort"
    BY <1>2, <2>1, <2>3, AnthropicEmits
  <2>4. CASE to.dialect.mechanism = "anthropic-thinking"
    BY <2>4 DEF Told, KnownLosses
  <2> QED
    BY <2>1, <2>2, <2>3, <2>4 DEF MapsReasoning
<1> QED
  BY <1>3, <1>4, <1>5

-----------------------------------------------------------------------------
(* The shape of the answer, its probabilities and its limit *)

LEMMA ClaudeOfChatShape ==
    ASSUME NEW b, NEW rejects, ClaudeOfChat(b, rejects) # Nothing, "response_format" \in DOMAIN b
    PROVE  /\ b["response_format"] # "json_object"
           /\ b["response_format"] = "json_schema" =>
                Arrives(ClaudeOfChat(b, rejects)[1], "output_config.format", b, "response_format")
<1> DEFINE policy == ToolPolicy(b)
           serial == Value(b, "parallel_tool_calls", TRUE) = FALSE
           shape == Value(b, "response_format", "text")
           limit == Value(b, "max_completion_tokens", Value(b, "max_tokens", 4096))
           functions == Those(ToolsOf(b), LAMBDA t : t.kind = "function")
           selected == IF policy.names = Nothing \/ policy.policy = <<"forced">> THEN functions
                       ELSE [i \in DOMAIN policy.names[1] |-> CHOOSE t \in Named(functions, policy.names[1][i]) : TRUE]
           choice == IF policy.policy = Nothing THEN Plain("auto") ELSE ChoiceOfPolicy(policy.policy[1], policy.names[1])
           chosen == policy.policy # Nothing \/ (serial /\ ToolsOf(b) # <<>>)
           plain == Carried(b, ToClaude)
           allowed == Without(plain, Withheld(b, rejects))
           limited == Set(allowed, "max_tokens", limit)
           one == With(limited, "tool_choice", chosen, choice)
           two == With(one, "tool_choice.disable_parallel_tool_use", chosen /\ serial /\ choice.type # "none", TRUE)
           three == With(two, "output_config.format", shape = "json_schema", shape)
           four == With(three, "tools", selected # <<>>, selected)
<1>1. ClaudeOfChat(b, rejects) = IF ~policy.ok \/ shape = "json_object" THEN Nothing ELSE <<four>>
  BY DEF ClaudeOfChat, ToClaude
<1>2. ClaudeOfChat(b, rejects)[1] = four /\ shape # "json_object"
  <2> HIDE DEF four
  <2> QED
    BY <1>1
<1>3. shape = b["response_format"]
  BY DEF Value, Has
<1> HIDE DEF two, shape, selected
<1>4. shape = "json_schema" => "output_config.format" \in DOMAIN three /\ three["output_config.format"] = shape
  BY DEF With, Set
<1> HIDE DEF three
<1>5. Agree(four, three, "output_config.format")
  BY WithAgrees
<1> HIDE DEF four
<1> QED
  BY <1>2, <1>3, <1>4, <1>5 DEF Agree, Arrives

LEMMA ResponsesOfChatLogprobs ==
    ASSUME NEW b, ResponsesOfChat(b) # Nothing, "logprobs" \in DOMAIN b, b["logprobs"] = TRUE
    PROVE  /\ "include.message.output_text.logprobs" \in DOMAIN ResponsesOfChat(b)[1]
           /\ ResponsesOfChat(b)[1]["include.message.output_text.logprobs"] = TRUE
<1> DEFINE policy == ToolPolicy(b)
           logprobs == Value(b, "logprobs", FALSE) \/ Has(b, "top_logprobs")
           plain == Carried(b, ToResponses(b))
           one == With(plain, "include.message.output_text.logprobs", logprobs, TRUE)
           two == With(one, "max_output_tokens", Among(b, {"max_completion_tokens", "max_tokens"}) # {},
                       Value(b, "max_completion_tokens", Value(b, "max_tokens", 0)))
           three == With(two, "tool_choice", policy.policy # Nothing, ResponsesChoiceOfPolicy(policy.policy[1], policy.names))
<1>1. ResponsesOfChat(b) = IF ~policy.ok THEN Nothing ELSE <<three>>
  BY DEF ResponsesOfChat, ToResponses, ToResponsesRemoved, ToResponsesRenamed
<1>2. logprobs
  BY DEF Value, Has
<1> HIDE DEF plain, logprobs
<1>3. "include.message.output_text.logprobs" \in DOMAIN one /\ one["include.message.output_text.logprobs"] = TRUE
  BY <1>2 DEF With, Set
<1> HIDE DEF one
<1>4. Agree(two, one, "include.message.output_text.logprobs")
  BY WithAgrees
<1> HIDE DEF two
<1>5. Agree(three, two, "include.message.output_text.logprobs")
  BY WithAgrees
<1> HIDE DEF three
<1>6. ResponsesOfChat(b)[1] = three
  BY <1>1
<1> QED
  BY <1>3, <1>4, <1>5, <1>6 DEF Agree

LEMMA ChatOfResponsesLogprobs ==
    ASSUME NEW b, ChatOfResponses(b, "chat") # Nothing, "include.message.output_text.logprobs" \in DOMAIN b
    PROVE  /\ "logprobs" \in DOMAIN ChatOfResponses(b, "chat")[1]
           /\ ChatOfResponses(b, "chat")[1]["logprobs"] = TRUE
<1> DEFINE target == "chat"
           tools == NormalizedTools(ToolsOf(b))
           names == FunctionNames(tools)
           choice == IF Has(b, "tool_choice") THEN ChoiceOfResponses(b["tool_choice"], tools) ELSE Nothing
           logprobs == /\ "top_logprobs" \in SharedControls(target)
                       /\ Among(b, {"include.message.output_text.logprobs", "top_logprobs"}) # {}
           plain == Carried(b, FromResponses(target))
           one == With(plain, "logprobs", logprobs, TRUE)
           two == With(one, "tools", names # <<>>, [i \in DOMAIN names |-> FunctionTool(names[i])])
           three == With(two, "tool_choice", choice # Nothing, choice[1])
<1>1. ChatOfResponses(b, target) =
        IF ~PublicNamesAllowed(ToolsOf(b)) \/ CustomConflict(tools) \/ NamespaceConflict(tools) THEN Nothing ELSE <<three>>
  BY DEF ChatOfResponses, FromResponses
<1>2. logprobs
  BY DEF SharedControls, SharedNames, Among
<1> HIDE DEF plain, logprobs
<1>3. "logprobs" \in DOMAIN one /\ one["logprobs"] = TRUE
  BY <1>2 DEF With, Set
<1> HIDE DEF one
<1>4. Agree(two, one, "logprobs")
  BY WithAgrees
<1> HIDE DEF two
<1>5. Agree(three, two, "logprobs")
  BY WithAgrees
<1> HIDE DEF three
<1>6. ChatOfResponses(b, target)[1] = three
  BY <1>1
<1> QED
  BY <1>3, <1>4, <1>5, <1>6 DEF Agree

\* The limit Chat is left with: the newer field before the older
ChatLimit(b, default) == Value(b, "max_completion_tokens", Value(b, "max_tokens", default))

LEMMA LimitToChat ==
    ASSUME Progress, stage = "sent", client # Upstream, NEW f \in Among(body, LimitFields(client))
    PROVE  \E mine \in Among(body, LimitFields(client)) :
                /\ Among(Chat, {"max_completion_tokens", "max_tokens"}) # {}
                /\ \A default : ChatLimit(Chat, default) = body[mine]
                /\ client # "chat" => Arrives(Chat, "max_completion_tokens", body, mine)
<1> DEFINE limits == {"max_completion_tokens", "max_tokens"}
<1>1. "chat" \in Formats /\ LimitFields("chat") = limits
  BY DEF Formats, LimitFields
<1>2. ASSUME Among(Pivoted[1], limits) # {}
      PROVE  \A g \in limits : Agree(Chat, Pivoted[1], g)
  <2>1. ~LimitApplies("chat", Pivoted[1], to)
    BY <1>1, <1>2 DEF LimitApplies
  <2> QED
    BY <1>1, <2>1, DefaultsLimit DEF Chat, ParallelFields
<1>3. CASE client = "chat"
  <2>1. Pivoted[1] = body /\ LimitFields(client) = limits
    BY <1>1, <1>3 DEF Pivoted
  <2>2. \A g \in limits : Agree(Chat, body, g)
    BY <1>2, <2>1
  <2> DEFINE mine == IF "max_completion_tokens" \in DOMAIN body THEN "max_completion_tokens" ELSE "max_tokens"
  <2>3. mine \in Among(body, limits)
    BY <2>1 DEF Among
  <2>4. Among(Chat, limits) # {}
    BY <2>2, <2>3 DEF Among, Agree
  <2>5. ASSUME NEW default
        PROVE  ChatLimit(Chat, default) = body[mine]
    <3>1. CASE "max_completion_tokens" \in DOMAIN body
      BY <2>2, <3>1 DEF ChatLimit, Value, Has, Agree
    <3>2. CASE "max_completion_tokens" \notin DOMAIN body
      BY <2>2, <2>3, <3>2 DEF ChatLimit, Value, Has, Agree, Among
    <3> QED
      BY <3>1, <3>2
  <2> HIDE DEF mine
  <2> QED
    BY <1>3, <2>1, <2>3, <2>4, <2>5
<1>4. ASSUME f \in DOMAIN body, Arrives(Pivoted[1], "max_completion_tokens", body, f), LimitFields(client) = {f}
      PROVE  \E mine \in Among(body, LimitFields(client)) :
                /\ Among(Chat, {"max_completion_tokens", "max_tokens"}) # {}
                /\ \A default : ChatLimit(Chat, default) = body[mine]
                /\ client # "chat" => Arrives(Chat, "max_completion_tokens", body, mine)
  <2>1. "max_completion_tokens" \in DOMAIN Pivoted[1] /\ Pivoted[1]["max_completion_tokens"] = body[f]
    BY <1>4 DEF Arrives
  <2>2. Agree(Chat, Pivoted[1], "max_completion_tokens")
    BY <1>2, <2>1 DEF Among
  <2>3. "max_completion_tokens" \in DOMAIN Chat /\ Chat["max_completion_tokens"] = body[f]
    BY <2>1, <2>2 DEF Agree
  <2>4. Among(Chat, limits) # {} /\ Arrives(Chat, "max_completion_tokens", body, f)
    BY <1>4, <2>3 DEF Among, Arrives
  <2>5. \A default : ChatLimit(Chat, default) = body[f]
    BY <2>3 DEF ChatLimit, Value, Has
  <2>6. f \in Among(body, LimitFields(client))
    BY <1>4 DEF Among
  <2> QED
    BY <2>4, <2>5, <2>6
<1>5. CASE client = "responses"
  <2>1. LimitFields(client) = {"max_output_tokens"} /\ f = "max_output_tokens" /\ f \in DOMAIN body
    BY <1>5 DEF LimitFields, Among
  <2>2. Pivoted = ChatOfResponses(body, Upstream) /\ Pivoted # Nothing
    BY <1>5, SentFacts DEF Pivoted
  <2>3. Agree(Pivoted[1], Carried(body, FromResponses(Upstream)), "max_completion_tokens")
    BY <2>2, ChatOfResponsesCarries
  <2>4. <<"max_output_tokens", "max_completion_tokens">> \in FromResponses(Upstream)
    BY DEF FromResponses
  <2>5. Arrives(Carried(body, FromResponses(Upstream)), "max_completion_tokens", body, f)
    BY <2>1, <2>4, UnmixedArrive, RenamingsAreUnmixed
  <2> QED
    BY <1>4, <2>1, <2>3, <2>5, AgreeArrives
<1>6. CASE client = "anthropic"
  <2>1. LimitFields(client) = {"max_tokens"} /\ f = "max_tokens" /\ f \in DOMAIN body
    BY <1>6 DEF LimitFields, Among
  <2>2. Pivoted[1] = ChatOfClaude(body)
    BY <1>6 DEF Pivoted
  <2>3. Agree(Pivoted[1], Carried(body, FromClaude), "max_completion_tokens")
    BY <2>2, ChatOfClaudeCarries
  <2>4. <<"max_tokens", "max_completion_tokens">> \in FromClaude
    BY DEF FromClaude
  <2>5. Arrives(Carried(body, FromClaude), "max_completion_tokens", body, f)
    BY <2>1, <2>4, UnmixedArrive, RenamingsAreUnmixed
  <2> QED
    BY <1>4, <2>1, <2>3, <2>5, AgreeArrives
<1> QED
  BY <1>3, <1>5, <1>6, SentFacts DEF Formats

LEMMA LimitReaches ==
    ASSUME Progress, stage = "sent", NEW f \in Among(body, LimitFields(client))
    PROVE  Kept(f)
<1>1. client \in Formats /\ Upstream \in Formats
  BY SentFacts
<1>2. LimitFields(client) \subseteq LimitNames /\ f \in DOMAIN body /\ f \in LimitFields(client) /\ f \in LimitNames
  BY <1>1 DEF LimitFields, LimitNames, Formats, Among
<1>3. CASE client = Upstream
  <2>1. Agree(Source, body, f)
    BY <1>2, <1>3, SourceAgrees DEF LimitNames, RepairNames
  <2>2. ~LimitApplies(Upstream, Source, to)
    BY <1>2, <1>3, <2>1 DEF LimitApplies, Among, Agree
  <2>3. Agree(Completed, Source, f)
    BY <1>1, <1>2, <2>2, DefaultsLimit DEF Completed, LimitNames, ParallelFields
  <2>4. Agree(sent, Completed, f)
    BY <1>2, SentIsCompleted DEF LimitNames, EffortNames
  <2>5. Agree(sent, body, f)
    BY <2>1, <2>3, <2>4, AgreeTwice
  <2> QED
    BY <1>2, <2>5, AgreedIsKept
<1>4. CASE client # Upstream
  <2> DEFINE theirs == DefaultLimitField[Upstream]
  <2>1. theirs \in LimitNames /\ theirs \in LimitFields(Upstream)
    BY <1>1 DEF DefaultLimitField, LimitFields, LimitNames, Formats
  <2>2. PICK mine \in Among(body, LimitFields(client)) :
                /\ Among(Chat, {"max_completion_tokens", "max_tokens"}) # {}
                /\ \A default : ChatLimit(Chat, default) = body[mine]
                /\ client # "chat" => Arrives(Chat, "max_completion_tokens", body, mine)
    BY <1>4, LimitToChat
  <2>3. mine \in DOMAIN body /\ mine \in LimitNames
    BY <1>2, <2>2 DEF Among
  <2>4. theirs \in DOMAIN Made[1] /\ Made[1][theirs] = body[mine]
    <3>1. CASE Upstream = "chat"
      BY <1>4, <2>2, <2>3, <3>1 DEF Made, DefaultLimitField, Arrives
    <3>2. CASE Upstream = "responses"
      <4>1. Made = ResponsesOfChat(Chat) /\ Made # Nothing
        BY <1>4, <3>2, SentFacts DEF Made
      <4>2. theirs = "max_output_tokens"
        BY <3>2 DEF DefaultLimitField
      <4> QED
        BY <2>2, <4>1, <4>2, ResponsesOfChatLimit DEF ChatLimit
    <3>3. CASE Upstream = "anthropic"
      <4>1. Made = ClaudeOfChat(Chat, to.rejects) /\ Made # Nothing
        BY <1>4, <3>3, SentFacts DEF Made
      <4>2. theirs = "max_tokens"
        BY <3>3 DEF DefaultLimitField
      <4> QED
        BY <2>2, <4>1, <4>2, ClaudeOfChatCarries DEF ChatLimit
    <3> QED
      BY <1>1, <3>1, <3>2, <3>3 DEF Formats
  <2> HIDE DEF theirs
  <2>5. Agree(Source, Made[1], theirs)
    BY <1>4, <2>1, SourceAgrees DEF LimitNames, RepairNames, LostNames
  <2>6. ~LimitApplies(Upstream, Source, to)
    BY <2>1, <2>4, <2>5 DEF LimitApplies, Among, Agree
  <2>7. Agree(Completed, Source, theirs)
    BY <1>1, <2>1, <2>6, DefaultsLimit DEF Completed, LimitNames, ParallelFields
  <2>8. Agree(sent, Completed, theirs)
    BY <2>1, SentIsCompleted DEF LimitNames, EffortNames
  <2>9. theirs \in DOMAIN sent /\ sent[theirs] = body[mine]
    BY <2>4, <2>5, <2>7, <2>8 DEF Agree
  <2>10. LimitNames \in Meanings
    BY DEF LimitNames, Meanings
  <2>11. theirs \in Names(mine) /\ mine \in Names(f)
    BY <1>2, <1>4, <2>1, <2>3, <2>10, Homonyms
  <2> QED
    BY <2>3, <2>9, <2>11 DEF Kept, Reaches, Among
<1> QED
  BY <1>3, <1>4

-----------------------------------------------------------------------------
(* What the assessment refuses is not among the controls of a request that is sent. *)

LEMMA ControlFacts ==
    ASSUME Progress, NEW f \in Controls
    PROVE  f \in DOMAIN body /\ ~Neutral(f) /\ client \in Formats /\ f \in Fields[client]
<1>1. f \in DOMAIN body /\ ~Neutral(f)
  BY DEF Controls
<1>2. client \in Formats /\ body \in Bodies[client]
  BY DEF Progress
<1> QED
  BY <1>1, <1>2, BodiesAssumption

LEMMA RefusedControls ==
    ASSUME Progress, stage = "sent", client # Upstream, NEW f \in Controls
    PROVE  /\ f \notin {"store", "background", "n", "modalities", "audio", "input.audio_history",
                        "extra_body.google.cached_content", "previous_response_id", "conversation", "prompt"}
           /\ f = "context_management" => client = "anthropic"
           /\ f = "input.cache_control" => client = "anthropic" \/ Upstream # "anthropic"
           /\ f = "extra_body.anthropic.cache_control" => Upstream = "anthropic"
<1>1. f \in DOMAIN body /\ ~Neutral(f) /\ client \in Formats /\ f \in Fields[client]
  BY ControlFacts
<1>2. Translatable(client, Upstream, body, to) /\ body \in Bodies[client]
  BY SentFacts DEF Admitted
<1>3. f # "store"
  <2>1. ~Enabled(body, "store")
    BY <1>2 DEF Translatable
  <2>2. SUFFICES ASSUME f = "store" PROVE FALSE
    OBVIOUS
  <2>3. ~body["store"]
    BY <1>1, <2>1, <2>2 DEF Enabled, Value, Has
  <2> QED
    BY <1>1, <2>2, <2>3 DEF Neutral
<1>4. client = "responses" => StatefulControls(body) = {}
  BY <1>2 DEF Translatable
<1>5. f # "background"
  <2>1. SUFFICES ASSUME f = "background" PROVE FALSE
    OBVIOUS
  <2>2. client = "responses"
    BY <1>1, <2>1 DEF Fields, FieldsOfAll, FieldsOfFamily, Formats
  <2>3. ~Enabled(body, "background")
    BY <1>4, <2>2 DEF StatefulControls
  <2>4. ~body["background"]
    BY <1>1, <2>1, <2>3 DEF Enabled, Value, Has
  <2> QED
    BY <1>1, <2>1, <2>4 DEF Neutral
<1>6. f \notin {"previous_response_id", "conversation", "prompt"} /\ (f = "context_management" => client = "anthropic")
  <2>1. f \in {"previous_response_id", "conversation", "prompt"} => client = "responses"
    BY <1>1 DEF Fields, FieldsOfAll, FieldsOfFamily, Formats
  <2>2. f = "context_management" => client \in {"responses", "anthropic"}
    BY <1>1 DEF Fields, FieldsOfAll, FieldsOfFamily, Formats
  <2>3. client = "responses" => f \notin {"previous_response_id", "conversation", "prompt", "context_management"}
    BY <1>1, <1>4 DEF StatefulControls, Among
  <2> QED
    BY <2>1, <2>2, <2>3
<1>7. f \in {"n", "modalities", "audio", "input.audio_history"} => client = "chat"
  BY <1>1 DEF Fields, FieldsOfAll, FieldsOfFamily, Formats
<1>8. f # "n"
  <2>1. SUFFICES ASSUME f = "n" PROVE FALSE
    OBVIOUS
  <2>2. Value(body, "n", 1) <= 1
    BY <1>2, <1>7, <2>1 DEF Translatable
  <2>3. Value(body, "n", 1) \in Nat \ {0}
    BY <1>1, <1>2, ValuesAssumption
  <2>4. Value(body, "n", 1) = body["n"]
    BY <1>1, <2>1 DEF Value, Has
  <2>5. body["n"] = 1
    BY <2>2, <2>3, <2>4
  <2> QED
    BY <1>1, <2>1, <2>5 DEF Neutral
<1>9. f # "modalities"
  <2>1. SUFFICES ASSUME f = "modalities" PROVE FALSE
    OBVIOUS
  <2>2. ~WantsAudio(body)
    BY <1>2, <1>7, <2>1 DEF Translatable
  <2>3. Value(body, "modalities", {"text"}) \in {{"text"}, {"audio"}, {"text", "audio"}}
    BY <1>1, <1>2, ValuesAssumption
  <2>4. \A default : Value(body, "modalities", default) = body["modalities"]
    BY <1>1, <2>1 DEF Value, Has
  <2>5. "audio" \notin body["modalities"]
    BY <2>2, <2>4 DEF WantsAudio
  <2>6. body["modalities"] = {"text"}
    BY <2>3, <2>4, <2>5
  <2> QED
    BY <1>1, <2>1, <2>6 DEF Neutral
<1>10. f \notin {"audio", "input.audio_history"}
  <2>1. client = "chat" => ~WantsAudio(body) /\ ~Has(body, "input.audio_history")
    BY <1>2 DEF Translatable
  <2> QED
    BY <1>1, <1>7, <2>1 DEF WantsAudio, Has
<1>11. client \in OpenaiFamily => FamilyExtensionsFit(Upstream, body)
  BY <1>2 DEF Translatable
<1>12. f \in {"extra_body.google.cached_content", "extra_body.anthropic.cache_control"} => client \in OpenaiFamily
  BY <1>1 DEF Fields, FieldsOfAll, FieldsOfFamily, Formats, OpenaiFamily
<1>13. f # "extra_body.google.cached_content"
  BY <1>1, <1>11, <1>12 DEF FamilyExtensionsFit, Has
<1>14. f = "input.cache_control" => client = "anthropic" \/ Upstream # "anthropic"
  BY <1>1, <1>11 DEF FamilyExtensionsFit, Has, OpenaiFamily, Formats
<1>15. f = "extra_body.anthropic.cache_control" => Upstream = "anthropic"
  <2>1. ExtensionsFit(client, Upstream, body)
    BY <1>2 DEF Translatable
  <2> QED
    BY <1>1, <1>12, <2>1 DEF ExtensionsFit, Has
<1> QED
  BY <1>3, <1>5, <1>6, <1>8, <1>9, <1>10, <1>13, <1>14, <1>15

-----------------------------------------------------------------------------
(* Every control is accounted for *)

\* In one protocol everything stays, but for what a dialect does.
LEMMA KeptWithin ==
    ASSUME Progress, stage = "sent", client = Upstream, NEW f \in Controls
    PROVE  Kept(f) \/ Told(f)
<1>1. f \in DOMAIN body /\ client \in Formats /\ f \in Fields[client]
  BY ControlFacts
<1>2. CASE f \in LimitNames
  <2>1. f \in LimitFields(client)
    BY <1>1, <1>2 DEF Fields, FieldsOfAll, FieldsOfFamily, Formats, LimitNames, LimitFields
  <2> QED
    BY <1>1, <2>1, LimitReaches DEF Among
<1>3. CASE f = EffortField(client)
  BY <1>1, <1>3, EffortIsAccounted
<1>4. CASE f = "thinking"
  BY <1>1, <1>4, ThinkingIsAccounted
<1>5. CASE f = "prompt_cache_key"
  <2>1. client \in OpenaiFamily
    BY <1>1, <1>5 DEF Fields, FieldsOfAll, FieldsOfFamily, Formats, OpenaiFamily
  <2>2. Agree(Dialected, body, f)
    BY <1>5, <2>1, FamilyKeepsKeys DEF Keys
  <2>3. ~KeyTaken
    BY <1>1, <1>5, <2>2 DEF KeyTaken, Among, Agree
  <2>4. Agree(sent, Dialected, f)
    BY <2>3, SentFacts, FinalAgrees
  <2>5. Agree(sent, body, f)
    BY <2>2, <2>4, AgreeTwice
  <2> QED
    BY <1>1, <2>5, AgreedIsKept
<1>6. CASE f \notin LimitNames \cup {EffortField(client), "thinking", "prompt_cache_key"}
  <2>1. f \notin ParallelFields \cup {"messages", "model"}
    BY DEF Controls, ParallelFields
  <2>2. f \notin EffortNames \cup {"reasoning_split"}
    BY <1>1, <1>6 DEF Fields, FieldsOfAll, FieldsOfFamily, Formats, EffortNames, EffortField
  <2>3. f \notin Touched
    BY <1>6, <2>1, <2>2 DEF Touched, RepairNames
  <2> QED
    BY <1>1, <2>3, SentBody, AgreedIsKept
<1> QED
  BY <1>2, <1>3, <1>4, <1>5, <1>6

\* What the three protocols have in common goes through Chat.
LEMMA MadeIsKept ==
    ASSUME Progress, stage = "sent", client # Upstream, NEW f, NEW theirs,
           f \in DOMAIN body, theirs \in Names(f), theirs \notin Touched \cup LostNames, Arrives(Made[1], theirs, body, f)
    PROVE  Kept(f)
<1>1. Agree(sent, Made[1], theirs)
  BY SentMade
<1>2. Arrives(sent, theirs, body, f)
  BY <1>1, AgreeArrives
<1> QED
  BY <1>2, ArrivedIsKept

LEMMA KeyIsKept ==
    ASSUME Progress, stage = "sent", client # Upstream, NEW f, f \in DOMAIN body, "prompt_cache_key" \in Names(f),
           Arrives(Dialected, "prompt_cache_key", body, f)
    PROVE  Kept(f)
<1>1. ~KeyTaken
  BY DEF KeyTaken, Among, Arrives
<1>2. Agree(sent, Dialected, "prompt_cache_key")
  BY <1>1, SentFacts, FinalAgrees
<1>3. Arrives(sent, "prompt_cache_key", body, f)
  BY <1>2, AgreeArrives
<1> QED
  BY <1>3, ArrivedIsKept

LEMMA ChatToResponsesAccounts ==
    ASSUME Progress, stage = "sent", client = "chat", Upstream = "responses", NEW f \in Controls
    PROVE  Kept(f) \/ Told(f)
<1> DEFINE same == {"temperature", "top_p", "metadata", "service_tier", "user", "safety_identifier",
                    "stream_options.include_obfuscation", "top_logprobs", "prompt_cache_retention"}
           dropped == {"stop", "seed", "presence_penalty", "frequency_penalty", "logit_bias", "prediction",
                       "web_search_options"}
           refused == {"store", "background", "n", "modalities", "audio", "input.audio_history",
                       "extra_body.google.cached_content", "extra_body.anthropic.cache_control"}
<1>1. /\ f \in DOMAIN body /\ ~Neutral(f) /\ f \in Fields["chat"] /\ body \in Bodies["chat"]
      /\ f \notin refused
  BY ControlFacts, RefusedControls, SentFacts
<1>2. \A g : g \notin ParallelFields \cup LimitNames => Agree(Chat, body, g)
  BY ChatAgrees DEF Pivoted
<1>3. \A g : g \notin Fields["chat"] /\ g \notin ParallelFields \cup LimitNames => g \notin DOMAIN Chat
  <2>1. \A g : g \notin Fields["chat"] => g \notin DOMAIN body
    BY <1>1, BodiesAssumption DEF Formats
  <2> QED
    BY <1>2, <2>1 DEF Agree
<1>4. CASE f \in same
  <2>1. Agree(Made[1], Chat, f)
    BY <1>4, ChatToResponses DEF ToResponsesRemoved, ToResponsesRenamed
  <2>2. Agree(Chat, body, f)
    BY <1>2, <1>4 DEF ParallelFields, LimitNames
  <2>3. f \notin Touched \cup LostNames
    BY <1>4 DEF Touched, LostNames, ParallelFields, LimitNames, RepairNames, EffortNames
  <2>4. f \in Names(f)
    BY InAlike DEF Names
  <2>5. Arrives(Made[1], f, body, f)
    BY <2>1, <2>2, AgreeTwice, AgreeArrives
  <2> QED
    BY <1>1, <2>3, <2>4, <2>5, MadeIsKept
<1>5. ASSUME NEW theirs, <<f, theirs>> \in ToResponsesRenamed, f # "reasoning_effort"
      PROVE  Kept(f)
  <2>1. <<f, theirs>> \in {<<"response_format", "text.format">>, <<"verbosity", "text.verbosity">>}
    BY <1>5 DEF ToResponsesRenamed
  <2>2. theirs \notin DOMAIN Chat
    BY <1>3, <2>1 DEF Fields, FieldsOfAll, FieldsOfFamily, ParallelFields, LimitNames
  <2>3. Arrives(Made[1], theirs, Chat, f)
    BY <1>5, <2>2, ChatToResponses
  <2>4. Agree(Chat, body, f)
    BY <1>2, <2>1 DEF ParallelFields, LimitNames
  <2>5. Arrives(Made[1], theirs, body, f)
    BY <2>3, <2>4, AgreeArrives
  <2>6. theirs \notin Touched \cup LostNames
    BY <2>1 DEF Touched, LostNames, ParallelFields, LimitNames, RepairNames, EffortNames
  <2>7. theirs \in Names(f)
    <3>1. /\ {"response_format", "text.format", "output_config.format"} \in Meanings
          /\ {"verbosity", "text.verbosity"} \in Meanings
      BY DEF Meanings
    <3> QED
      BY <2>1, <3>1, Homonyms
  <2> QED
    BY <1>1, <2>5, <2>6, <2>7, MadeIsKept
<1>6. CASE f \in {"response_format", "verbosity"}
  <2>1. PICK theirs : <<f, theirs>> \in ToResponsesRenamed
    BY <1>6 DEF ToResponsesRenamed
  <2> QED
    BY <1>5, <1>6, <2>1
<1>7. CASE f = "logprobs"
  <2> DEFINE theirs == "include.message.output_text.logprobs"
  <2>1. body["logprobs"] = TRUE
    <3>1. body["logprobs"]
      BY <1>1, <1>7 DEF Neutral
    <3>2. body["logprobs"] \in BOOLEAN
      BY <1>1, <1>7, ValuesAssumption DEF Formats, Among
    <3> QED
      BY <3>1, <3>2
  <2>2. Agree(Chat, body, "logprobs")
    BY <1>2 DEF ParallelFields, LimitNames
  <2>3. "logprobs" \in DOMAIN Chat /\ Chat["logprobs"] = TRUE
    BY <1>1, <1>7, <2>1, <2>2 DEF Agree
  <2>4. Made = ResponsesOfChat(Chat) /\ Made # Nothing
    BY SentFacts DEF Made
  <2>5. theirs \in DOMAIN Made[1] /\ Made[1][theirs] = TRUE
    BY <2>3, <2>4, ResponsesOfChatLogprobs
  <2>6. Arrives(Made[1], theirs, body, f)
    BY <1>1, <1>7, <2>1, <2>5 DEF Arrives
  <2>7. theirs \notin Touched \cup LostNames
    BY DEF Touched, LostNames, ParallelFields, LimitNames, RepairNames, EffortNames
  <2>8. {"logprobs", "include.message.output_text.logprobs"} \in Meanings
    BY DEF Meanings
  <2>9. theirs \in Names(f)
    BY <1>7, <2>8, Homonyms
  <2> QED
    BY <1>1, <2>6, <2>7, <2>9, MadeIsKept
<1>8. CASE f \in dropped
  <2>1. f \in Warned(client, Upstream, body, to)
    BY <1>1, <1>8 DEF Warned, ChatControlsDropped, Among
  <2> QED
    BY <2>1, WarnedOf, NamedIsTold
<1>9. CASE f = "reasoning_effort"
  BY <1>1, <1>9, EffortIsAccounted DEF EffortField
<1>10. CASE f \in {"max_tokens", "max_completion_tokens"}
  BY <1>1, <1>10, LimitReaches DEF LimitFields, Among
<1>11. CASE f = "prompt_cache_key"
  <2>1. Agree(Dialected, body, f)
    BY <1>11, FamilyKeepsKeys DEF Keys, OpenaiFamily
  <2>2. f \in Names(f)
    BY InAlike DEF Names
  <2> QED
    BY <1>1, <1>11, <2>1, <2>2, AgreeArrives, KeyIsKept
<1>12. CASE f = "input.cache_control"
  BY <1>12 DEF Told, KnownLosses, OpenaiFamily
<1> QED
  <2>1. f \in same \cup dropped \cup {"response_format", "verbosity", "logprobs", "reasoning_effort", "max_tokens",
                                      "max_completion_tokens", "prompt_cache_key", "input.cache_control"}
    BY <1>1 DEF Fields, FieldsOfAll, FieldsOfFamily, Controls
  <2> QED
    BY <1>4, <1>6, <1>7, <1>8, <1>9, <1>10, <1>11, <1>12, <2>1

LEMMA ResponsesToChatAccounts ==
    ASSUME Progress, stage = "sent", client = "responses", Upstream = "chat", NEW f \in Controls
    PROVE  Kept(f) \/ Told(f)
<1> DEFINE same == {"temperature", "top_p", "metadata", "service_tier", "user", "safety_identifier",
                    "stream_options.include_obfuscation", "top_logprobs", "prompt_cache_retention"}
           dropped == {"stop", "seed", "presence_penalty", "frequency_penalty", "max_tool_calls", "truncation",
                       "include.reasoning.encrypted_content"}
           refused == {"store", "background", "n", "modalities", "audio", "input.audio_history", "context_management",
                       "extra_body.google.cached_content", "extra_body.anthropic.cache_control",
                       "previous_response_id", "conversation", "prompt"}
<1>1. f \in DOMAIN body /\ f \in Fields["responses"] /\ body \in Bodies["responses"] /\ f \notin refused
  BY ControlFacts, RefusedControls, SentFacts
<1>2. Made[1] = Chat
  BY DEF Made
<1>3. ASSUME NEW theirs, <<f, theirs>> \in FromResponses(Upstream), theirs \in Names(f),
             theirs \notin Touched \cup LostNames \cup {"logprobs", "tools", "tool_choice"}
      PROVE  Kept(f)
  <2>1. theirs \notin {"logprobs", "tools", "tool_choice"} \cup ParallelFields \cup LimitNames
    BY <1>3 DEF Touched
  <2>2. Arrives(Made[1], theirs, body, f)
    BY <1>2, <1>3, <2>1, ResponsesToChat
  <2> QED
    BY <1>1, <1>3, <2>2, MadeIsKept
<1>4. CASE f \in same
  <2>1. <<f, f>> \in FromResponses(Upstream)
    BY <1>4 DEF FromResponses, ResponsesNames, SharedNames, SharedControls, Same
  <2>2. f \notin Touched \cup LostNames \cup {"logprobs", "tools", "tool_choice"}
    BY <1>4 DEF Touched, LostNames, ParallelFields, LimitNames, RepairNames, EffortNames
  <2>3. f \in Names(f)
    BY InAlike DEF Names
  <2> QED
    BY <1>3, <2>1, <2>2, <2>3
<1>5. CASE f = "text.format"
  <2>1. <<"text.format", "response_format">> \in FromResponses(Upstream)
    BY DEF FromResponses
  <2>2. "response_format" \notin Touched \cup LostNames \cup {"logprobs", "tools", "tool_choice"}
    BY DEF Touched, LostNames, ParallelFields, LimitNames, RepairNames, EffortNames
  <2>3. {"response_format", "text.format", "output_config.format"} \in Meanings
    BY DEF Meanings
  <2>4. "response_format" \in Names(f)
    BY <1>5, <2>3, Homonyms
  <2> QED
    BY <1>3, <1>5, <2>1, <2>2, <2>4
<1>6. CASE f = "text.verbosity"
  <2>1. <<"text.verbosity", "verbosity">> \in FromResponses(Upstream)
    BY DEF FromResponses, ResponsesNames, SharedNames, SharedControls
  <2>2. "verbosity" \notin Touched \cup LostNames \cup {"logprobs", "tools", "tool_choice"}
    BY DEF Touched, LostNames, ParallelFields, LimitNames, RepairNames, EffortNames
  <2>3. {"verbosity", "text.verbosity"} \in Meanings
    BY DEF Meanings
  <2>4. "verbosity" \in Names(f)
    BY <1>6, <2>3, Homonyms
  <2> QED
    BY <1>3, <1>6, <2>1, <2>2, <2>4
<1>7. CASE f = "include.message.output_text.logprobs"
  <2>1. Pivoted = ChatOfResponses(body, "chat") /\ Pivoted # Nothing
    BY SentFacts DEF Pivoted
  <2>2. "logprobs" \in DOMAIN Pivoted[1] /\ Pivoted[1]["logprobs"] = TRUE
    BY <1>1, <1>7, <2>1, ChatOfResponsesLogprobs
  <2>3. Agree(Chat, Pivoted[1], "logprobs")
    BY ChatAgrees DEF ParallelFields, LimitNames
  <2>4. "logprobs" \in DOMAIN Chat /\ Chat["logprobs"] = TRUE
    BY <2>2, <2>3 DEF Agree
  <2>5. body[f] = TRUE
    <3>1. Value(body, "include.message.output_text.logprobs", TRUE) = TRUE
      BY <1>1, ValuesAssumption DEF Formats
    <3> QED
      BY <1>1, <1>7, <3>1 DEF Value, Has
  <2>6. Arrives(Made[1], "logprobs", body, f)
    BY <1>1, <1>2, <2>4, <2>5 DEF Arrives
  <2>7. "logprobs" \notin Touched \cup LostNames
    BY DEF Touched, LostNames, ParallelFields, LimitNames, RepairNames, EffortNames
  <2>8. {"logprobs", "include.message.output_text.logprobs"} \in Meanings
    BY DEF Meanings
  <2>9. "logprobs" \in Names(f)
    BY <1>7, <2>8, Homonyms
  <2> QED
    BY <1>1, <2>6, <2>7, <2>9, MadeIsKept
<1> DEFINE said == ResponsesControlsDropped(body, Upstream, MapsReasoning(to.dialect))
<1>8. \A name \in said : name \in warned
  <2>1. said \subseteq Warned(client, Upstream, body, to)
    BY DEF Warned
  <2> HIDE DEF said
  <2> QED
    BY <2>1, WarnedOf
<1>9. CASE f \in dropped
  <2>1. f \in said
    BY <1>1, <1>9 DEF ResponsesControlsDropped, Among
  <2> HIDE DEF said
  <2> QED
    BY <1>8, <2>1, NamedIsTold
<1>10. CASE f = "include.other"
  <2>1. "include" \in said
    BY <1>1, <1>10 DEF ResponsesControlsDropped, Among
  <2>2. f \in About("include")
    BY <1>10 DEF About
  <2> HIDE DEF said
  <2> QED
    BY <1>8, <2>1, <2>2 DEF Told
<1>11. CASE f = "reasoning.summary"
  <2>1. "reasoning" \in said
    BY <1>1, <1>11 DEF ResponsesControlsDropped, Among
  <2>2. f \in About("reasoning")
    BY <1>11 DEF About
  <2> HIDE DEF said
  <2> QED
    BY <1>8, <2>1, <2>2 DEF Told
<1>12. CASE f = "reasoning.effort"
  BY <1>1, <1>12, EffortIsAccounted DEF EffortField
<1>13. CASE f = "max_output_tokens"
  BY <1>1, <1>13, LimitReaches DEF LimitFields, Among
<1>14. CASE f = "prompt_cache_key"
  <2>1. Agree(Dialected, body, f)
    BY <1>14, FamilyKeepsKeys DEF Keys, OpenaiFamily
  <2>2. f \in Names(f)
    BY InAlike DEF Names
  <2> QED
    BY <1>1, <1>14, <2>1, <2>2, AgreeArrives, KeyIsKept
<1>15. CASE f = "input.cache_control"
  BY <1>15 DEF Told, KnownLosses, OpenaiFamily
<1> QED
  <2>1. f \in same \cup dropped \cup {"text.format", "text.verbosity", "include.message.output_text.logprobs", "include.other",
                                      "reasoning.summary", "reasoning.effort", "max_output_tokens", "prompt_cache_key",
                                      "input.cache_control"}
    BY <1>1 DEF Fields, FieldsOfAll, FieldsOfFamily, Controls
  <2> HIDE DEF said
  <2> QED
    BY <1>4, <1>5, <1>6, <1>7, <1>9, <1>10, <1>11, <1>12, <1>13, <1>14, <1>15, <2>1

\* To Anthropic: what goes through Chat unchanged, and what is made of a shape
LEMMA ToClaudeKeeps ==
    ASSUME Progress, stage = "sent", client # "anthropic", Upstream = "anthropic", NEW f, NEW theirs,
           f \in DOMAIN body, theirs \in Names(f),
           theirs \in {"temperature", "top_p", "metadata", "stop_sequences"},
           theirs \notin Withheld(Chat, to.rejects),
           NEW chats, <<chats, theirs>> \in ToClaude, Arrives(Chat, chats, body, f)
    PROVE  Kept(f)
<1>1. theirs \notin {"tool_choice", "tool_choice.disable_parallel_tool_use", "output_config.format", "tools", "max_tokens"}
                    \cup Withheld(Chat, to.rejects)
  OBVIOUS
<1>2. Arrives(Made[1], theirs, Chat, chats)
  BY <1>1, ChatToClaude
<1>3. Arrives(Made[1], theirs, body, f)
  BY <1>2 DEF Arrives
<1>4. theirs \notin Touched \cup LostNames
  BY DEF Touched, LostNames, ParallelFields, LimitNames, RepairNames, EffortNames
<1> QED
  BY <1>3, <1>4, MadeIsKept

LEMMA ShapeIsKept ==
    ASSUME Progress, stage = "sent", client # "anthropic", Upstream = "anthropic",
           NEW f \in {"response_format", "text.format"}, f \in Controls, Arrives(Chat, "response_format", body, f)
    PROVE  Kept(f)
<1>1. f \in DOMAIN body /\ ~Neutral(f) /\ client \in Formats /\ body \in Bodies[client]
  BY ControlFacts, SentFacts
<1>2. body[f] \in {"json_object", "json_schema"}
  <2>1. Value(body, f, "text") \in {"text", "json_object", "json_schema"}
    BY <1>1, ValuesAssumption
  <2>2. body[f] # "text"
    BY <1>1 DEF Neutral
  <2> QED
    BY <1>1, <2>1, <2>2 DEF Value, Has
<1>3. Made = ClaudeOfChat(Chat, to.rejects) /\ Made # Nothing
  BY SentFacts DEF Made
<1>4. "response_format" \in DOMAIN Chat /\ Chat["response_format"] = body[f]
  BY <1>1 DEF Arrives
<1>5. Arrives(Made[1], "output_config.format", Chat, "response_format")
  BY <1>2, <1>3, <1>4, ClaudeOfChatShape
<1>6. Arrives(Made[1], "output_config.format", body, f)
  BY <1>1, <1>4, <1>5 DEF Arrives
<1>7. "output_config.format" \notin Touched \cup LostNames
  BY DEF Touched, LostNames, ParallelFields, LimitNames, RepairNames, EffortNames
<1>8. {"response_format", "text.format", "output_config.format"} \in Meanings
  BY DEF Meanings
<1>9. "output_config.format" \in Names(f)
  BY <1>8, Homonyms
<1> QED
  BY <1>1, <1>6, <1>7, <1>9, MadeIsKept

\* The mark of a prompt cache
LEMMA MarkIsKept ==
    ASSUME Progress, stage = "sent", client \in OpenaiFamily, Upstream = "anthropic",
           "extra_body.anthropic.cache_control" \in DOMAIN body
    PROVE  Kept("extra_body.anthropic.cache_control")
<1> DEFINE f == "extra_body.anthropic.cache_control"
<1>1. Arrives(Dialected, "cache_control", body, f)
  BY ClaudeMarks
<1>2. Agree(sent, Dialected, "cache_control")
  BY SentFacts, FinalAgrees
<1>3. client # Upstream
  BY DEF OpenaiFamily
<1>4. "cache_control" \in Names(f)
  BY <1>3, AlikeKeys DEF Names
<1> HIDE DEF f
<1>5. Arrives(sent, "cache_control", body, f)
  BY <1>1, <1>2, AgreeArrives
<1> QED
  BY <1>4, <1>5, ArrivedIsKept DEF f

LEMMA ChatToClaudeAccounts ==
    ASSUME Progress, stage = "sent", client = "chat", Upstream = "anthropic", NEW f \in Controls
    PROVE  Kept(f) \/ Told(f)
<1> DEFINE dropped == {"seed", "presence_penalty", "frequency_penalty", "prediction", "web_search_options", "user",
                       "service_tier", "stream_options.include_obfuscation", "verbosity", "prompt_cache_key",
                       "prompt_cache_retention", "safety_identifier", "top_logprobs", "logit_bias"}
           refused == {"store", "background", "n", "modalities", "audio", "input.audio_history", "input.cache_control",
                       "extra_body.google.cached_content"}
<1>1. /\ f \in DOMAIN body /\ ~Neutral(f) /\ f \in Fields["chat"] /\ body \in Bodies["chat"]
      /\ f \notin refused
  BY ControlFacts, RefusedControls, SentFacts
<1>2. \A g : g \notin ParallelFields \cup LimitNames => Agree(Chat, body, g)
  BY ChatAgrees DEF Pivoted
<1>3. Withheld(Chat, to.rejects) = Withheld(body, to.rejects)
  <2>1. Agree(Chat, body, "temperature") /\ Agree(Chat, body, "top_p")
    BY <1>2 DEF ParallelFields, LimitNames
  <2>2. \A g : g \in Withheld(Chat, to.rejects) <=> g \in Withheld(body, to.rejects)
    BY <2>1 DEF Withheld, Among, Agree
  <2> QED
    BY <2>2
<1>4. Warned(client, Upstream, body, to) =
        ChatControlsDropped(body, Upstream, MapsReasoning(to.dialect)) \cup Withheld(body, to.rejects)
  BY DEF Warned
<1>5. CASE f \in {"temperature", "top_p", "metadata", "stop"} /\ f \notin Withheld(body, to.rejects)
  <2> DEFINE theirs == IF f = "stop" THEN "stop_sequences" ELSE f
  <2>1. <<f, theirs>> \in ToClaude /\ theirs \in {"temperature", "top_p", "metadata", "stop_sequences"}
    BY <1>5 DEF ToClaude, Same
  <2>2. theirs \notin Withheld(Chat, to.rejects)
    BY <1>3, <1>5 DEF Withheld, Among
  <2>3. Agree(Chat, body, f)
    BY <1>2, <1>5 DEF ParallelFields, LimitNames
  <2>4. {"stop", "stop_sequences"} \in Meanings
    BY DEF Meanings
  <2>5. theirs \in Names(f)
    <3>1. f \in Names(f)
      BY InAlike DEF Names
    <3>2. f = "stop" => "stop_sequences" \in Names(f)
      BY <2>4, Homonyms
    <3> QED
      BY <3>1, <3>2
  <2> HIDE DEF theirs
  <2> QED
    BY <1>1, <2>1, <2>2, <2>3, <2>5, AgreeArrives, ToClaudeKeeps
<1>6. CASE f \in Withheld(body, to.rejects)
  BY <1>4, <1>6, WarnedOf, NamedIsTold
<1>7. CASE f = "response_format"
  <2>1. Arrives(Chat, "response_format", body, f)
    BY <1>2, <1>7, AgreeArrives DEF ParallelFields, LimitNames
  <2> QED
    BY <1>7, <2>1, ShapeIsKept
<1>8. CASE f \in dropped \cup {"logprobs"}
  <2>1. f = "logprobs" => Value(body, f, FALSE)
    <3>1. f = "logprobs" => body[f]
      BY <1>1 DEF Neutral
    <3>2. f = "logprobs" => body[f] \in BOOLEAN
      BY <1>1, ValuesAssumption DEF Formats, Among
    <3> QED
      BY <1>1, <3>1, <3>2 DEF Value, Has
  <2>2. f \in ChatControlsDropped(body, Upstream, MapsReasoning(to.dialect))
    <3>1. CASE f = "logprobs"
      BY <2>1, <3>1 DEF ChatControlsDropped
    <3>2. CASE f \in dropped
      BY <1>1, <3>2 DEF ChatControlsDropped, SharedNames, SharedControls, Among
    <3> QED
      BY <1>8, <3>1, <3>2
  <2> QED
    BY <1>4, <2>2, WarnedOf, NamedIsTold
<1>9. CASE f = "reasoning_effort"
  BY <1>1, <1>9, EffortIsAccounted DEF EffortField
<1>10. CASE f \in {"max_tokens", "max_completion_tokens"}
  BY <1>1, <1>10, LimitReaches DEF LimitFields, Among
<1>11. CASE f = "extra_body.anthropic.cache_control"
  BY <1>1, <1>11, MarkIsKept DEF OpenaiFamily
<1> QED
  <2>1. f \in dropped \cup {"logprobs", "temperature", "top_p", "metadata", "stop", "response_format", "reasoning_effort",
                            "max_tokens", "max_completion_tokens", "extra_body.anthropic.cache_control"}
    BY <1>1 DEF Fields, FieldsOfAll, FieldsOfFamily, Controls
  <2> QED
    BY <1>5, <1>6, <1>7, <1>8, <1>9, <1>10, <1>11, <2>1

LEMMA ResponsesToClaudeAccounts ==
    ASSUME Progress, stage = "sent", client = "responses", Upstream = "anthropic", NEW f \in Controls
    PROVE  Kept(f) \/ Told(f)
<1> DEFINE dropped == {"stop", "seed", "presence_penalty", "frequency_penalty", "max_tool_calls", "truncation",
                       "include.reasoning.encrypted_content", "user", "service_tier", "stream_options.include_obfuscation",
                       "prompt_cache_key", "prompt_cache_retention", "safety_identifier", "top_logprobs", "text.verbosity"}
           refused == {"store", "background", "n", "modalities", "audio", "input.audio_history", "context_management",
                       "input.cache_control", "extra_body.google.cached_content", "previous_response_id", "conversation",
                       "prompt"}
<1>1. f \in DOMAIN body /\ f \in Fields["responses"] /\ body \in Bodies["responses"] /\ f \notin refused
  BY ControlFacts, RefusedControls, SentFacts
<1>2. \A chats : /\ <<f, chats>> \in FromResponses(Upstream)
                 /\ chats \notin {"logprobs", "tools", "tool_choice"} \cup ParallelFields \cup LimitNames
                 => Arrives(Chat, chats, body, f)
  BY ResponsesToChat
<1>3. Withheld(Chat, to.rejects) = Withheld(body, to.rejects)
  <2>1. \A g \in {"temperature", "top_p"} : <<g, g>> \in FromResponses(Upstream)
    BY DEF FromResponses, Same
  <2>2. \A g \in {"temperature", "top_p"} : Agree(Chat, body, g)
    BY <2>1, ResponsesToChat, AgreeArrives DEF ParallelFields, LimitNames
  <2>3. \A g : g \in Withheld(Chat, to.rejects) <=> g \in Withheld(body, to.rejects)
    BY <2>2 DEF Withheld, Among, Agree
  <2> QED
    BY <2>3
<1> DEFINE said == ResponsesControlsDropped(body, Upstream, MapsReasoning(to.dialect))
<1>4. /\ \A name \in said : name \in warned
      /\ \A name \in Withheld(body, to.rejects) : name \in warned
  <2>1. Warned(client, Upstream, body, to) = said \cup ToolsDropped(body) \cup Withheld(body, to.rejects)
    BY DEF Warned
  <2> HIDE DEF said
  <2> QED
    BY <2>1, WarnedOf
<1>5. CASE f \in {"temperature", "top_p", "metadata"} /\ f \notin Withheld(body, to.rejects)
  <2>1. <<f, f>> \in ToClaude
    BY <1>5 DEF ToClaude, Same
  <2>2. f \notin Withheld(Chat, to.rejects)
    BY <1>3, <1>5
  <2>3. <<f, f>> \in FromResponses(Upstream)
    BY <1>5 DEF FromResponses, ResponsesNames, SharedNames, SharedControls, Same
  <2>4. Arrives(Chat, f, body, f)
    BY <1>2, <1>5, <2>3 DEF ParallelFields, LimitNames
  <2>5. f \in Names(f)
    BY InAlike DEF Names
  <2> HIDE DEF said
  <2> QED
    BY <1>1, <1>5, <2>1, <2>2, <2>4, <2>5, ToClaudeKeeps
<1>6. CASE f \in Withheld(body, to.rejects)
  <2> HIDE DEF said
  <2> QED
    BY <1>4, <1>6, NamedIsTold
<1>7. CASE f = "text.format"
  <2>1. <<f, "response_format">> \in FromResponses(Upstream)
    BY <1>7 DEF FromResponses
  <2>2. Arrives(Chat, "response_format", body, f)
    BY <1>2, <2>1 DEF ParallelFields, LimitNames
  <2> QED
    BY <1>7, <2>2, ShapeIsKept
<1>8. CASE f \in dropped
  <2>1. f \in said
    BY <1>1, <1>8 DEF ResponsesControlsDropped, SharedControls, Among, Has
  <2> HIDE DEF said
  <2> QED
    BY <1>4, <2>1, NamedIsTold
<1>9. CASE f \in {"include.other", "include.message.output_text.logprobs"}
  <2>1. "include" \in said
    BY <1>1, <1>9 DEF ResponsesControlsDropped, Among
  <2>2. f \in About("include")
    BY <1>9 DEF About
  <2> HIDE DEF said
  <2> QED
    BY <1>4, <2>1, <2>2 DEF Told
<1>10. CASE f = "reasoning.summary"
  <2>1. "reasoning" \in said
    BY <1>1, <1>10 DEF ResponsesControlsDropped, Among
  <2>2. f \in About("reasoning")
    BY <1>10 DEF About
  <2> HIDE DEF said
  <2> QED
    BY <1>4, <2>1, <2>2 DEF Told
<1>11. CASE f = "reasoning.effort"
  BY <1>1, <1>11, EffortIsAccounted DEF EffortField
<1>12. CASE f = "max_output_tokens"
  BY <1>1, <1>12, LimitReaches DEF LimitFields, Among
<1>13. CASE f = "extra_body.anthropic.cache_control"
  BY <1>1, <1>13, MarkIsKept DEF OpenaiFamily
<1> QED
  <2>1. f \in dropped \cup {"temperature", "top_p", "metadata", "text.format", "include.message.output_text.logprobs",
                            "include.other", "reasoning.summary", "reasoning.effort", "max_output_tokens",
                            "extra_body.anthropic.cache_control"}
    BY <1>1 DEF Fields, FieldsOfAll, FieldsOfFamily, Controls
  <2> HIDE DEF said
  <2> QED
    BY <1>5, <1>6, <1>7, <1>8, <1>9, <1>10, <1>11, <1>12, <1>13, <2>1

LEMMA ClaudeAccounts ==
    ASSUME Progress, stage = "sent", client = "anthropic", Upstream \in OpenaiFamily, NEW f \in Controls
    PROVE  Kept(f) \/ Told(f)
<1>1. /\ f \in DOMAIN body /\ f \in Fields["anthropic"] /\ f # "store" /\ client # Upstream
      /\ Upstream \in {"chat", "responses"}
  BY ControlFacts, RefusedControls DEF OpenaiFamily
<1>2. ASSUME NEW theirs, <<f, theirs>> \in FromClaude, theirs \in Names(f),
             theirs \notin Touched \cup LostNames,
             Upstream = "responses" => theirs \in {"temperature", "top_p", "prompt_cache_retention"}
      PROVE  Kept(f)
  <2>1. theirs \notin ParallelFields \cup LimitNames
    BY <1>2 DEF Touched
  <2>2. Arrives(Chat, theirs, body, f)
    BY <1>2, <2>1, ClaudeToChat
  <2>3. Agree(Made[1], Chat, theirs)
    <3>1. CASE Upstream = "chat"
      BY <3>1 DEF Made, Agree
    <3>2. CASE Upstream = "responses"
      <4>1. theirs \notin ToResponsesRemoved \cup {r[2] : r \in ToResponsesRenamed}
                     \cup {"include.message.output_text.logprobs", "max_output_tokens", "tool_choice"}
        BY <1>2, <3>2 DEF ToResponsesRemoved, ToResponsesRenamed
      <4> QED
        BY <1>1, <3>2, <4>1, ChatToResponses
    <3> QED
      BY <1>1, <3>1, <3>2
  <2>4. Arrives(Made[1], theirs, body, f)
    BY <2>2, <2>3, AgreeArrives
  <2> QED
    BY <1>1, <1>2, <2>4, MadeIsKept
<1>3. CASE f \in {"temperature", "top_p"}
  <2>1. <<f, f>> \in FromClaude
    BY <1>3 DEF FromClaude, Same
  <2>2. f \notin Touched \cup LostNames
    BY <1>3 DEF Touched, LostNames, ParallelFields, LimitNames, RepairNames, EffortNames
  <2>3. f \in Names(f)
    BY InAlike DEF Names
  <2> QED
    BY <1>2, <1>3, <2>1, <2>2, <2>3
<1>4. CASE f = "extra_body.openai.prompt_cache_retention"
  <2>1. <<f, "prompt_cache_retention">> \in FromClaude
    BY <1>4 DEF FromClaude
  <2>2. "prompt_cache_retention" \notin Touched \cup LostNames
    BY DEF Touched, LostNames, ParallelFields, LimitNames, RepairNames, EffortNames
  <2>3. "prompt_cache_retention" \in Names(f)
    BY <1>1, <1>4, AlikeKeys DEF Names
  <2> QED
    BY <1>2, <2>1, <2>2, <2>3
<1>5. CASE f = "extra_body.openai.prompt_cache_key"
  <2>1. Arrives(Dialected, "prompt_cache_key", body, f)
    BY <1>5, ClaudeKeys DEF Keys, KeyExtra
  <2>2. "prompt_cache_key" \in Names(f)
    BY <1>1, <1>5, AlikeKeys DEF Names
  <2> QED
    BY <1>1, <2>1, <2>2, KeyIsKept
<1>6. CASE f = "extra_body.openai.reasoning_effort"
  <2>1. Upstream # "anthropic"
    BY <1>1
  <2> QED
    BY <1>1, <1>6, <2>1, ExtraEffortIsAccounted
<1>7. CASE f = "max_tokens"
  BY <1>1, <1>7, LimitReaches DEF LimitFields, Among
<1>8. CASE f = "stop_sequences"
  <2>1. CASE Upstream = "chat"
    <3>1. <<f, "stop">> \in FromClaude
      BY <1>8 DEF FromClaude
    <3>2. "stop" \notin Touched \cup LostNames
      BY DEF Touched, LostNames, ParallelFields, LimitNames, RepairNames, EffortNames
    <3>3. {"stop", "stop_sequences"} \in Meanings
      BY DEF Meanings
    <3>4. "stop" \in Names(f)
      BY <1>1, <1>8, <3>3, Homonyms
    <3> QED
      BY <1>2, <2>1, <3>1, <3>2, <3>4
  <2>2. CASE Upstream = "responses"
    BY <1>8, <2>2 DEF Told, KnownLosses
  <2> QED
    BY <1>1, <2>1, <2>2
<1>9. CASE f \in {"metadata", "output_config.format", "output_config.effort"}
  BY <1>9 DEF Told, KnownLosses
<1>10. \A name \in AnthropicControlsDropped(body) : name \in warned
  <2>1. Warned(client, Upstream, body, to) = AnthropicControlsDropped(body)
    BY <1>1 DEF Warned
  <2> QED
    BY <2>1, WarnedOf
<1>11. CASE f \in {"thinking", "context_management", "container", "top_k", "service_tier"}
  <2>1. f \in AnthropicControlsDropped(body)
    BY <1>1, <1>11 DEF AnthropicControlsDropped, Among
  <2> QED
    BY <1>10, <2>1, NamedIsTold
<1>12. CASE f \in {"cache_control", "input.cache_control"}
  <2>1. "cache_control" \in AnthropicControlsDropped(body)
    BY <1>1, <1>12 DEF AnthropicControlsDropped, Among
  <2>2. f \in About("cache_control")
    BY <1>12 DEF About
  <2> QED
    BY <1>10, <2>1, <2>2 DEF Told
<1> QED
  <2>1. f \in {"temperature", "top_p", "extra_body.openai.prompt_cache_retention", "extra_body.openai.prompt_cache_key",
               "extra_body.openai.reasoning_effort", "max_tokens", "stop_sequences", "metadata", "output_config.format",
               "output_config.effort", "thinking", "context_management", "container", "top_k", "service_tier",
               "cache_control", "input.cache_control"}
    BY <1>1 DEF Fields, FieldsOfAll, FieldsOfFamily, Controls
  <2> QED
    BY <1>3, <1>4, <1>5, <1>6, <1>7, <1>8, <1>9, <1>11, <1>12, <2>1

LEMMA AccountsAreComplete ==
    ASSUME Progress, stage = "sent"
    PROVE  LostSilently \subseteq KnownLosses
<1>1. ASSUME NEW f \in Controls
      PROVE  Kept(f) \/ Told(f)
  <2>1. client \in {"chat", "anthropic", "responses"} /\ Upstream \in {"chat", "anthropic", "responses"}
    BY SentFacts DEF Formats
  <2>2. CASE client = Upstream
    BY <2>2, KeptWithin
  <2>3. CASE client # Upstream
    BY <2>1, <2>3, ChatToResponsesAccounts, ChatToClaudeAccounts, ResponsesToChatAccounts, ResponsesToClaudeAccounts,
       ClaudeAccounts DEF OpenaiFamily
  <2> QED
    BY <2>2, <2>3
<1> QED
  BY <1>1 DEF LostSilently, Told

\* Of every request that is sent: each of its controls reaches the upstream with
\* its value and under a name it has there (translate_request_with_policy and
\* apply_dialect_reasoning_emit), an issue of assess_request_translation_with_surface names it,
\* or it is one of the losses the code is known for.
THEOREM LossesAreKnown == Spec => []OnlyKnownLosses
<1>1. Progress => OnlyKnownLosses
  BY AccountsAreComplete DEF OnlyKnownLosses
<1> QED
  BY <1>1, ProgressHolds, PTL

-----------------------------------------------------------------------------
(* Warnings are true *)

\* Names that no other protocol has another one for
Lonely ==
    {"seed", "presence_penalty", "frequency_penalty", "logit_bias", "prediction", "web_search_options", "user", "service_tier",
     "stream_options.include_obfuscation", "safety_identifier", "top_logprobs", "temperature", "top_p", "max_tool_calls",
     "truncation", "include.reasoning.encrypted_content", "include.other", "reasoning.summary", "context_management",
     "container", "top_k", "thinking", "input.cache_control"}

LEMMA LonelyNames ==
    ASSUME NEW f \in Lonely
    PROVE  Names(f) = {f}
BY Alone DEF Meanings, Lonely

LEMMA PairedNames ==
    ASSUME NEW f, NEW g \in Names(f)
    PROVE  /\ f = "stop" => g \in {"stop", "stop_sequences"}
           /\ f \in {"verbosity", "text.verbosity"} => g \in {"verbosity", "text.verbosity"}
           /\ f \in {"logprobs", "include.message.output_text.logprobs"} =>
                g \in {"logprobs", "include.message.output_text.logprobs"}
           /\ f = "prompt_cache_key" => g \in {"prompt_cache_key", "extra_body.openai.prompt_cache_key"}
           /\ f = "prompt_cache_retention" => g \in {"prompt_cache_retention", "extra_body.openai.prompt_cache_retention"}
           /\ f = "cache_control" => g \in {"cache_control", "extra_body.anthropic.cache_control"}
<1>1. g = f \/ \E meaning \in Meanings : f \in meaning /\ g \in meaning
  BY InAlike DEF Names
<1> QED
  BY <1>1 DEF Meanings

\* What has no name in what the translation makes is lost.
LEMMA UnmadeIsLost ==
    ASSUME Progress, stage = "sent", client # Upstream, NEW f, f # EffortField(client),
           \A g \in Names(f) : g \notin Touched \cup LostNames /\ g \notin DOMAIN Made[1]
    PROVE  ~Reaches(f)
<1>1. \A g \in Names(f) : g \notin DOMAIN sent
  BY SentMade DEF Agree
<1> QED
  BY <1>1, AbsentIsLost

LEMMA ClaudeOfChatWithholds ==
    ASSUME NEW b, NEW rejects, ClaudeOfChat(b, rejects) # Nothing, NEW f \in Withheld(b, rejects)
    PROVE  f \notin DOMAIN ClaudeOfChat(b, rejects)[1]
<1> DEFINE policy == ToolPolicy(b)
           serial == Value(b, "parallel_tool_calls", TRUE) = FALSE
           shape == Value(b, "response_format", "text")
           limit == Value(b, "max_completion_tokens", Value(b, "max_tokens", 4096))
           functions == Those(ToolsOf(b), LAMBDA t : t.kind = "function")
           selected == IF policy.names = Nothing \/ policy.policy = <<"forced">> THEN functions
                       ELSE [i \in DOMAIN policy.names[1] |-> CHOOSE t \in Named(functions, policy.names[1][i]) : TRUE]
           choice == IF policy.policy = Nothing THEN Plain("auto") ELSE ChoiceOfPolicy(policy.policy[1], policy.names[1])
           chosen == policy.policy # Nothing \/ (serial /\ ToolsOf(b) # <<>>)
           allowed == Without(Carried(b, ToClaude), Withheld(b, rejects))
           limited == Set(allowed, "max_tokens", limit)
           one == With(limited, "tool_choice", chosen, choice)
           two == With(one, "tool_choice.disable_parallel_tool_use", chosen /\ serial /\ choice.type # "none", TRUE)
           three == With(two, "output_config.format", shape = "json_schema", shape)
           four == With(three, "tools", selected # <<>>, selected)
<1>1. ClaudeOfChat(b, rejects) = IF ~policy.ok \/ shape = "json_object" THEN Nothing ELSE <<four>>
  BY DEF ClaudeOfChat, ToClaude
<1>2. ClaudeOfChat(b, rejects)[1] = four
  <2> HIDE DEF four
  <2> QED
    BY <1>1
<1>3. f \in {"temperature", "top_p"}
  BY DEF Withheld, Among
<1>4. f \notin DOMAIN allowed
  BY DEF Without, Restrict
<1> HIDE DEF allowed, limit, chosen, serial, choice, shape, selected
<1>5. f \notin DOMAIN limited
  BY <1>3, <1>4, SetAgrees DEF Agree
<1> HIDE DEF limited
<1>6. f \notin DOMAIN one
  BY <1>3, <1>5, WithAgrees DEF Agree
<1> HIDE DEF one
<1>7. f \notin DOMAIN two
  BY <1>3, <1>6, WithAgrees DEF Agree
<1> HIDE DEF two
<1>8. f \notin DOMAIN three
  BY <1>3, <1>7, WithAgrees DEF Agree
<1> HIDE DEF three
<1>9. f \notin DOMAIN four
  BY <1>3, <1>8, WithAgrees DEF Agree
<1> QED
  BY <1>2, <1>9

\* An effort that nothing maps, or that is capped where the upstream reads it
LEMMA CappedIsLost ==
    ASSUME Progress, stage = "sent", Dialects, Lossy,
           MapsReasoning(to.dialect) => to.dialect.mechanism = OwnMechanism \/ (Upstream = "anthropic" /\ client # "anthropic")
    PROVE  EffortField(client) \in DOMAIN body /\ ~Reaches(EffortField(client))
<1> DEFINE f == EffortField(client)
           effort == Asking[1]
<1>1. /\ client \in Formats /\ Upstream \in Formats /\ f \in DOMAIN body /\ effort = body[f]
      /\ f \in Efforts
  BY SentFacts, DialectFacts, EffortFields
<1>2. Dialected = Emitted(Carriage, Upstream, to.dialect, effort) /\ to.dialect.mechanism \in Mechanisms
  BY DialectFacts
<1>12. effort \in 0..7 /\ Ceiling(to.dialect) \in 0..7
  BY DialectFacts
<1>3. MapsReasoning(to.dialect) => effort > Ceiling(to.dialect) /\ Level(to.dialect, effort) # effort
  BY <1>12 DEF Lossy, Level
<1>4. Names(f) \subseteq Efforts /\ (client = Upstream => Names(f) = {f})
  BY <1>1, EffortsAreAlike DEF Names
<1>5. client # Upstream => \A g \in Efforts : g # EffortField(Upstream) \/ Upstream = "anthropic" => g \notin DOMAIN Carriage
  BY EffortsCarried
<1> HIDE DEF effort
<1>6. SUFFICES ASSUME NEW g \in Names(f), g \in DOMAIN Dialected
               PROVE  Dialected[g] # effort
  <2>1. \A g \in Names(f) : g \in DOMAIN sent => sent[g] # body[f]
    <3> SUFFICES ASSUME NEW g \in Names(f), g \in DOMAIN sent
                 PROVE  sent[g] # body[f]
      OBVIOUS
    <3>1. g # "prompt_cache_key"
      BY <1>4 DEF Efforts
    <3>2. Agree(sent, Dialected, g)
      BY <3>1, DialectFacts
    <3> QED
      BY <1>1, <1>6, <3>2 DEF Agree
  <2>2. ~(to.dialect.mechanism = "anthropic-thinking" /\ ClientEffort(client, body)[1] <= Ceiling(to.dialect))
    <3>1. to.dialect.mechanism = "anthropic-thinking" => effort > Ceiling(to.dialect)
      BY <1>3 DEF MapsReasoning
    <3>2. effort > Ceiling(to.dialect) => ~(effort <= Ceiling(to.dialect))
      BY <1>12
    <3> QED
      BY <3>1, <3>2 DEF effort, Asking
  <2>3. ~Reaches(f)
    <3> HIDE DEF f
    <3> QED
      BY <2>1, <2>2 DEF Reaches, Among
  <2> QED
    BY <1>1, <2>3
<1>7. g \in Efforts
  BY <1>4, <1>6
<1> HIDE DEF f
<1>8. CASE to.dialect.mechanism = "openai-effort"
  <2> DEFINE own == IF Upstream = "responses" THEN "reasoning.effort" ELSE "reasoning_effort"
  <2>1. /\ Dialected[own] = Level(to.dialect, effort)
        /\ \A h : h \notin {"reasoning_effort", "reasoning.effort"} => Agree(Dialected, Carriage, h)
        /\ \A h : Upstream # "responses" /\ h # "reasoning_effort" => Agree(Dialected, Carriage, h)
        /\ Upstream = "responses" => "reasoning_effort" \notin DOMAIN Dialected
    <3>1. own = IF Upstream = "responses" THEN "reasoning.effort" ELSE "reasoning_effort"
      OBVIOUS
    <3> HIDE DEF own
    <3>2. own \in DOMAIN Dialected /\ Dialected[own] = Level(to.dialect, effort)
      BY <1>2, <1>8, <3>1, OpenaiEmits
    <3>3. \A h : h \notin {"reasoning_effort", "reasoning.effort"} => Agree(Dialected, Carriage, h)
      BY <1>2, <1>8, <3>1, OpenaiEmits
    <3>4. \A h : Upstream # "responses" /\ h # "reasoning_effort" => Agree(Dialected, Carriage, h)
      BY <1>2, <1>8, <3>1, OpenaiEmits
    <3>5. Upstream = "responses" => "reasoning_effort" \notin DOMAIN Dialected
      BY <1>2, <1>8, <3>1, OpenaiEmits
    <3> QED
      BY <3>2, <3>3, <3>4, <3>5
  <2>2. Dialected[own] # effort
    BY <1>3, <1>8, <2>1 DEF MapsReasoning
  <2>3. CASE g = own
    BY <2>2, <2>3
  <2>4. CASE g # own
    <3>1. g \in DOMAIN Carriage
      BY <1>6, <2>1, <2>4 DEF Agree
    <3>2. client # Upstream => g = EffortField(Upstream) /\ Upstream # "anthropic"
      BY <1>5, <1>7, <3>1
    <3>3. Upstream # "anthropic" => own = EffortField(Upstream)
      BY <1>1 DEF EffortField, Formats
    <3>4. client = Upstream => g = EffortField(Upstream) /\ Upstream # "anthropic"
      <4>1. client = Upstream => g = EffortField(Upstream)
        BY <1>4, <1>6 DEF f
      <4>2. client = Upstream => Upstream # "anthropic"
        BY <1>8 DEF MapsReasoning, OwnMechanism
      <4> QED
        BY <4>1, <4>2
    <3> QED
      BY <2>4, <3>2, <3>3, <3>4
  <2> QED
    BY <2>3, <2>4
<1>9. CASE to.dialect.mechanism = "anthropic-effort"
  <2>1. /\ Dialected["output_config.effort"] = Level(to.dialect, effort)
        /\ \A h : h # "output_config.effort" => Agree(Dialected, Carriage, h)
    BY <1>2, <1>9, AnthropicEmits
  <2>2. Dialected["output_config.effort"] # effort
    BY <1>3, <1>9, <2>1 DEF MapsReasoning
  <2>3. Upstream = "anthropic"
    BY <1>9 DEF MapsReasoning, OwnMechanism
  <2>4. CASE g = "output_config.effort"
    BY <2>2, <2>4
  <2>5. CASE g # "output_config.effort"
    <3>1. g \in DOMAIN Carriage
      BY <1>6, <2>1, <2>5 DEF Agree
    <3>2. client = Upstream
      BY <1>5, <1>7, <2>3, <3>1
    <3>3. g = "output_config.effort"
      BY <1>4, <1>6, <2>3, <3>2 DEF f, EffortField
    <3> QED
      BY <2>5, <3>3
  <2> QED
    BY <2>4, <2>5
<1>10. CASE to.dialect.mechanism = "anthropic-thinking"
  <2>1. \A h : h # "thinking" => Agree(Dialected, Carriage, h)
    BY <1>2, <1>10, ThinkingEmits
  <2>2. g # "thinking"
    BY <1>7 DEF Efforts
  <2>3. g \in DOMAIN Carriage
    BY <1>6, <2>1, <2>2 DEF Agree
  <2>4. Upstream = "anthropic" /\ client # "anthropic"
    BY <1>10 DEF MapsReasoning, OwnMechanism
  <2> QED
    BY <1>5, <1>7, <2>3, <2>4
<1>11. CASE to.dialect.mechanism \in {"auto-only", "none"}
  <2>1. \A h : h = EffortField(Upstream) \/ h \notin DOMAIN Carriage => h \notin DOMAIN Dialected
    BY <1>2, <1>11, NothingEmits
  <2>2. g # EffortField(Upstream)
    BY <1>6, <2>1
  <2>3. client # Upstream
    BY <1>4, <1>6, <2>2 DEF f
  <2>4. g \notin DOMAIN Carriage
    BY <1>5, <1>7, <2>2, <2>3
  <2> QED
    BY <1>6, <2>1, <2>4
<1> QED
  BY <1>2, <1>8, <1>9, <1>10, <1>11 DEF Mechanisms

\* An effort on its way to Anthropic that no dialect looks at, or none maps
LEMMA EffortIsLost ==
    ASSUME Progress, stage = "sent", client \in OpenaiFamily, Upstream = "anthropic",
           MapsReasoning(to.dialect) => Asking = Nothing
    PROVE  ~Reaches(EffortField(client))
<1>1. client # Upstream
  BY DEF OpenaiFamily
<1>2. CASE Dialects
  <2>1. ~MapsReasoning(to.dialect)
    BY <1>2 DEF Dialects
  <2> QED
    BY <1>2, <2>1, CappedIsLost DEF Lossy
<1>3. CASE ~Dialects
  <2> DEFINE f == EffortField(client)
  <2>1. Names(f) \subseteq Efforts
    BY SentFacts, EffortFields, EffortsAreAlike DEF Names
  <2>2. \A g \in Efforts : g \notin DOMAIN Carriage
    BY <1>1, EffortsCarried
  <2>3. \A g \in Efforts : g # "prompt_cache_key"
    BY DEF Efforts
  <2>4. \A g \in Names(f) : g \notin DOMAIN sent
    BY <1>3, <2>1, <2>2, <2>3, DialectFacts DEF Agree
  <2>5. ~(to.dialect.mechanism = "anthropic-thinking" /\ ClientEffort(client, body) # Nothing)
    BY DEF MapsReasoning, Asking
  <2> HIDE DEF f
  <2>6. ~Reaches(f)
    BY <2>4, <2>5 DEF Reaches, Among
  <2> QED
    BY <2>6 DEF f
<1> QED
  BY <1>2, <1>3

LEMMA NamesItself ==
    ASSUME NEW name, name \in DOMAIN body
    PROVE  name \in Among(body, About(name))
BY DEF Among, About

LEMMA ChatToResponsesWarns ==
    ASSUME Progress, stage = "sent", client = "chat", Upstream = "responses", NEW name \in Warned(client, Upstream, body, to)
    PROVE  \E field \in Among(body, About(name)) : ~Reaches(field)
<1> DEFINE dropped == {"stop", "seed", "presence_penalty", "frequency_penalty", "logit_bias", "prediction",
                       "web_search_options"}
<1>1. name \in DOMAIN body /\ name \in dropped
  BY DEF Warned, ChatControlsDropped, Among
<1>2. "stop_sequences" \notin DOMAIN Made[1]
  <2>1. "stop_sequences" \notin DOMAIN body
    <3>1. "stop_sequences" \notin Fields["chat"]
      BY DEF Fields, FieldsOfAll, FieldsOfFamily
    <3> QED
      BY <3>1, SentFacts, BodiesAssumption
  <2>2. Agree(Chat, body, "stop_sequences")
    BY ChatAgrees DEF Pivoted, ParallelFields, LimitNames
  <2>3. Agree(Made[1], Chat, "stop_sequences")
    BY ChatToResponses DEF ToResponsesRemoved, ToResponsesRenamed
  <2> QED
    BY <2>1, <2>2, <2>3 DEF Agree
<1>3. ASSUME NEW g \in Names(name)
      PROVE  g \notin Touched \cup LostNames /\ g \notin DOMAIN Made[1]
  <2>1. g \in dropped \cup {"stop_sequences"}
    BY <1>1, LonelyNames, PairedNames DEF Lonely
  <2>2. g \notin Touched \cup LostNames
    BY <2>1 DEF Touched, LostNames, ParallelFields, LimitNames, RepairNames, EffortNames
  <2>3. g \in dropped => g \notin DOMAIN Made[1]
    BY ChatToResponses DEF ToResponsesRemoved
  <2> QED
    BY <1>2, <2>1, <2>2, <2>3
<1>4. ~Reaches(name)
  <2>1. name # EffortField(client)
    BY <1>1 DEF EffortField
  <2> QED
    BY <1>3, <2>1, UnmadeIsLost
<1> QED
  BY <1>1, <1>4, NamesItself

\* What a renaming does not give is not there.
LEMMA NotForClaude ==
    ASSUME Progress, stage = "sent", client # "anthropic", Upstream = "anthropic", NEW g,
           g \notin {"temperature", "top_p", "metadata", "stop_sequences", "cache_control", "tool_choice",
                     "tool_choice.disable_parallel_tool_use", "output_config.format", "tools", "max_tokens"}
    PROVE  g \notin DOMAIN Made[1]
<1>1. \A q \in ToClaude : q[2] # g
  BY DEF ToClaude, Same
<1>2. g \notin Withheld(Chat, to.rejects)
  BY DEF Withheld, Among
<1> QED
  BY <1>1, <1>2, ChatToClaude

LEMMA KeyIsLost ==
    ASSUME Progress, stage = "sent", client \in OpenaiFamily, Upstream = "anthropic"
    PROVE  ~Reaches("prompt_cache_key")
<1>1. ~KeyTaken
  BY DEF KeyTaken, OpenaiFamily
<1>2. ASSUME NEW g \in Names("prompt_cache_key")
      PROVE  g \notin DOMAIN sent
  <2>1. g \in {"prompt_cache_key", "extra_body.openai.prompt_cache_key"}
    BY PairedNames
  <2>2. g \notin DOMAIN Dialected
    BY <2>1, ClaudeMarks DEF Own, Keys, Extras
  <2>3. Agree(sent, Dialected, g)
    BY <1>1, SentFacts, FinalAgrees
  <2> QED
    BY <2>2, <2>3 DEF Agree
<1>3. "prompt_cache_key" # EffortField(client)
  BY SentFacts DEF EffortField, Formats
<1> QED
  BY <1>2, <1>3, AbsentIsLost

LEMMA WithheldIsLost ==
    ASSUME Progress, stage = "sent", client # "anthropic", Upstream = "anthropic",
           NEW name \in Withheld(body, to.rejects), Withheld(Chat, to.rejects) = Withheld(body, to.rejects)
    PROVE  name \in DOMAIN body /\ ~Reaches(name)
<1>1. name \in {"temperature", "top_p"} /\ name \in DOMAIN body
  BY DEF Withheld, Among
<1>2. Made = ClaudeOfChat(Chat, to.rejects) /\ Made # Nothing
  BY SentFacts DEF Made
<1>3. name \notin DOMAIN Made[1]
  BY <1>2, ClaudeOfChatWithholds
<1>4. Names(name) = {name}
  BY <1>1, LonelyNames DEF Lonely
<1>5. name \notin Touched \cup LostNames
  BY <1>1 DEF Touched, LostNames, ParallelFields, LimitNames, RepairNames, EffortNames
<1>6. name # EffortField(client)
  BY <1>1, SentFacts DEF EffortField, Formats
<1> QED
  BY <1>1, <1>3, <1>4, <1>5, <1>6, UnmadeIsLost

\* Fields that an Anthropic upstream has nothing for
Foreign ==
    {"seed", "presence_penalty", "frequency_penalty", "prediction", "web_search_options", "user", "service_tier",
     "stream_options.include_obfuscation", "verbosity", "text.verbosity", "prompt_cache_retention", "safety_identifier",
     "top_logprobs", "logit_bias", "logprobs", "include.message.output_text.logprobs", "include.other",
     "include.reasoning.encrypted_content", "max_tool_calls", "truncation", "reasoning.summary"}

LEMMA ForeignIsLost ==
    ASSUME Progress, stage = "sent", client \in OpenaiFamily, Upstream = "anthropic", NEW f \in Foreign
    PROVE  ~Reaches(f)
<1>1. client # Upstream /\ client # "anthropic"
  BY DEF OpenaiFamily
<1>2. ASSUME NEW g \in Names(f)
      PROVE  g \notin Touched \cup LostNames /\ g \notin DOMAIN Made[1]
  <2>1. g \in Foreign \cup {"extra_body.openai.prompt_cache_retention"}
    BY LonelyNames, PairedNames DEF Lonely, Foreign
  <2>2. g \notin Touched \cup LostNames
    BY <2>1 DEF Foreign, Touched, LostNames, ParallelFields, LimitNames, RepairNames, EffortNames
  <2>3. g \notin DOMAIN Made[1]
    BY <1>1, <2>1, NotForClaude DEF Foreign
  <2> QED
    BY <2>2, <2>3
<1>3. f # EffortField(client)
  BY SentFacts DEF Foreign, EffortField, Formats
<1> QED
  BY <1>1, <1>2, <1>3, UnmadeIsLost

LEMMA ChatToClaudeWarns ==
    ASSUME Progress, stage = "sent", client = "chat", Upstream = "anthropic", NEW name \in Warned(client, Upstream, body, to)
    PROVE  \E field \in Among(body, About(name)) : ~Reaches(field)
<1>1. Warned(client, Upstream, body, to) =
        ChatControlsDropped(body, Upstream, MapsReasoning(to.dialect)) \cup Withheld(body, to.rejects)
  BY DEF Warned
<1>2. CASE name \in Withheld(body, to.rejects)
  <2>1. Agree(Chat, body, "temperature") /\ Agree(Chat, body, "top_p")
    BY ChatAgrees DEF Pivoted, ParallelFields, LimitNames
  <2>2. \A g : g \in Withheld(Chat, to.rejects) <=> g \in Withheld(body, to.rejects)
    BY <2>1 DEF Withheld, Among, Agree
  <2>3. Withheld(Chat, to.rejects) = Withheld(body, to.rejects)
    BY <2>2
  <2> QED
    BY <1>2, <2>3, WithheldIsLost, NamesItself
<1>3. CASE name \in ChatControlsDropped(body, Upstream, MapsReasoning(to.dialect))
  <2>1. /\ name \in DOMAIN body
        /\ name \in Foreign \cup {"prompt_cache_key", "reasoning_effort"}
        /\ name = "reasoning_effort" => ~MapsReasoning(to.dialect)
    BY <1>3 DEF ChatControlsDropped, SharedNames, SharedControls, Among, Foreign, Value, Has
  <2>2. CASE name \in Foreign
    BY <2>1, <2>2, ForeignIsLost, NamesItself DEF OpenaiFamily
  <2>3. CASE name = "prompt_cache_key"
    BY <2>1, <2>3, KeyIsLost, NamesItself DEF OpenaiFamily
  <2>4. CASE name = "reasoning_effort"
    <3>1. ~Reaches(EffortField(client))
      BY <2>1, <2>4, EffortIsLost DEF OpenaiFamily
    <3>2. EffortField(client) = name
      BY <2>4 DEF EffortField
    <3> QED
      BY <2>1, <3>1, <3>2, NamesItself
  <2> QED
    BY <2>1, <2>2, <2>3, <2>4
<1> QED
  BY <1>1, <1>2, <1>3

LEMMA ResponsesToChatWarns ==
    ASSUME Progress, stage = "sent", client = "responses", Upstream = "chat",
           NEW name \in Warned(client, Upstream, body, to) \ {"tools.hosted", "tools.format"}
    PROVE  \E field \in Among(body, About(name)) : ~Reaches(field)
<1> DEFINE dropped == {"stop", "seed", "presence_penalty", "frequency_penalty", "max_tool_calls", "truncation",
                       "include.reasoning.encrypted_content", "include.other", "reasoning.summary"}
           said == ResponsesControlsDropped(body, Upstream, MapsReasoning(to.dialect))
<1>1. name \in said
  <2>1. Warned(client, Upstream, body, to) = said \cup ToolsDropped(body)
    BY DEF Warned
  <2>2. name \notin ToolsDropped(body)
    BY DEF ToolsDropped
  <2> HIDE DEF said
  <2> QED
    BY <2>1, <2>2
<1>2. PICK field \in dropped : field \in DOMAIN body /\ field \in About(name)
  <2>1. \/ name \in dropped /\ name \in DOMAIN body
        \/ name = "include" /\ "include.other" \in DOMAIN body
        \/ name = "reasoning" /\ "reasoning.summary" \in DOMAIN body
    BY <1>1 DEF ResponsesControlsDropped, SharedControls, SharedNames, Among, Has
  <2>2. CASE name \in dropped /\ name \in DOMAIN body
    BY <2>2 DEF About
  <2>3. CASE name = "include" /\ "include.other" \in DOMAIN body
    BY <2>3 DEF About
  <2>4. CASE name = "reasoning" /\ "reasoning.summary" \in DOMAIN body
    BY <2>4 DEF About
  <2> QED
    BY <2>1, <2>2, <2>3, <2>4
<1> HIDE DEF said
<1>3. ASSUME NEW g \in Names(field)
      PROVE  g \notin Touched \cup LostNames /\ g \notin DOMAIN Made[1]
  <2>1. g \in dropped \cup {"stop_sequences"}
    BY <1>2, LonelyNames, PairedNames DEF Lonely
  <2>2. g \notin Touched \cup LostNames
    BY <2>1 DEF Touched, LostNames, ParallelFields, LimitNames, RepairNames, EffortNames
  <2>3. g \notin {"logprobs", "tools", "tool_choice"} \cup ParallelFields \cup LimitNames
    BY <2>1 DEF ParallelFields, LimitNames
  <2>4. \A q \in FromResponses(Upstream) : q[2] # g
    BY <2>1 DEF FromResponses, ResponsesNames, SharedNames, SharedControls, Same
  <2>5. g \notin DOMAIN Chat
    BY <2>3, <2>4, ResponsesToChat
  <2> QED
    BY <2>2, <2>5 DEF Made
<1>4. ~Reaches(field)
  <2>1. field # EffortField(client)
    BY <1>2 DEF EffortField
  <2> QED
    BY <1>3, <2>1, UnmadeIsLost
<1> QED
  BY <1>2, <1>4 DEF Among

LEMMA ResponsesToClaudeWarns ==
    ASSUME Progress, stage = "sent", client = "responses", Upstream = "anthropic",
           NEW name \in Warned(client, Upstream, body, to) \ {"tools.hosted", "tools.format"}
    PROVE  \/ \E field \in Among(body, About(name)) : ~Reaches(field)
           \/ name = "reasoning" /\ MapsReasoning(to.dialect) /\ ClientEffort(client, body) # Nothing
<1> DEFINE said == ResponsesControlsDropped(body, Upstream, MapsReasoning(to.dialect))
<1>1. name \in said \/ name \in Withheld(body, to.rejects)
  <2>1. Warned(client, Upstream, body, to) = said \cup ToolsDropped(body) \cup Withheld(body, to.rejects)
    BY DEF Warned
  <2>2. name \notin ToolsDropped(body)
    BY DEF ToolsDropped
  <2> HIDE DEF said
  <2> QED
    BY <2>1, <2>2
<1>2. CASE name \in Withheld(body, to.rejects)
  <2>1. \A g \in {"temperature", "top_p"} : <<g, g>> \in FromResponses(Upstream)
    BY DEF FromResponses, Same
  <2>2. \A g \in {"temperature", "top_p"} : Agree(Chat, body, g)
    BY <2>1, ResponsesToChat, AgreeArrives DEF ParallelFields, LimitNames
  <2>3. \A g : g \in Withheld(Chat, to.rejects) <=> g \in Withheld(body, to.rejects)
    BY <2>2 DEF Withheld, Among, Agree
  <2>4. Withheld(Chat, to.rejects) = Withheld(body, to.rejects)
    BY <2>3
  <2> HIDE DEF said
  <2> QED
    BY <1>2, <2>4, WithheldIsLost, NamesItself
<1>3. CASE name \in said
  <2>1. \/ name \in Foreign \cup {"prompt_cache_key", "stop"} /\ name \in DOMAIN body
        \/ /\ name = "include"
           /\ "include.other" \in DOMAIN body \/ "include.message.output_text.logprobs" \in DOMAIN body
        \/ name = "text" /\ "text.verbosity" \in DOMAIN body
        \/ name = "reasoning" /\ "reasoning.summary" \in DOMAIN body
        \/ name = "reasoning" /\ "reasoning.effort" \in DOMAIN body
        \/ name = "reasoning.effort" /\ name \in DOMAIN body /\ ~MapsReasoning(to.dialect)
    BY <1>3 DEF ResponsesControlsDropped, SharedControls, Among, Foreign, Has
  <2> HIDE DEF said
  <2>2. CASE name \in Foreign /\ name \in DOMAIN body
    BY <2>2, ForeignIsLost, NamesItself DEF OpenaiFamily
  <2>3. CASE name = "prompt_cache_key" /\ name \in DOMAIN body
    BY <2>3, KeyIsLost, NamesItself DEF OpenaiFamily
  <2>4. CASE name = "stop" /\ name \in DOMAIN body
    <3>1. "stop" \notin DOMAIN Chat
      <4>1. \A q \in FromResponses(Upstream) : q[2] # "stop"
        BY DEF FromResponses, ResponsesNames, SharedNames, SharedControls, Same
      <4> QED
        BY <4>1, ResponsesToChat DEF ParallelFields, LimitNames
    <3>2. "stop_sequences" \notin DOMAIN Made[1]
      <4>1. <<"stop", "stop_sequences">> \in ToClaude
        BY DEF ToClaude
      <4>2. "stop_sequences" \notin Withheld(Chat, to.rejects)
        BY DEF Withheld, Among
      <4>3. Arrives(Made[1], "stop_sequences", Chat, "stop")
        BY <4>1, <4>2, ChatToClaude
      <4> QED
        BY <3>1, <4>3 DEF Arrives
    <3>3. "stop" \notin DOMAIN Made[1]
      BY NotForClaude
    <3>4. ASSUME NEW g \in Names("stop")
          PROVE  g \notin Touched \cup LostNames /\ g \notin DOMAIN Made[1]
      <4>1. g \in {"stop", "stop_sequences"}
        BY PairedNames
      <4> QED
        BY <3>2, <3>3, <4>1 DEF Touched, LostNames, ParallelFields, LimitNames, RepairNames, EffortNames
    <3>5. ~Reaches("stop")
      <4>1. "stop" # EffortField(client)
        BY DEF EffortField
      <4> QED
        BY <3>4, <4>1, UnmadeIsLost
    <3> QED
      BY <2>4, <3>5, NamesItself
  <2>5. CASE name = "include"
    <3>1. PICK field \in {"include.other", "include.message.output_text.logprobs"} : field \in DOMAIN body
      BY <2>1, <2>5 DEF Foreign
    <3>2. ~Reaches(field)
      BY ForeignIsLost DEF Foreign, OpenaiFamily
    <3>3. field \in About(name)
      BY <2>5 DEF About
    <3> QED
      BY <3>1, <3>2, <3>3 DEF Among
  <2>6. CASE name = "text"
    <3>1. "text.verbosity" \in DOMAIN body
      BY <2>1, <2>6 DEF Foreign
    <3>2. ~Reaches("text.verbosity")
      BY ForeignIsLost DEF Foreign, OpenaiFamily
    <3>3. "text.verbosity" \in About(name)
      BY <2>6 DEF About
    <3> QED
      BY <3>1, <3>2, <3>3 DEF Among
  <2>7. CASE name = "reasoning" /\ "reasoning.summary" \in DOMAIN body
    <3>1. ~Reaches("reasoning.summary")
      BY ForeignIsLost DEF Foreign, OpenaiFamily
    <3>2. "reasoning.summary" \in About(name)
      BY <2>7 DEF About
    <3> QED
      BY <2>7, <3>1, <3>2 DEF Among
  <2>8. CASE name \in {"reasoning", "reasoning.effort"} /\ "reasoning.effort" \in DOMAIN body
    <3>1. EffortField(client) = "reasoning.effort"
      BY DEF EffortField
    <3>2. "reasoning.effort" \in About(name)
      BY <2>8 DEF About
    <3>3. (MapsReasoning(to.dialect) => Asking = Nothing) => ~Reaches("reasoning.effort")
      BY <3>1, EffortIsLost DEF OpenaiFamily
    <3>4. name = "reasoning.effort" => ~MapsReasoning(to.dialect)
      BY <2>1 DEF Foreign
    <3> QED
      BY <2>8, <3>2, <3>3, <3>4 DEF Among, Asking
  <2> QED
    BY <2>1, <2>2, <2>3, <2>4, <2>5, <2>6, <2>7, <2>8
<1> QED
  BY <1>1, <1>2, <1>3

LEMMA ClaudeWarns ==
    ASSUME Progress, stage = "sent", client = "anthropic", Upstream \in OpenaiFamily,
           NEW name \in Warned(client, Upstream, body, to)
    PROVE  \/ \E field \in Among(body, About(name)) : ~Reaches(field)
           \/ name = "thinking" /\ MapsReasoning(to.dialect) /\ to.dialect.mechanism # OwnMechanism
<1> DEFINE dropped == {"context_management", "container", "top_k", "service_tier", "cache_control", "input.cache_control"}
<1>1. client # Upstream /\ Upstream # "anthropic" /\ Upstream \in {"chat", "responses"}
  BY DEF OpenaiFamily
<1>2. Warned(client, Upstream, body, to) = AnthropicControlsDropped(body)
  BY <1>1 DEF Warned
<1>3. ASSUME NEW field \in dropped, field \in DOMAIN body, field \in About(name)
      PROVE  \E f \in Among(body, About(name)) : ~Reaches(f)
  <2>1. field # EffortField(client)
    BY DEF EffortField
  <2>2. CASE field # "input.cache_control"
    <3>1. ASSUME NEW g \in Names(field)
          PROVE  g \notin Touched \cup LostNames /\ g \notin DOMAIN Made[1]
      <4>1. g \in {"context_management", "container", "top_k", "service_tier", "cache_control",
                   "extra_body.anthropic.cache_control"}
        BY <2>2, LonelyNames, PairedNames DEF Lonely
      <4>2. g \notin Touched \cup LostNames
        BY <4>1 DEF Touched, LostNames, ParallelFields, LimitNames, RepairNames, EffortNames
      <4>3. \A q \in FromClaude : q[2] # g
        BY <4>1 DEF FromClaude, Same
      <4>4. g \notin DOMAIN Chat
        BY <4>1, <4>3, ClaudeToChat DEF ParallelFields, LimitNames
      <4>5. CASE Upstream = "chat"
        BY <4>2, <4>4, <4>5 DEF Made
      <4>6. CASE Upstream = "responses"
        <5>1. g \notin ToResponsesRemoved \cup {r[2] : r \in ToResponsesRenamed}
                       \cup {"include.message.output_text.logprobs", "max_output_tokens", "tool_choice"}
          BY <4>1 DEF ToResponsesRemoved, ToResponsesRenamed
        <5>2. Agree(Made[1], Chat, g)
          BY <1>1, <4>6, <5>1, ChatToResponses
        <5> QED
          BY <4>2, <4>4, <5>2 DEF Agree
      <4> QED
        BY <1>1, <4>5, <4>6
    <3> QED
      BY <1>1, <1>3, <2>1, <3>1, UnmadeIsLost DEF Among
  <2>3. CASE field = "input.cache_control"
    <3>1. field \notin DOMAIN Dialected
      BY <1>1, <2>3, OwnAcross DEF Own, Marks
    <3>2. Agree(sent, Dialected, field)
      BY <2>3, SentFacts, FinalAgrees
    <3>3. Names(field) = {field}
      BY <2>3, LonelyNames DEF Lonely
    <3> QED
      BY <1>3, <2>1, <3>1, <3>2, <3>3, AbsentIsLost DEF Agree, Among
  <2> QED
    BY <2>2, <2>3
<1>4. CASE name = "thinking"
  <2>1. name \in DOMAIN body /\ Names(name) = {name} /\ name # EffortField(client)
    BY <1>2, <1>4, LonelyNames DEF AnthropicControlsDropped, Among, Lonely, EffortField
  <2>2. name \notin DOMAIN Carriage
    BY <1>1, <1>4, EffortsCarried, SentFacts DEF EffortField, Formats
  <2>3. CASE Agree(Dialected, Carriage, name) \/ name \notin DOMAIN Dialected
    <3>1. Agree(sent, Dialected, name)
      BY <1>4, DialectFacts
    <3>2. name \notin DOMAIN sent
      BY <2>2, <2>3, <3>1 DEF Agree
    <3> QED
      BY <2>1, <3>2, AbsentIsLost, NamesItself
  <2>4. CASE ~Dialects
    BY <2>3, <2>4, DialectFacts DEF Agree
  <2>5. CASE Dialects
    <3>1. Dialected = Emitted(Carriage, Upstream, to.dialect, Asking[1]) /\ to.dialect.mechanism \in Mechanisms
      BY <2>5, DialectFacts
    <3>2. CASE to.dialect.mechanism = "openai-effort"
      BY <1>4, <2>3, <3>1, <3>2, OpenaiEmits
    <3>3. CASE to.dialect.mechanism = "anthropic-effort"
      BY <1>4, <2>3, <3>1, <3>3, AnthropicEmits
    <3>4. CASE to.dialect.mechanism = "anthropic-thinking"
      BY <1>1, <1>4, <3>4 DEF MapsReasoning, OwnMechanism
    <3>5. CASE to.dialect.mechanism = "auto-only" \/ to.dialect.mechanism = "none"
      BY <2>2, <2>3, <3>1, <3>5, NothingEmits
    <3> QED
      BY <3>1, <3>2, <3>3, <3>4, <3>5 DEF Mechanisms
  <2> QED
    BY <2>4, <2>5
<1>5. CASE name \in {"context_management", "container", "top_k", "service_tier"}
  <2>1. name \in DOMAIN body
    BY <1>2, <1>5 DEF AnthropicControlsDropped, Among
  <2>2. name \in About(name)
    BY DEF About
  <2> QED
    BY <1>3, <1>5, <2>1, <2>2
<1>6. CASE name = "cache_control"
  <2>1. Among(body, {"cache_control", "input.cache_control"}) # {}
    BY <1>2, <1>6 DEF AnthropicControlsDropped, Among
  <2>2. PICK field \in {"cache_control", "input.cache_control"} : field \in DOMAIN body
    BY <2>1 DEF Among
  <2>3. field \in About(name)
    BY <1>6 DEF About
  <2> QED
    BY <1>3, <2>2, <2>3
<1> QED
  BY <1>2, <1>4, <1>5, <1>6 DEF AnthropicControlsDropped, Among

LEMMA WarningsHold ==
    ASSUME Progress, stage = "sent", NEW name \in warned \ {"tools.hosted", "tools.format"}
    PROVE  \/ \E field \in Among(body, About(name)) : ~Reaches(field)
           \/ name = "reasoning" /\ client = "responses" /\ MapsReasoning(to.dialect) /\ ClientEffort(client, body) # Nothing
           \/ /\ name \in {"effort", "thinking"} /\ (Upstream = "anthropic" => client = "anthropic")
              /\ MapsReasoning(to.dialect) /\ to.dialect.mechanism # OwnMechanism
<1>1. client \in {"chat", "anthropic", "responses"} /\ Upstream \in {"chat", "anthropic", "responses"}
  BY SentFacts DEF Formats
<1>2. CASE name \in Warned(client, Upstream, body, to)
  <2>1. client # Upstream
    BY <1>2, WarnedOf
  <2>2. CASE client = "chat"
    BY <1>1, <1>2, <2>1, <2>2, ChatToResponsesWarns, ChatToClaudeWarns
  <2>3. CASE client = "responses"
    BY <1>1, <1>2, <2>1, <2>3, ResponsesToChatWarns, ResponsesToClaudeWarns
  <2>4. CASE client = "anthropic"
    <3>1. Upstream \in OpenaiFamily
      BY <1>1, <2>1, <2>4 DEF OpenaiFamily
    <3> QED
      BY <1>2, <2>4, <3>1, ClaudeWarns
  <2> QED
    BY <1>1, <2>2, <2>3, <2>4
<1>3. CASE Dialects /\ Lossy /\ name = "effort"
  <2>1. CASE /\ Upstream = "anthropic" => client = "anthropic"
             /\ MapsReasoning(to.dialect) /\ to.dialect.mechanism # OwnMechanism
    BY <1>3, <2>1
  <2>2. CASE MapsReasoning(to.dialect) => to.dialect.mechanism = OwnMechanism \/ (Upstream = "anthropic" /\ client # "anthropic")
    <3>1. EffortField(client) \in DOMAIN body /\ ~Reaches(EffortField(client))
      BY <1>3, <2>2, CappedIsLost
    <3>2. EffortField(client) \in About(name)
      BY <1>3, SentFacts, EffortFields, EffortsAreAlike
    <3> QED
      BY <3>1, <3>2 DEF Among
  <2> QED
    BY <2>1, <2>2
<1> QED
  BY <1>2, <1>3, WarnedOf

\* Of every request that is sent: a warning of assess_request_translation_with_surface, or of
\* apply_dialect_reasoning_emit for a capped effort, is about a control that did not
\* reach the upstream as it was, but for the two exceptions WarnedIsDropped states.
THEOREM WarningsAreTrue == Spec => []WarnedIsDropped
<1>1. Progress => WarnedIsDropped
  BY WarningsHold DEF WarnedIsDropped
<1> QED
  BY <1>1, ProgressHolds, PTL

-----------------------------------------------------------------------------
(* Sequences of sequences, joined *)

\* Induction on the natural numbers, for the members of a set: the least number
\* that is missing cannot be.
LEMMA AllNumbers ==
    ASSUME NEW S, 0 \in S, \A n \in Nat : n \in S => n + 1 \in S
    PROVE  \A n \in Nat : n \in S
<1> DEFINE Missing == {n \in Nat : n \notin S}
<1>1. SUFFICES ASSUME Missing # {} PROVE FALSE
  OBVIOUS
<1>2. PICK m \in Missing : \A k \in Missing : ~ (<<k, m>> \in OpToRel(<, Nat))
  BY <1>1, WFMin, NatLessThanWellFounded, Zenon
<1>3. m \in Nat /\ m # 0 /\ m \notin S
  OBVIOUS
<1>4. m - 1 \in Nat /\ <<m - 1, m>> \in OpToRel(<, Nat)
  BY <1>3 DEF OpToRel
<1>5. m - 1 \in S
  BY <1>2, <1>4
<1>6. m = (m - 1) + 1
  BY <1>3
<1> QED
  BY <1>3, <1>4, <1>5, <1>6

\* Joined sequences have what both have.
LEMMA JoinedSet ==
    ASSUME NEW T, NEW a \in Seq(T), NEW b \in Seq(T)
    PROVE  ToSet(a \o b) = ToSet(a) \cup ToSet(b)
<1>1. ASSUME NEW i \in DOMAIN (a \o b)
      PROVE  (a \o b)[i] \in ToSet(a) \cup ToSet(b)
  <2>1. i \in 1..Len(a) + Len(b)
    OBVIOUS
  <2>2. CASE i <= Len(a)
    BY <2>1, <2>2 DEF ToSet
  <2>3. CASE i > Len(a)
    <3>1. (a \o b)[i] = b[i - Len(a)] /\ i - Len(a) \in DOMAIN b
      BY <2>1, <2>3
    <3> QED
      BY <3>1 DEF ToSet
  <2> QED
    BY <2>1, <2>2, <2>3
<1>2. ASSUME NEW i \in DOMAIN a
      PROVE  a[i] \in ToSet(a \o b)
  <2>1. i \in DOMAIN (a \o b) /\ (a \o b)[i] = a[i]
    OBVIOUS
  <2> QED
    BY <2>1 DEF ToSet
<1>3. ASSUME NEW i \in DOMAIN b
      PROVE  b[i] \in ToSet(a \o b)
  <2>1. i + Len(a) \in DOMAIN (a \o b) /\ (a \o b)[i + Len(a)] = b[i]
    OBVIOUS
  <2> QED
    BY <2>1 DEF ToSet
<1> QED
  BY <1>1, <1>2, <1>3 DEF ToSet

\* What FlattenSeq has joined after each of the first n sequences
Joins(joined, s, n) ==
    joined = [i \in 1..n |-> IF i = 1 THEN s[i] ELSE joined[i - 1] \o s[i]]

\* Its recursive definition defines a function.
LEMMA JoinsExist == ASSUME NEW s, NEW n \in Nat PROVE \E joined : Joins(joined, s, n)
<1> DEFINE S == {m \in Nat : \E joined : Joins(joined, s, m)}
<1>1. 0 \in S
  <2>1. Joins([i \in 1..0 |-> 0], s, 0)
    BY DEF Joins
  <2> QED
    BY <2>1
<1>2. ASSUME NEW m \in Nat, m \in S PROVE m + 1 \in S
  <2>1. PICK f : Joins(f, s, m)
    BY <1>2
  <2> DEFINE next == IF m = 0 THEN s[1] ELSE f[m] \o s[m + 1]
             g == [i \in 1..m + 1 |-> IF i = m + 1 THEN next ELSE f[i]]
  <2>2. ASSUME NEW i \in 1..m + 1
        PROVE  g[i] = IF i = 1 THEN s[i] ELSE g[i - 1] \o s[i]
    <3>1. CASE i = m + 1
      <4>1. CASE m = 0
        BY <3>1, <4>1
      <4>2. CASE m # 0
        <5>1. next = f[m] \o s[i]
          BY <3>1, <4>2
        <5>2. i # 1 /\ i - 1 = m /\ m \in 1..m + 1 /\ m # m + 1
          BY <3>1, <4>2
        <5> HIDE DEF next
        <5>3. g[i] = next /\ g[i - 1] = f[m]
          BY <3>1, <5>2
        <5> QED
          BY <5>1, <5>2, <5>3
      <4> QED
        BY <4>1, <4>2
    <3>2. CASE i # m + 1
      <4>1. i \in 1..m /\ g[i] = f[i]
        BY <3>2
      <4>2. f[i] = IF i = 1 THEN s[i] ELSE f[i - 1] \o s[i]
        BY <2>1, <4>1 DEF Joins
      <4>3. i # 1 => g[i - 1] = f[i - 1]
        BY <3>2
      <4> QED
        BY <4>1, <4>2, <4>3
    <3> QED
      BY <3>1, <3>2
  <2>3. g = [i \in 1..m + 1 |-> g[i]]
    OBVIOUS
  <2> HIDE DEF g
  <2>4. Joins(g, s, m + 1)
    BY <2>2, <2>3, Zenon DEF Joins
  <2> QED
    BY <2>4
<1>3. \A m \in Nat : m \in S
  <2> HIDE DEF S
  <2> QED
    BY <1>1, <1>2, AllNumbers
<1> QED
  BY <1>3

LEMMA FlattenUnfolds ==
    ASSUME NEW s, Len(s) \in Nat \ {0}
    PROVE  \E joined : Joins(joined, s, Len(s)) /\ FlattenSeq(s) = joined[Len(s)]
<1> DEFINE n == Len(s)
           join == CHOOSE joined : joined = [i \in 1..Len(s) |-> IF i = 1 THEN s[i] ELSE joined[i - 1] \o s[i]]
<1>1. FlattenSeq(s) = join[Len(s)]
  BY DEF FlattenSeq
<1>2. \E joined : Joins(joined, s, n)
  BY JoinsExist
<1>3. Joins(join, s, Len(s))
  BY <1>2, Zenon DEF Joins
<1> QED
  BY <1>1, <1>3

\* What is in the joined sequence is what is in one of the sequences.
LEMMA FlattenHas ==
    ASSUME NEW T, NEW s \in Seq(Seq(T))
    PROVE  /\ FlattenSeq(s) \in Seq(T)
           /\ \A x \in T : x \in ToSet(FlattenSeq(s)) <=> \E i \in 1..Len(s) : x \in ToSet(s[i])
<1>1. CASE Len(s) = 0
  <2>1. FlattenSeq(s) = s /\ s = <<>>
    BY <1>1 DEF FlattenSeq
  <2> QED
    BY <1>1, <2>1 DEF ToSet
<1>2. CASE Len(s) # 0
  <2>1. PICK f : Joins(f, s, Len(s)) /\ FlattenSeq(s) = f[Len(s)]
    BY <1>2, FlattenUnfolds
  <2> DEFINE Fine(m) == /\ f[m] \in Seq(T)
                        /\ \A x \in T : x \in ToSet(f[m]) <=> \E i \in 1..m : x \in ToSet(s[i])
             S == {m \in Nat : m \in 1..Len(s) => Fine(m)}
  <2>2. 0 \in S
    OBVIOUS
  <2>3. ASSUME NEW m \in Nat, m \in S, m + 1 \in 1..Len(s) PROVE Fine(m + 1)
    <3>1. CASE m = 0
      <4>1. f[1] = s[1]
        BY <2>1, <2>3, <3>1 DEF Joins
      <4> QED
        BY <2>3, <3>1, <4>1
    <3>2. CASE m # 0
      <4>0. m \in 1..Len(s) /\ m + 1 # 1 /\ (m + 1) - 1 = m
        BY <2>3, <3>2
      <4>1. m \in 1..Len(s) /\ f[m + 1] = f[m] \o s[m + 1]
        BY <2>1, <2>3, <4>0, Zenon DEF Joins
      <4>2. Fine(m)
        BY <2>3, <4>1
      <4>3. s[m + 1] \in Seq(T)
        BY <2>3
      <4>4. f[m + 1] \in Seq(T)
        BY <4>1, <4>2, <4>3
      <4>5. ToSet(f[m + 1]) = ToSet(f[m]) \cup ToSet(s[m + 1])
        BY <4>1, <4>2, <4>3, JoinedSet
      <4>6. 1..m + 1 = 1..m \cup {m + 1}
        OBVIOUS
      <4> QED
        BY <4>2, <4>4, <4>5, <4>6
    <3> QED
      BY <3>1, <3>2
  <2>4. \A m \in Nat : m \in S
    <3>1. ASSUME NEW m \in Nat, m \in S PROVE m + 1 \in S
      <4>1. m + 1 \in 1..Len(s) => Fine(m + 1)
        <5> HIDE DEF Fine, S
        <5> QED
          BY <2>3, <3>1
      <4> HIDE DEF Fine
      <4> QED
        BY <4>1
    <3> HIDE DEF S
    <3> QED
      BY <2>2, <3>1, AllNumbers
  <2>5. Fine(Len(s))
    BY <1>2, <2>4
  <2> QED
    BY <2>1, <2>5
<1> QED
  BY <1>1, <1>2

-----------------------------------------------------------------------------
(* Lists of tools *)

AnyTool == [kind : ToolKinds["responses"], name : Seq(STRING), children : Seq(Seq(STRING)), format : ToolFormats]

\* A list of tools may have others in it.
LEMMA ToolsAreTools ==
    ASSUME NEW kinds \in SUBSET ToolKinds["responses"], NEW tools \in ToolsOfKinds(kinds)
    PROVE  /\ tools \in Seq(AnyTool)
           /\ \A t \in ToSet(tools) : t \in AnyTool /\ t.kind \in kinds
<1> DEFINE Some == [kind : kinds, name : Seq(STRING), children : Seq(Seq(STRING)), format : ToolFormats]
<1>1. Some \subseteq AnyTool /\ \A t \in Some : t.kind \in kinds
  BY DEF AnyTool
<1>2. tools \in Seq(Some)
  BY DEF ToolsOfKinds
<1> HIDE DEF Some
<1>3. \A i \in 1..Len(tools) : tools[i] \in Some
  BY <1>2
<1>4. DOMAIN tools = 1..Len(tools)
  BY <1>2
<1>5. \A i \in 1..Len(tools) : tools[i] \in AnyTool
  BY <1>1, <1>3
<1>6. tools \in Seq(AnyTool)
  BY <1>2, <1>5
<1>7. \A t \in ToSet(tools) : t \in Some
  BY <1>3, <1>4 DEF ToSet
<1> QED
  BY <1>1, <1>6, <1>7

\* The members of a sequence that are in a set
Sieve(s, keep) == FlattenSeq([i \in DOMAIN s |-> IF s[i] \in keep THEN <<s[i]>> ELSE <<>>])

LEMMA Sieved ==
    ASSUME NEW T, NEW s \in Seq(T), NEW keep
    PROVE  Sieve(s, keep) \in Seq(T) /\ ToSet(Sieve(s, keep)) = {t \in ToSet(s) : t \in keep}
<1> DEFINE each == [i \in DOMAIN s |-> IF s[i] \in keep THEN <<s[i]>> ELSE <<>>]
           made == Sieve(s, keep)
<1>1. each \in Seq(Seq(T)) /\ Len(each) = Len(s)
  <2>1. DOMAIN s = 1..Len(s) /\ Len(s) \in Nat /\ \A i \in 1..Len(s) : s[i] \in T
    OBVIOUS
  <2>2. \A i \in 1..Len(s) : (IF s[i] \in keep THEN <<s[i]>> ELSE <<>>) \in Seq(T)
    BY <2>1
  <2> QED
    BY <2>1, <2>2
<1>2. \A i \in 1..Len(s) : \A x : x \in ToSet(each[i]) <=> x = s[i] /\ s[i] \in keep
  <2>1. \A y : ToSet(<<y>>) = {y}
    BY DEF ToSet
  <2>2. ToSet(<<>>) = {}
    BY DEF ToSet
  <2>3. \A i \in 1..Len(s) : each[i] = IF s[i] \in keep THEN <<s[i]>> ELSE <<>>
    OBVIOUS
  <2> HIDE DEF each
  <2> QED
    BY <2>1, <2>2, <2>3
<1>0. made = FlattenSeq(each)
  BY DEF Sieve
<1> HIDE DEF each, made
<1>3. made \in Seq(T) /\ \A x \in T : x \in ToSet(made) <=> \E i \in 1..Len(s) : x \in ToSet(each[i])
  BY <1>0, <1>1, FlattenHas
<1>4. \A x \in T : x \in ToSet(made) <=> \E i \in 1..Len(s) : x = s[i] /\ s[i] \in keep
  BY <1>2, <1>3
<1>5. ToSet(made) \subseteq T
  BY <1>3 DEF ToSet
<1>6. ToSet(s) = {s[i] : i \in 1..Len(s)} /\ ToSet(s) \subseteq T
  BY DEF ToSet
<1>7. ASSUME NEW x PROVE x \in ToSet(made) <=> x \in {t \in ToSet(s) : t \in keep}
  BY <1>4, <1>5, <1>6
<1> QED
  BY <1>3, <1>7 DEF made

LEMMA NormalizedHas ==
    ASSUME NEW tools \in Seq(AnyTool)
    PROVE  /\ NormalizedTools(tools) \in Seq(AnyTool)
           /\ ToSet(NormalizedTools(tools)) = {t \in ToSet(tools) : t.kind # "hosted"}
<1> DEFINE keep == {t \in AnyTool : t.kind # "hosted"}
<1>1. \A i \in DOMAIN tools : tools[i] \in keep <=> tools[i].kind # "hosted"
  OBVIOUS
<1>2. NormalizedTools(tools) = Sieve(tools, keep)
  BY <1>1 DEF NormalizedTools, Those, Sieve
<1>3. \A t \in ToSet(tools) : t \in keep <=> t.kind # "hosted"
  BY <1>1 DEF ToSet
<1> HIDE DEF keep
<1> QED
  BY <1>2, <1>3, Sieved

\* The functions that a set of tools lets be called
Callables(tools) ==
    {x \in Seq(STRING) : \E t \in tools :
        IF t.kind = "namespace" THEN \E c \in ToSet(t.children) : x = FlatName(t.name, c) ELSE x = t.name}

LEMMA FunctionNamesHas ==
    ASSUME NEW tools \in Seq(AnyTool)
    PROVE  /\ FunctionNames(tools) \in Seq(Seq(STRING))
           /\ ToSet(FunctionNames(tools)) = Callables(ToSet(tools))
<1> DEFINE each == [i \in DOMAIN tools |->
                IF tools[i].kind = "namespace"
                THEN [c \in DOMAIN tools[i].children |-> FlatName(tools[i].name, tools[i].children[c])]
                ELSE <<tools[i].name>>]
<1>0. DOMAIN tools = 1..Len(tools) /\ Len(tools) \in Nat /\ \A i \in 1..Len(tools) : tools[i] \in AnyTool
  OBVIOUS
<1>1. ASSUME NEW i \in 1..Len(tools)
      PROVE  /\ each[i] \in Seq(Seq(STRING))
             /\ \A x : x \in ToSet(each[i]) <=>
                    IF tools[i].kind = "namespace"
                    THEN \E c \in ToSet(tools[i].children) : x = FlatName(tools[i].name, c) ELSE x = tools[i].name
  <2>1. tools[i].name \in Seq(STRING) /\ tools[i].children \in Seq(Seq(STRING))
    BY <1>0 DEF AnyTool
  <2>2. CASE tools[i].kind = "namespace"
    <3> DEFINE flat == [c \in DOMAIN tools[i].children |-> FlatName(tools[i].name, tools[i].children[c])]
    <3>1. each[i] = flat
      BY <1>0, <2>2
    <3>2. \A c \in DOMAIN tools[i].children : FlatName(tools[i].name, tools[i].children[c]) \in Seq(STRING)
      BY <2>1 DEF FlatName
    <3>3. flat \in Seq(Seq(STRING))
      <4>1. DOMAIN tools[i].children = 1..Len(tools[i].children) /\ Len(tools[i].children) \in Nat
        BY <2>1
      <4> QED
        BY <3>2, <4>1
    <3>4. \A x : x \in ToSet(flat) <=> \E c \in ToSet(tools[i].children) : x = FlatName(tools[i].name, c)
      BY DEF ToSet
    <3> HIDE DEF each, flat
    <3> QED
      BY <2>2, <3>1, <3>3, <3>4
  <2>3. CASE tools[i].kind # "namespace"
    <3>1. each[i] = <<tools[i].name>>
      BY <1>0, <2>3
    <3>2. \A x : x \in ToSet(<<tools[i].name>>) <=> x = tools[i].name
      BY DEF ToSet
    <3> HIDE DEF each
    <3> QED
      BY <2>1, <2>3, <3>1, <3>2
  <2> QED
    BY <2>2, <2>3
<1>2. each = [i \in 1..Len(tools) |-> each[i]]
  BY <1>0
<1>3. FunctionNames(tools) = FlattenSeq(each)
  BY DEF FunctionNames
<1> HIDE DEF each
<1>4. each \in Seq(Seq(Seq(STRING))) /\ Len(each) = Len(tools)
  BY <1>0, <1>1, <1>2
<1>5. /\ FunctionNames(tools) \in Seq(Seq(STRING))
      /\ \A x \in Seq(STRING) : x \in ToSet(FunctionNames(tools)) <=> \E i \in 1..Len(tools) : x \in ToSet(each[i])
  BY <1>3, <1>4, FlattenHas
<1>6. ToSet(FunctionNames(tools)) \subseteq Seq(STRING)
  BY <1>5 DEF ToSet
<1>7. ASSUME NEW x PROVE x \in ToSet(FunctionNames(tools)) <=> x \in Callables(ToSet(tools))
  <2>1. CASE x \notin Seq(STRING)
    BY <1>6, <2>1 DEF Callables
  <2>2. CASE x \in Seq(STRING)
    <3>1. x \in ToSet(FunctionNames(tools)) <=> \E i \in 1..Len(tools) :
                    IF tools[i].kind = "namespace"
                    THEN \E c \in ToSet(tools[i].children) : x = FlatName(tools[i].name, c) ELSE x = tools[i].name
      BY <1>1, <1>5, <2>2
    <3>2. ToSet(tools) = {tools[i] : i \in 1..Len(tools)}
      BY <1>0 DEF ToSet
    <3> QED
      BY <2>2, <3>1, <3>2 DEF Callables
  <2> QED
    BY <2>1, <2>2
<1> QED
  BY <1>5, <1>7

LEMMA FlatChildrenHas ==
    ASSUME NEW tools \in Seq(AnyTool), NEW namespace
    PROVE  /\ FlatChildren(tools, namespace) \in Seq(Seq(STRING))
           /\ ToSet(FlatChildren(tools, namespace)) =
                Callables({t \in ToSet(tools) : t.kind = "namespace" /\ t.name = namespace})
<1> DEFINE keep == {t \in AnyTool : t.kind = "namespace" /\ t.name = namespace}
           normal == NormalizedTools(tools)
           those == Sieve(normal, keep)
<1>1. normal \in Seq(AnyTool) /\ ToSet(normal) = {t \in ToSet(tools) : t.kind # "hosted"}
  BY NormalizedHas
<1> HIDE DEF normal
<1>2. \A i \in DOMAIN normal : normal[i] \in keep <=> normal[i].kind = "namespace" /\ normal[i].name = namespace
  BY <1>1
<1>3. those = Those(normal, LAMBDA t : t.kind = "namespace" /\ t.name = namespace)
  BY <1>2 DEF Those, Sieve
<1>4. FlatChildren(tools, namespace) = FunctionNames(those)
  BY <1>3 DEF FlatChildren, normal
<1>5. \A t \in ToSet(tools) : t \in AnyTool
  BY DEF ToSet
<1>6. {t \in ToSet(normal) : t \in keep} = {t \in ToSet(tools) : t.kind = "namespace" /\ t.name = namespace}
  BY <1>1, <1>5
<1> HIDE DEF keep, those
<1>7. those \in Seq(AnyTool) /\ ToSet(those) = {t \in ToSet(normal) : t \in keep}
  BY <1>1, Sieved DEF those
<1> QED
  BY <1>4, <1>6, <1>7, FunctionNamesHas

-----------------------------------------------------------------------------
(* What a request asks of its tools *)

ChoiceOf(request) == Value(request, "tool_choice", Plain("auto"))

\* It takes no more than its tools and its choice.
LEMMA AskedAlike ==
    ASSUME NEW a, NEW b, ToolsOf(a) = ToolsOf(b), ChoiceOf(a) = ChoiceOf(b)
    PROVE  Asked(a) = Asked(b)
BY DEF Asked, ChoiceOf

\* Which tools may be called, and whether one must be, as sets
ModeOf(choice) ==
    IF choice.type \in {"auto", "none"} THEN choice.type
    ELSE IF choice.type = "allowed_tools" THEN choice.mode ELSE "required"
Picked(tools, pick) ==
    IF pick.kind = "namespace" THEN Callables({t \in tools : t.kind = "namespace" /\ t.name = pick.name}) ELSE {pick.name}
Choosable(tools, choice) ==
    IF choice.picks = <<>> THEN Callables({t \in tools : t.kind # "hosted"})
    ELSE UNION {Picked(tools, p) : p \in ToSet(choice.picks)}
AskedOf(mode, callable) == IF mode = "none" \/ callable = {} THEN NoTools ELSE [mode |-> mode, callable |-> callable]

LEMMA AskedIs ==
    ASSUME NEW request, ToolsOf(request) \in Seq(AnyTool)
    PROVE  Asked(request) = AskedOf(ModeOf(ChoiceOf(request)), Choosable(ToSet(ToolsOf(request)), ChoiceOf(request)))
<1> DEFINE tools == NormalizedTools(ToolsOf(request))
           choice == Value(request, "tool_choice", Plain("auto"))
           picked(p) == IF p.kind = "namespace" THEN ToSet(FlatChildren(tools, p.name)) ELSE {p.name}
           callable == IF choice.picks = <<>> THEN ToSet(FunctionNames(tools)) ELSE UNION {picked(p) : p \in ToSet(choice.picks)}
           mode == CASE choice.type \in {"auto", "none"} -> choice.type
                     [] choice.type = "allowed_tools" -> choice.mode
                     [] OTHER -> "required"
<1>1. Asked(request) = IF mode = "none" \/ callable = {} THEN NoTools ELSE [mode |-> mode, callable |-> callable]
  BY DEF Asked
<1>2. choice = ChoiceOf(request)
  BY DEF ChoiceOf
<1>3. tools \in Seq(AnyTool) /\ ToSet(tools) = {t \in ToSet(ToolsOf(request)) : t.kind # "hosted"}
  BY NormalizedHas
<1> HIDE DEF tools, choice
<1>4. mode = ModeOf(choice)
  <2>1. CASE choice.type \in {"auto", "none"}
    BY <2>1 DEF ModeOf
  <2>2. CASE choice.type = "allowed_tools"
    BY <2>2 DEF ModeOf
  <2>3. CASE choice.type \notin {"auto", "none", "allowed_tools"}
    BY <2>3 DEF ModeOf
  <2> QED
    BY <2>1, <2>2, <2>3
<1>5. ASSUME NEW p PROVE picked(p) = Picked(ToSet(ToolsOf(request)), p)
  <2>1. {t \in ToSet(tools) : t.kind = "namespace" /\ t.name = p.name} =
            {t \in ToSet(ToolsOf(request)) : t.kind = "namespace" /\ t.name = p.name}
    BY <1>3
  <2>2. ToSet(FlatChildren(tools, p.name)) = Callables({t \in ToSet(tools) : t.kind = "namespace" /\ t.name = p.name})
    BY <1>3, FlatChildrenHas
  <2> QED
    BY <2>1, <2>2 DEF Picked
<1>6. ToSet(FunctionNames(tools)) = Callables({t \in ToSet(ToolsOf(request)) : t.kind # "hosted"})
  BY <1>3, FunctionNamesHas
<1>7. callable = Choosable(ToSet(ToolsOf(request)), choice)
  <2>1. {picked(p) : p \in ToSet(choice.picks)} = {Picked(ToSet(ToolsOf(request)), p) : p \in ToSet(choice.picks)}
    BY <1>5
  <2> HIDE DEF picked
  <2> QED
    BY <1>6, <2>1 DEF Choosable
<1> HIDE DEF mode, callable
<1> QED
  BY <1>1, <1>2, <1>4, <1>7 DEF AskedOf

\* The defaults of a route change nothing about it.
LEMMA DefaultsAsk ==
    ASSUME NEW format \in Formats, NEW b
    PROVE  /\ ToolsOf(Defaults(format, b, to)) = ToolsOf(b)
           /\ ChoiceOf(Defaults(format, b, to)) = ChoiceOf(b)
           /\ ParallelField(format) \in DOMAIN b => Agree(Defaults(format, b, to), b, ParallelField(format))
<1> DEFINE limited == With(b, DefaultLimitField[format], LimitApplies(format, b, to), to.limit)
           made == Defaults(format, b, to)
           field == ParallelField(format)
<1>1. made = Gated(format, limited, to)
  BY DEF Defaults
<1>2. ToolsOf(made) = ToolsOf(b)
  BY DefaultsAgree, AgreeValue DEF ToolsOf, ParallelFields, LimitNames
<1>3. DefaultLimitField[format] # field /\ DefaultLimitField[format] # "tool_choice"
  BY DEF DefaultLimitField, ParallelField, Formats
<1>4. Agree(limited, b, field) /\ Agree(limited, b, "tool_choice")
  BY <1>3, WithAgrees
<1> HIDE DEF limited
<1>5. CASE ~GateApplies(format, limited, to)
  <2>1. made = limited
    BY <1>1, <1>5 DEF Gated
  <2>2. ChoiceOf(made) = ChoiceOf(b)
    BY <1>4, <2>1, AgreeValue DEF ChoiceOf
  <2> QED
    BY <1>2, <1>4, <2>1, <2>2
<1>6. CASE GateApplies(format, limited, to)
  <2>1. field \notin DOMAIN b
    BY <1>4, <1>6 DEF GateApplies, Has, Agree
  <2>2. CASE format # "anthropic"
    <3>1. made = Set(limited, "parallel_tool_calls", FALSE)
      BY <1>1, <1>6, <2>2 DEF Gated
    <3>2. Agree(made, limited, "tool_choice")
      BY <3>1, SetAgrees
    <3>3. ChoiceOf(made) = ChoiceOf(b)
      BY <1>4, <3>2, AgreeValue DEF ChoiceOf
    <3> QED
      BY <1>2, <2>1, <3>3
  <2>3. CASE format = "anthropic"
    <3> DEFINE choice == Value(limited, "tool_choice", Plain("auto"))
               chosen == Set(limited, "tool_choice", choice)
    <3>1. made = With(chosen, "tool_choice.disable_parallel_tool_use", choice.type # "none", TRUE)
      BY <1>1, <1>6, <2>3 DEF Gated
    <3>2. "tool_choice" \in DOMAIN chosen /\ chosen["tool_choice"] = choice
      BY DEF Set
    <3> HIDE DEF chosen
    <3>3. Agree(made, chosen, "tool_choice")
      BY <3>1, WithAgrees
    <3>4. ChoiceOf(made) = choice
      BY <3>2, <3>3 DEF ChoiceOf, Value, Has, Agree
    <3>5. choice = ChoiceOf(b)
      BY <1>4, AgreeValue DEF ChoiceOf
    <3> QED
      BY <1>2, <2>1, <3>4, <3>5
  <2> QED
    BY <2>2, <2>3
<1> QED
  BY <1>5, <1>6

\* What is asked of the upstream is what the translation asks of it, or the client did.
LEMMA SentAsks ==
    ASSUME Progress, stage = "sent"
    PROVE  LET from == IF client = Upstream THEN body ELSE Made[1] IN
           /\ ToolsOf(sent) = ToolsOf(from) /\ ChoiceOf(sent) = ChoiceOf(from)
           /\ OneByOne(Upstream, from) => OneByOne(Upstream, sent)
<1> DEFINE from == IF client = Upstream THEN body ELSE Made[1]
           field == ParallelField(Upstream)
<1>1. \A f \in {"tools"} \cup ParallelFields : Agree(Source, from, f)
  BY SourceAgrees DEF ParallelFields, RepairNames, LostNames
<1>2. \A f \in {"tools"} \cup ParallelFields : Agree(sent, Completed, f)
  BY SentIsCompleted DEF ParallelFields, EffortNames
<1>3. Upstream \in Formats
  BY SentFacts
<1> HIDE DEF from
<1>4. ToolsOf(sent) = ToolsOf(from) /\ ChoiceOf(sent) = ChoiceOf(from)
  <2>1. ToolsOf(Completed) = ToolsOf(Source) /\ ChoiceOf(Completed) = ChoiceOf(Source)
    BY <1>3, DefaultsAsk DEF Completed
  <2>2. ToolsOf(sent) = ToolsOf(Completed) /\ ChoiceOf(sent) = ChoiceOf(Completed)
    BY <1>2, AgreeValue DEF ToolsOf, ChoiceOf, ParallelFields
  <2>3. ToolsOf(Source) = ToolsOf(from) /\ ChoiceOf(Source) = ChoiceOf(from)
    BY <1>1, AgreeValue DEF ToolsOf, ChoiceOf, ParallelFields
  <2> QED
    BY <2>1, <2>2, <2>3
<1>5. ASSUME OneByOne(Upstream, from) PROVE OneByOne(Upstream, sent)
  <2>1. field \in ParallelFields
    BY DEF ParallelField, ParallelFields
  <2>2. field \in DOMAIN from
    BY <1>5 DEF OneByOne, Value, Has, ParallelField
  <2>3. field \in DOMAIN Source
    BY <1>1, <2>1, <2>2 DEF Agree
  <2>4. Agree(Completed, Source, field)
    BY <1>3, <2>3, DefaultsAsk DEF Completed
  <2>5. Agree(sent, from, field)
    BY <1>1, <1>2, <2>1, <2>4, AgreeTwice
  <2>6. Value(sent, field, FALSE) = Value(from, field, FALSE) /\ Value(sent, field, TRUE) = Value(from, field, TRUE)
    <3> HIDE DEF field
    <3> QED
      BY <2>5 DEF Agree, Value, Has
  <2>7. CASE Upstream = "anthropic"
    BY <1>5, <2>6, <2>7 DEF OneByOne, ParallelField
  <2>8. CASE Upstream # "anthropic"
    BY <1>5, <2>6, <2>8 DEF OneByOne, ParallelField
  <2> QED
    BY <2>7, <2>8
<1> QED
  BY <1>4, <1>5 DEF from

-----------------------------------------------------------------------------
(* The choice among tools, from Chat on *)

\* A Chat request whose tools and choice are what a request of Chat's may have
ChatForm(b) ==
    /\ ToolsOf(b) \in Seq(AnyTool)
    /\ Has(b, "tool_choice") => b["tool_choice"].picks \in Seq(Picks) /\ IsChoice("chat", b["tool_choice"], ToolsOf(b))

PickNames(choice) == [i \in DOMAIN choice.picks |-> choice.picks[i].name]

\* openai_normalized_tool_policy, one kind of choice after the other
SaysNothing(b, policy) == ~Has(b, "tool_choice") /\ policy.policy = Nothing /\ policy.names = Nothing
SaysMode(b, policy) ==
    /\ Has(b, "tool_choice") /\ b["tool_choice"].type \in {"auto", "none", "required"} /\ b["tool_choice"].picks = <<>>
    /\ policy.policy = <<b["tool_choice"].type>> /\ policy.names = Nothing
SaysOne(b, policy) ==
    /\ Has(b, "tool_choice") /\ b["tool_choice"].type = "function" /\ Len(b["tool_choice"].picks) = 1
    /\ \A i \in DOMAIN b["tool_choice"].picks : b["tool_choice"].picks[i].kind # "namespace"
    /\ policy.policy = <<"forced">> /\ policy.names = <<PickNames(b["tool_choice"])>>
SaysCustom(b, policy) ==
    /\ Has(b, "tool_choice") /\ policy.policy = Nothing /\ policy.names = Nothing
    /\ \E i \in DOMAIN b["tool_choice"].picks : b["tool_choice"].picks[i].kind = "custom"
SaysAllowed(b, policy) ==
    /\ Has(b, "tool_choice") /\ b["tool_choice"].type = "allowed_tools" /\ b["tool_choice"].mode \in {"auto", "required"}
    /\ b["tool_choice"].picks # <<>>
    /\ \A i \in DOMAIN b["tool_choice"].picks : b["tool_choice"].picks[i].kind # "namespace"
    /\ policy.policy = <<b["tool_choice"].mode>> /\ policy.names = <<PickNames(b["tool_choice"])>>
    /\ ToSet(PickNames(b["tool_choice"])) \subseteq DeclaredFunctions(b)

LEMMA PolicyOf ==
    ASSUME NEW b, ChatForm(b), ToolPolicy(b).ok
    PROVE  \/ SaysNothing(b, ToolPolicy(b)) \/ SaysMode(b, ToolPolicy(b)) \/ SaysOne(b, ToolPolicy(b))
           \/ SaysCustom(b, ToolPolicy(b)) \/ SaysAllowed(b, ToolPolicy(b))
<1> DEFINE choice == b["tool_choice"]
           policy == ToolPolicy(b)
           none == [ok |-> TRUE, policy |-> Nothing, names |-> Nothing]
<1>1. CASE ~Has(b, "tool_choice")
  BY <1>1 DEF ToolPolicy, SaysNothing
<1>2. CASE Has(b, "tool_choice")
  <2>1. choice.picks \in Seq(Picks) /\ IsChoice("chat", choice, ToolsOf(b))
    BY <1>2 DEF ChatForm
  <2>2. choice.picks \in Seq(Picks)
    BY <2>1
  <2>3. \/ choice.type \in {"auto", "none", "required"} /\ choice.picks = <<>>
        \/ choice.type \in {"function", "custom"} /\ Len(choice.picks) = 1 /\ choice.picks[1].kind = choice.type
        \/ /\ choice.type = "allowed_tools" /\ choice.mode \in {"auto", "required"} /\ choice.picks # <<>>
           /\ \A i \in DOMAIN choice.picks : choice.picks[i].kind \in {"function", "custom"}
    <3>1. ChoosesAll["chat"] = {"auto", "none", "required"} /\ ChoosesOne["chat"] = {"function", "custom"}
      BY DEF ChoosesAll, ChoosesOne
    <3>2. choice.type \in ChoosesOne["chat"] => choice.type # "tool"
      BY <3>1
    <3> HIDE DEF choice
    <3> QED
      BY <2>1, <3>1, <3>2 DEF IsChoice
  <2>4. CASE choice.type \in {"auto", "none", "required"}
    <3>1. policy = [ok |-> TRUE, policy |-> <<choice.type>>, names |-> Nothing]
      BY <1>2, <2>4 DEF ToolPolicy
    <3>2. choice.picks = <<>>
      BY <2>3, <2>4
    <3> QED
      BY <1>2, <2>4, <3>1, <3>2 DEF SaysMode
  <2>5. CASE choice.type = "function"
    <3>1. policy = [ok |-> TRUE, policy |-> <<"forced">>, names |-> <<PickNames(choice)>>]
      BY <1>2, <2>5 DEF ToolPolicy, PickNames
    <3>2. Len(choice.picks) = 1 /\ choice.picks[1].kind = "function"
      BY <2>3, <2>5
    <3>3. \A i \in DOMAIN choice.picks : i = 1
      BY <2>2, <3>2
    <3> QED
      BY <1>2, <2>5, <3>1, <3>2, <3>3 DEF SaysOne
  <2>6. CASE choice.type = "custom"
    <3>1. policy = none
      BY <1>2, <2>6 DEF ToolPolicy
    <3>2. Len(choice.picks) = 1 /\ choice.picks[1].kind = "custom"
      BY <2>3, <2>6
    <3>3. 1 \in DOMAIN choice.picks
      BY <2>2, <3>2
    <3> QED
      BY <1>2, <3>1, <3>2, <3>3 DEF SaysCustom
  <2>7. CASE choice.type = "allowed_tools"
    <3> DEFINE names == PickNames(choice)
    <3>1. policy = IF \E p \in ToSet(choice.picks) : p.kind = "custom" THEN none
                   ELSE IF choice.picks # <<>> /\ ToSet(names) \subseteq DeclaredFunctions(b)
                   THEN [ok |-> TRUE, policy |-> <<choice.mode>>, names |-> <<names>>]
                   ELSE [none EXCEPT !.ok = FALSE]
      BY <1>2, <2>7 DEF ToolPolicy, PickNames
    <3>2. /\ choice.mode \in {"auto", "required"} /\ choice.picks # <<>>
          /\ \A i \in DOMAIN choice.picks : choice.picks[i].kind \in {"function", "custom"}
      BY <2>3, <2>7
    <3>3. CASE \E p \in ToSet(choice.picks) : p.kind = "custom"
      <4>1. \E i \in DOMAIN choice.picks : choice.picks[i].kind = "custom"
        BY <3>3 DEF ToSet
      <4>2. policy = none
        BY <3>1, <3>3
      <4> QED
        BY <1>2, <4>1, <4>2 DEF SaysCustom
    <3>4. CASE ~\E p \in ToSet(choice.picks) : p.kind = "custom"
      <4> HIDE DEF names
      <4>1. ToSet(names) \subseteq DeclaredFunctions(b)
        BY <3>1, <3>2, <3>4
      <4>2. policy = [ok |-> TRUE, policy |-> <<choice.mode>>, names |-> <<names>>]
        BY <3>1, <3>2, <3>4, <4>1
      <4>3. policy.policy = <<choice.mode>> /\ policy.names = <<names>>
        BY <4>2
      <4>4. \A i \in DOMAIN choice.picks : choice.picks[i].kind # "namespace"
        BY <3>2
      <4> HIDE DEF policy, choice
      <4> QED
        BY <1>2, <2>7, <3>2, <4>1, <4>3, <4>4 DEF SaysAllowed, names, policy, choice
    <3> QED
      BY <3>3, <3>4
  <2> QED
    BY <2>3, <2>4, <2>5, <2>6, <2>7
<1> QED
  BY <1>1, <1>2

\* What a choice that names its tools lets be called is what it names.
LEMMA NamedAreChoosable ==
    ASSUME NEW tools, NEW choice, choice.picks # <<>>,
           \A i \in DOMAIN choice.picks : choice.picks[i].kind # "namespace"
    PROVE  Choosable(tools, choice) = ToSet(PickNames(choice))
<1>1. \A p \in ToSet(choice.picks) : Picked(tools, p) = {p.name}
  BY DEF Picked, ToSet
<1>2. Choosable(tools, choice) = UNION {{p.name} : p \in ToSet(choice.picks)}
  BY <1>1 DEF Choosable
<1>3. ToSet(PickNames(choice)) = {choice.picks[i].name : i \in DOMAIN choice.picks}
  BY DEF ToSet, PickNames
<1>4. ToSet(choice.picks) = {choice.picks[i] : i \in DOMAIN choice.picks}
  BY DEF ToSet
<1>5. ASSUME NEW x
      PROVE  x \in UNION {{p.name} : p \in ToSet(choice.picks)} <=> x \in ToSet(PickNames(choice))
  BY <1>3, <1>4
<1> QED
  BY <1>2, <1>5

\* A choice that is written out
LEMMA ChoiceParts ==
    ASSUME NEW type, NEW mode, NEW picks
    PROVE  /\ [type |-> type, mode |-> mode, picks |-> picks].type = type
           /\ [type |-> type, mode |-> mode, picks |-> picks].mode = mode
           /\ [type |-> type, mode |-> mode, picks |-> picks].picks = picks
OBVIOUS

LEMMA PlainParts == ASSUME NEW type PROVE Plain(type).type = type /\ Plain(type).picks = <<>>
BY ChoiceParts, Zenon DEF Plain

LEMMA ForcedParts ==
    ASSUME NEW type, NEW name
    PROVE  Forced(type, name).type = type /\ Forced(type, name).picks = <<Pick("function", name)>>
BY ChoiceParts, Zenon DEF Forced

\* normalized_tool_policy_to_responses_tool_choice keeps what the policy asks.
LEMMA PolicyToResponses ==
    ASSUME NEW b, ChatForm(b), ToolPolicy(b).ok, ToolPolicy(b).policy # Nothing, NEW tools, NEW choice,
           choice = ResponsesChoiceOfPolicy(ToolPolicy(b).policy[1], ToolPolicy(b).names)
    PROVE  ModeOf(choice) = ModeOf(ChoiceOf(b)) /\ Choosable(tools, choice) = Choosable(tools, ChoiceOf(b))
<1> DEFINE policy == ToolPolicy(b)
           mine == b["tool_choice"]
           names == PickNames(mine)
<1>1. SaysMode(b, policy) \/ SaysOne(b, policy) \/ SaysAllowed(b, policy)
  BY PolicyOf DEF SaysNothing, SaysCustom
<1>2. ChoiceOf(b) = mine /\ mine.picks \in Seq(Picks)
  BY <1>1 DEF ChoiceOf, Value, SaysMode, SaysOne, SaysAllowed, ChatForm
<1>3. mine.picks \in Seq(Picks)
  BY <1>2
<1>4. names \in Seq(Seq(STRING)) /\ Len(names) = Len(mine.picks) /\ DOMAIN names = DOMAIN mine.picks
  <2>1. DOMAIN mine.picks = 1..Len(mine.picks) /\ Len(mine.picks) \in Nat
    BY <1>3
  <2>2. \A i \in 1..Len(mine.picks) : mine.picks[i].name \in Seq(STRING)
    <3>1. \A i \in 1..Len(mine.picks) : mine.picks[i] \in Picks
      <4> DEFINE those == mine.picks
      <4>1. those \in Seq(Picks)
        BY <1>3
      <4> HIDE DEF those
      <4>2. \A i \in 1..Len(those) : those[i] \in Picks
        BY <4>1
      <4> QED
        BY <4>2 DEF those
    <3> HIDE DEF mine
    <3> QED
      BY <3>1 DEF Picks
  <2> HIDE DEF mine
  <2> QED
    BY <2>1, <2>2 DEF PickNames
<1>5. CASE SaysMode(b, policy)
  <2>1. choice = Plain(mine.type)
    BY <1>5 DEF SaysMode, ResponsesChoiceOfPolicy
  <2>0. mine.picks = <<>> /\ mine.type \in {"auto", "none", "required"}
    BY <1>5 DEF SaysMode
  <2>2. choice.type = mine.type /\ choice.picks = <<>> /\ mine.picks = <<>> /\ mine.type \in {"auto", "none", "required"}
    <3> HIDE DEF mine
    <3> QED
      BY <2>0, <2>1, PlainParts
  <2>3. ModeOf(choice) = ModeOf(mine)
    BY <2>2 DEF ModeOf
  <2> QED
    BY <1>2, <2>2, <2>3 DEF Choosable
<1>6. ASSUME choice = Forced("function", names[1]), Len(names) = 1,
             \A i \in DOMAIN mine.picks : mine.picks[i].kind # "namespace"
      PROVE  ModeOf(choice) = "required" /\ Choosable(tools, choice) = Choosable(tools, mine)
  <2>1. choice.type = "function" /\ choice.picks = <<Pick("function", names[1])>>
    <3> HIDE DEF names
    <3> QED
      BY <1>6, ForcedParts
  <2>2. PickNames(choice) = <<names[1]>>
    BY <2>1 DEF PickNames, Pick
  <2>3. names = <<names[1]>>
    BY <1>4, <1>6
  <2>4. choice.picks # <<>> /\ \A i \in DOMAIN choice.picks : choice.picks[i].kind # "namespace"
    BY <2>1 DEF Pick
  <2>5. mine.picks # <<>>
    BY <1>4, <1>6
  <2>6. ModeOf(choice) = "required"
    BY <2>1 DEF ModeOf
  <2> QED
    BY <1>6, <2>2, <2>3, <2>4, <2>5, <2>6, NamedAreChoosable
<1>7. CASE SaysOne(b, policy)
  <2>1. choice = Forced("function", names[1])
    <3>1. policy.policy[1] = "forced" /\ policy.names = <<names>>
      BY <1>7 DEF SaysOne
    <3> HIDE DEF names, policy
    <3>2. policy.names # Nothing /\ policy.names[1] = names
      BY <3>1 DEF Nothing
    <3> QED
      BY <3>1, <3>2 DEF ResponsesChoiceOfPolicy, policy
  <2>2. Len(names) = 1 /\ \A i \in DOMAIN mine.picks : mine.picks[i].kind # "namespace"
    BY <1>4, <1>7 DEF SaysOne
  <2>3. ModeOf(mine) = "required"
    BY <1>7 DEF SaysOne, ModeOf
  <2> QED
    BY <1>2, <1>6, <2>1, <2>2, <2>3
<1>8. CASE SaysAllowed(b, policy)
  <2>1. policy.policy[1] = mine.mode /\ policy.names = <<names>> /\ policy.names # Nothing
    <3>1. policy.policy = <<mine.mode>> /\ policy.names = <<names>>
      BY <1>8 DEF SaysAllowed
    <3> HIDE DEF names, mine, policy
    <3> QED
      BY <3>1 DEF Nothing
  <2>2. /\ mine.mode \in {"auto", "required"} /\ mine.picks # <<>> /\ ModeOf(mine) = mine.mode
        /\ \A i \in DOMAIN mine.picks : mine.picks[i].kind # "namespace"
    BY <1>8 DEF SaysAllowed, ModeOf
  <2> DEFINE picks == [i \in DOMAIN names |-> Pick("function", names[i])]
  <2>3. choice = IF mine.mode = "required" /\ Len(names) = 1 THEN Forced("function", names[1])
                 ELSE [type |-> "allowed_tools", mode |-> mine.mode, picks |-> picks]
    <3> HIDE DEF names, policy, mine
    <3> QED
      BY <2>1, <2>2 DEF ResponsesChoiceOfPolicy, policy
  <2>4. CASE mine.mode = "required" /\ Len(names) = 1
    BY <1>2, <1>6, <2>2, <2>3, <2>4
  <2>5. CASE ~ (mine.mode = "required" /\ Len(names) = 1)
    <3>1. choice.type = "allowed_tools" /\ choice.mode = mine.mode /\ choice.picks = picks
      BY <2>3, <2>5
    <3>2. PickNames(choice) = names
      <4>1. \A i \in DOMAIN names : picks[i].name = names[i]
        BY DEF Pick
      <4>2. DOMAIN picks = DOMAIN names /\ names = [i \in DOMAIN names |-> names[i]]
        BY <1>4
      <4> HIDE DEF picks, names
      <4> QED
        BY <3>1, <4>1, <4>2 DEF PickNames
    <3>3. choice.picks # <<>>
      <4>1. DOMAIN picks = 1..Len(mine.picks) /\ Len(mine.picks) # 0
        BY <1>3, <1>4, <2>2
      <4>2. 1 \in DOMAIN choice.picks
        BY <1>3, <3>1, <4>1
      <4> QED
        BY <4>2
    <3>4. \A i \in DOMAIN choice.picks : choice.picks[i].kind # "namespace"
      BY <3>1 DEF Pick
    <3>5. ModeOf(choice) = mine.mode
      BY <3>1 DEF ModeOf
    <3> HIDE DEF names, mine, picks
    <3>6. Choosable(tools, choice) = Choosable(tools, mine)
      BY <2>2, <3>2, <3>3, <3>4, NamedAreChoosable DEF names
    <3> QED
      BY <1>2, <2>2, <3>5, <3>6
  <2> QED
    BY <2>4, <2>5
<1> QED
  BY <1>1, <1>5, <1>7, <1>8

\* messages_to_responses asks what the Chat request does.
LEMMA ToResponsesAsks ==
    ASSUME NEW b, ChatForm(b), ResponsesOfChat(b) # Nothing
    PROVE  /\ Asked(ResponsesOfChat(b)[1]) = Asked(b)
           /\ Agree(ResponsesOfChat(b)[1], b, "parallel_tool_calls")
<1> DEFINE policy == ToolPolicy(b)
           limits == {"max_completion_tokens", "max_tokens"}
           logprobs == Value(b, "logprobs", FALSE) \/ Has(b, "top_logprobs")
           plain == Carried(b, ToResponses(b))
           limit == Value(b, "max_completion_tokens", Value(b, "max_tokens", 0))
           one == With(plain, "include.message.output_text.logprobs", logprobs, TRUE)
           two == With(one, "max_output_tokens", Among(b, limits) # {}, limit)
           choice == ResponsesChoiceOfPolicy(policy.policy[1], policy.names)
           three == With(two, "tool_choice", policy.policy # Nothing, choice)
           made == ResponsesOfChat(b)[1]
<1>1. ResponsesOfChat(b) = IF ~policy.ok THEN Nothing ELSE <<three>>
  BY DEF ResponsesOfChat, ToResponses, ToResponsesRemoved, ToResponsesRenamed
<1>2. policy.ok /\ made = three
  <2> HIDE DEF three
  <2> QED
    BY <1>1
<1>3. Agree(made, b, "parallel_tool_calls") /\ Agree(made, b, "tools")
  BY ResponsesKeeps DEF ToResponsesRemoved, ToResponsesRenamed
<1>4. ToolsOf(made) = ToolsOf(b)
  BY <1>3, AgreeValue DEF ToolsOf
<1>5. Agree(two, b, "tool_choice")
  <2>1. <<"tool_choice", "tool_choice">> \in ToResponses(b) <=> "tool_choice" \in DOMAIN b
    BY DEF ToResponses, Same, ToResponsesRemoved, ToResponsesRenamed
  <2>2. \A q \in ToResponses(b) : q[2] = "tool_choice" => q[1] = "tool_choice" /\ "tool_choice" \in DOMAIN b
    BY DEF ToResponses, Same, ToResponsesRemoved, ToResponsesRenamed
  <2>3. Agree(plain, b, "tool_choice")
    <3>1. CASE "tool_choice" \in DOMAIN b
      BY <2>1, <2>2, <3>1, CarriedField DEF Agree
    <3>2. CASE "tool_choice" \notin DOMAIN b
      <4>1. "tool_choice" \notin DOMAIN plain
        BY <2>2, <3>2, NotCarried
      <4> HIDE DEF plain
      <4> QED
        BY <3>2, <4>1 DEF Agree
    <3> QED
      BY <3>1, <3>2
  <2> HIDE DEF plain
  <2>4. Agree(one, plain, "tool_choice")
    BY WithAgrees
  <2> HIDE DEF one
  <2>5. Agree(two, one, "tool_choice")
    BY WithAgrees
  <2> HIDE DEF two
  <2> QED
    BY <2>3, <2>4, <2>5, AgreeTwice
<1> HIDE DEF two, choice
<1>6. policy.policy # Nothing => ChoiceOf(made) = choice
  BY <1>2 DEF ChoiceOf, Value, Has, With, Set
<1>7. policy.policy = Nothing => ChoiceOf(made) = ChoiceOf(b)
  BY <1>2, <1>5, AgreeValue DEF ChoiceOf, With
<1>8. Asked(made) = Asked(b)
  <2>1. CASE policy.policy = Nothing
    BY <1>4, <1>7, <2>1, AskedAlike
  <2>2. CASE policy.policy # Nothing
    <3>1. /\ ModeOf(choice) = ModeOf(ChoiceOf(b))
          /\ Choosable(ToSet(ToolsOf(b)), choice) = Choosable(ToSet(ToolsOf(b)), ChoiceOf(b))
      BY <1>2, <2>2, PolicyToResponses DEF choice
    <3>2. ToolsOf(b) \in Seq(AnyTool) /\ ToolsOf(made) \in Seq(AnyTool)
      BY <1>4 DEF ChatForm
    <3> HIDE DEF made, policy
    <3>3. Asked(made) = AskedOf(ModeOf(ChoiceOf(made)), Choosable(ToSet(ToolsOf(made)), ChoiceOf(made)))
      BY <3>2, AskedIs
    <3>4. Asked(b) = AskedOf(ModeOf(ChoiceOf(b)), Choosable(ToSet(ToolsOf(b)), ChoiceOf(b)))
      BY <3>2, AskedIs
    <3> QED
      BY <1>4, <1>6, <2>2, <3>1, <3>3, <3>4
  <2> QED
    BY <2>1, <2>2
<1> QED
  BY <1>3, <1>8

\* openai_to_claude: which tools it keeps, and which choice it makes
ClaudeFunctions(b) == Those(ToolsOf(b), LAMBDA t : t.kind = "function")
ClaudeSelected(b) ==
    LET policy == ToolPolicy(b) IN
    IF policy.names = Nothing \/ policy.policy = <<"forced">> THEN ClaudeFunctions(b)
    ELSE [i \in DOMAIN policy.names[1] |-> CHOOSE t \in Named(ClaudeFunctions(b), policy.names[1][i]) : TRUE]
ClaudeChoice(b) ==
    LET policy == ToolPolicy(b) IN
    IF policy.policy = Nothing THEN Plain("auto") ELSE ChoiceOfPolicy(policy.policy[1], policy.names[1])
IsSerial(b) == Value(b, "parallel_tool_calls", TRUE) = FALSE
ClaudeChosen(b) == ToolPolicy(b).policy # Nothing \/ (IsSerial(b) /\ ToolsOf(b) # <<>>)

LEMMA ClaudeOfChatTools ==
    ASSUME NEW b, NEW rejects, ClaudeOfChat(b, rejects) # Nothing
    PROVE  LET made == ClaudeOfChat(b, rejects)[1] IN
           /\ ToolPolicy(b).ok /\ ToolsOf(made) = ClaudeSelected(b) /\ ChoiceOf(made) = ClaudeChoice(b)
           /\ ClaudeChosen(b) /\ IsSerial(b) /\ ClaudeChoice(b).type # "none" => OneByOne("anthropic", made)
<1> DEFINE serial == IsSerial(b)
           shape == Value(b, "response_format", "text")
           limit == Value(b, "max_completion_tokens", Value(b, "max_tokens", 4096))
           selected == ClaudeSelected(b)
           choice == ClaudeChoice(b)
           chosen == ClaudeChosen(b)
           plain == Carried(b, ToClaude)
           allowed == Without(plain, Withheld(b, rejects))
           limited == Set(allowed, "max_tokens", limit)
           one == With(limited, "tool_choice", chosen, choice)
           two == With(one, "tool_choice.disable_parallel_tool_use", chosen /\ serial /\ choice.type # "none", TRUE)
           three == With(two, "output_config.format", shape = "json_schema", shape)
           four == With(three, "tools", selected # <<>>, selected)
           made == ClaudeOfChat(b, rejects)[1]
<1>1. ClaudeOfChat(b, rejects) = IF ~ToolPolicy(b).ok \/ shape = "json_object" THEN Nothing ELSE <<four>>
  BY DEF ClaudeOfChat, ToClaude, ClaudeSelected, ClaudeFunctions, ClaudeChoice, ClaudeChosen, IsSerial
<1>2. ToolPolicy(b).ok /\ made = four
  <2> HIDE DEF four
  <2> QED
    BY <1>1
<1>3. "tools" \notin DOMAIN limited /\ "tool_choice" \notin DOMAIN limited
  <2>1. \A q \in ToClaude : q[2] \notin {"tools", "tool_choice"}
    BY DEF ToClaude, Same
  <2>2. "tools" \notin DOMAIN plain /\ "tool_choice" \notin DOMAIN plain
    BY <2>1, NotCarried
  <2> HIDE DEF plain
  <2>3. "tools" \notin DOMAIN allowed /\ "tool_choice" \notin DOMAIN allowed
    BY <2>2 DEF Without, Restrict
  <2> HIDE DEF allowed
  <2> QED
    BY <2>3 DEF Set
<1> HIDE DEF limited, selected, choice, chosen, serial, shape, made
<1>4. Agree(one, limited, "tools")
  BY WithAgrees
<1>5. ChoiceOf(one) = IF chosen THEN choice ELSE Plain("auto")
  BY <1>3 DEF ChoiceOf, Value, Has, With, Set
<1> HIDE DEF one
<1>6. Agree(two, one, "tools") /\ Agree(two, one, "tool_choice")
  BY WithAgrees
<1>7. chosen /\ serial /\ choice.type # "none" =>
            /\ "tool_choice.disable_parallel_tool_use" \in DOMAIN two
            /\ two["tool_choice.disable_parallel_tool_use"] = TRUE
  BY DEF With, Set
<1> HIDE DEF two
<1>8. \A f : f # "output_config.format" => Agree(three, two, f)
  BY WithAgrees
<1> HIDE DEF three
<1>9. "tools" \notin DOMAIN three
  BY <1>3, <1>4, <1>6, <1>8 DEF Agree
<1>10. \A f : f # "tools" => Agree(four, three, f)
  BY WithAgrees
<1>11. ToolsOf(four) = selected
  BY <1>9 DEF ToolsOf, Value, Has, With, Set
<1> HIDE DEF four
<1>12. ChoiceOf(four) = choice
  <2>1. Agree(four, one, "tool_choice")
    BY <1>6, <1>8, <1>10, AgreeTwice
  <2>2. ChoiceOf(four) = ChoiceOf(one)
    BY <2>1, AgreeValue DEF ChoiceOf
  <2>3. ~chosen => choice = Plain("auto")
    BY DEF chosen, choice, ClaudeChosen, ClaudeChoice
  <2> QED
    BY <1>5, <2>2, <2>3
<1>13. chosen /\ serial /\ choice.type # "none" => OneByOne("anthropic", four)
  BY <1>7, <1>8, <1>10 DEF OneByOne, Value, Has, Agree
<1> QED
  BY <1>2, <1>11, <1>12, <1>13 DEF made, selected, choice, chosen, serial

\* What Chat asks of functions alone
PlainForm(b) ==
    /\ ChatForm(b)
    /\ \A t \in ToSet(ToolsOf(b)) : t.kind = "function"
    /\ Has(b, "tool_choice") => \A i \in DOMAIN b["tool_choice"].picks : b["tool_choice"].picks[i].kind = "function"

\* The tools that may be called are those a tool's name stands for.
LEMMA FunctionsAreCallables ==
    ASSUME NEW tools, \A t \in tools : t.kind = "function" /\ t.name \in Seq(STRING)
    PROVE  Callables({t \in tools : t.kind # "hosted"}) = {t.name : t \in tools}
BY DEF Callables

LEMMA ClaudeFunctionsHave ==
    ASSUME NEW b, PlainForm(b)
    PROVE  ClaudeFunctions(b) \in Seq(AnyTool) /\ ToSet(ClaudeFunctions(b)) = ToSet(ToolsOf(b))
<1> DEFINE tools == ToolsOf(b)
           keep == {t \in AnyTool : t.kind = "function"}
<1>1. tools \in Seq(AnyTool) /\ \A t \in ToSet(tools) : t.kind = "function"
  BY DEF PlainForm, ChatForm
<1> HIDE DEF tools
<1>2. \A i \in DOMAIN tools : tools[i] \in keep <=> tools[i].kind = "function"
  BY <1>1
<1>3. ClaudeFunctions(b) = Sieve(tools, keep)
  BY <1>2 DEF ClaudeFunctions, Those, Sieve, tools
<1>4. \A t \in ToSet(tools) : t \in keep
  BY <1>1, <1>2 DEF ToSet
<1> HIDE DEF keep
<1>5. Sieve(tools, keep) \in Seq(AnyTool) /\ ToSet(Sieve(tools, keep)) = {t \in ToSet(tools) : t \in keep}
  BY <1>1, Sieved
<1> QED
  BY <1>3, <1>4, <1>5 DEF tools

\* Of the tools that are allowed it keeps one for each name.
LEMMA AllowedAreSelected ==
    ASSUME NEW b, PlainForm(b), SaysAllowed(b, ToolPolicy(b))
    PROVE  /\ ClaudeSelected(b) \in Seq(AnyTool)
           /\ \A t \in ToSet(ClaudeSelected(b)) : t.kind = "function" /\ t.name \in Seq(STRING)
           /\ {t.name : t \in ToSet(ClaudeSelected(b))} = ToSet(PickNames(b["tool_choice"]))
<1> DEFINE policy == ToolPolicy(b)
           mine == b["tool_choice"]
           names == PickNames(mine)
           functions == ClaudeFunctions(b)
           selected == ClaudeSelected(b)
           one(name) == CHOOSE t \in Named(functions, name) : TRUE
<1>1. functions \in Seq(AnyTool) /\ ToSet(functions) = ToSet(ToolsOf(b))
  BY ClaudeFunctionsHave
<1>2. policy.policy = <<mine.mode>> /\ policy.names = <<names>> /\ mine.mode \in {"auto", "required"}
  BY DEF SaysAllowed
<1>3. DOMAIN names = 1..Len(names) /\ Len(names) \in Nat
  <2>1. mine.picks \in Seq(Picks)
    BY DEF SaysAllowed, PlainForm, ChatForm
  <2>2. DOMAIN names = 1..Len(mine.picks) /\ Len(mine.picks) \in Nat
    <3> HIDE DEF mine
    <3> QED
      BY <2>1 DEF PickNames
  <2> HIDE DEF names
  <2> QED
    BY <2>2
<1>4. ToSet(names) \subseteq DeclaredFunctions(b)
  BY DEF SaysAllowed
<1> HIDE DEF policy, mine, names, functions
<1>5. selected = [i \in DOMAIN names |-> one(names[i])]
  <2>1. policy.names # Nothing /\ policy.names[1] = names /\ policy.policy # <<"forced">>
    <3>1. <<mine.mode>> # <<"forced">>
      BY <1>2
    <3> QED
      BY <1>2, <3>1 DEF Nothing
  <2>2. selected = IF policy.names = Nothing \/ policy.policy = <<"forced">> THEN functions
                   ELSE [i \in DOMAIN policy.names[1] |-> CHOOSE t \in Named(functions, policy.names[1][i]) : TRUE]
    BY DEF ClaudeSelected, policy, functions
  <2> HIDE DEF selected
  <2> QED
    BY <2>1, <2>2
<1>6. ASSUME NEW i \in DOMAIN names
      PROVE  one(names[i]) \in AnyTool /\ one(names[i]).kind = "function" /\ one(names[i]).name = names[i]
  <2>1. names[i] \in DeclaredFunctions(b)
    BY <1>4 DEF ToSet
  <2>2. PICK t \in ToSet(ToolsOf(b)) : t.kind = "function" /\ t.name = names[i]
    BY <2>1 DEF DeclaredFunctions
  <2>3. t \in Named(functions, names[i])
    BY <1>1, <2>2 DEF Named
  <2>4. one(names[i]) \in Named(functions, names[i])
    BY <2>3
  <2> HIDE DEF one
  <2>5. one(names[i]) \in ToSet(functions) /\ one(names[i]).name = names[i]
    BY <2>4 DEF Named
  <2>6. one(names[i]).kind = "function"
    BY <1>1, <2>5 DEF PlainForm
  <2>7. one(names[i]) \in AnyTool
    BY <1>1, <2>5 DEF ToSet
  <2> QED
    BY <2>5, <2>6, <2>7
<1> HIDE DEF one, selected
<1>7. selected \in Seq(AnyTool)
  BY <1>3, <1>5, <1>6
<1>8. DOMAIN selected = DOMAIN names /\ \A i \in DOMAIN names : selected[i] = one(names[i])
  BY <1>5
<1>9. \A t \in ToSet(selected) : t \in AnyTool /\ t.kind = "function"
  BY <1>6, <1>8 DEF ToSet
<1>10. ASSUME NEW x
       PROVE  x \in {t.name : t \in ToSet(selected)} <=> x \in ToSet(names)
  <2>1. ToSet(selected) = {selected[i] : i \in DOMAIN names} /\ ToSet(names) = {names[i] : i \in DOMAIN names}
    BY <1>8 DEF ToSet
  <2>2. \A i \in DOMAIN names : selected[i].name = names[i]
    BY <1>6, <1>8
  <2> QED
    BY <2>1, <2>2
<1>11. \A t \in AnyTool : t.name \in Seq(STRING)
  BY DEF AnyTool
<1>12. {t.name : t \in ToSet(selected)} = ToSet(names)
  BY <1>10
<1> QED
  BY <1>7, <1>9, <1>11, <1>12 DEF selected, names, mine

\* What is asked by the tools and the choice it makes is what the Chat request asks.
LEMMA PolicyToClaude ==
    ASSUME NEW b, PlainForm(b), ToolPolicy(b).ok
    PROVE  /\ ClaudeSelected(b) \in Seq(AnyTool)
           /\ ModeOf(ClaudeChoice(b)) = ModeOf(ChoiceOf(b))
           /\ Choosable(ToSet(ClaudeSelected(b)), ClaudeChoice(b)) = Choosable(ToSet(ToolsOf(b)), ChoiceOf(b))
<1> DEFINE policy == ToolPolicy(b)
           mine == b["tool_choice"]
           choice == ClaudeChoice(b)
           selected == ClaudeSelected(b)
           tools == ToSet(ToolsOf(b))
<1>1. SaysNothing(b, policy) \/ SaysMode(b, policy) \/ SaysOne(b, policy) \/ SaysAllowed(b, policy)
  BY PolicyOf DEF PlainForm, SaysCustom
<1>2. ASSUME policy.names = Nothing \/ policy.policy = <<"forced">>
      PROVE  selected \in Seq(AnyTool) /\ ToSet(selected) = tools
  <2>1. selected = ClaudeFunctions(b)
    BY <1>2 DEF ClaudeSelected
  <2> QED
    BY <2>1, ClaudeFunctionsHave
<1>3. Has(b, "tool_choice") => ChoiceOf(b) = mine
  BY DEF ChoiceOf, Value
<1>4. CASE SaysNothing(b, policy)
  <2>1. choice = Plain("auto") /\ ChoiceOf(b) = Plain("auto")
    BY <1>4 DEF SaysNothing, ClaudeChoice, ChoiceOf, Value
  <2>2. selected \in Seq(AnyTool) /\ ToSet(selected) = tools
    BY <1>2, <1>4 DEF SaysNothing
  <2> QED
    BY <2>1, <2>2
<1>5. CASE SaysMode(b, policy)
  <2>1. /\ policy.policy = <<mine.type>> /\ policy.names = Nothing /\ mine.picks = <<>> /\ ChoiceOf(b) = mine
        /\ mine.type \in {"auto", "none", "required"}
    BY <1>3, <1>5 DEF SaysMode
  <2>2. selected \in Seq(AnyTool) /\ ToSet(selected) = tools
    BY <1>2, <2>1
  <2>3. choice = ChoiceOfPolicy(mine.type, policy.names[1])
    <3> HIDE DEF policy, mine
    <3> QED
      BY <2>1 DEF ClaudeChoice, Nothing, policy
  <2>4. choice = IF mine.type = "required" THEN Plain("any") ELSE Plain(mine.type)
    <3> HIDE DEF mine, choice
    <3> QED
      BY <2>1, <2>3 DEF ChoiceOfPolicy
  <2>5. choice.picks = <<>> /\ choice.type = IF mine.type = "required" THEN "any" ELSE mine.type
    <3> HIDE DEF mine, choice
    <3> QED
      BY <2>4, PlainParts
  <2>6. ModeOf(choice) = ModeOf(mine)
    <3> HIDE DEF mine, choice
    <3> QED
      BY <2>1, <2>5 DEF ModeOf
  <2>7. Choosable(ToSet(selected), choice) = Choosable(tools, mine)
    <3> HIDE DEF mine, choice
    <3> QED
      BY <2>1, <2>2, <2>5 DEF Choosable
  <2> QED
    BY <2>1, <2>2, <2>6, <2>7
<1>6. CASE SaysOne(b, policy)
  <2> DEFINE names == PickNames(mine)
  <2>1. /\ policy.policy = <<"forced">> /\ policy.names = <<names>> /\ Len(mine.picks) = 1 /\ ChoiceOf(b) = mine
        /\ mine.type = "function" /\ \A i \in DOMAIN mine.picks : mine.picks[i].kind # "namespace"
    BY <1>3, <1>6 DEF SaysOne
  <2>2. selected \in Seq(AnyTool) /\ ToSet(selected) = tools
    BY <1>2, <2>1
  <2>3. mine.picks \in Seq(Picks)
    BY <1>6 DEF SaysOne, PlainForm, ChatForm
  <2>4. names = <<names[1]>> /\ mine.picks # <<>>
    <3>1. DOMAIN mine.picks = 1..1
      <4> HIDE DEF mine
      <4> QED
        BY <2>1, <2>3
    <3>2. names = [i \in 1..1 |-> names[i]]
      BY <3>1 DEF PickNames
    <3>3. mine.picks # <<>>
      <4> HIDE DEF mine
      <4> QED
        BY <3>1
    <3> HIDE DEF names
    <3> QED
      BY <3>2, <3>3
  <2> HIDE DEF names
  <2>5. choice = Forced("tool", names[1])
    <3>1. choice = ChoiceOfPolicy("forced", names)
      <4> HIDE DEF policy
      <4> QED
        BY <2>1 DEF ClaudeChoice, Nothing, policy
    <3> HIDE DEF choice
    <3> QED
      BY <3>1 DEF ChoiceOfPolicy
  <2>6. choice.type = "tool" /\ choice.picks = <<Pick("function", names[1])>>
    <3> HIDE DEF choice
    <3> QED
      BY <2>5, ForcedParts
  <2> HIDE DEF choice, mine
  <2>7. ModeOf(choice) = "required" /\ ModeOf(mine) = "required"
    BY <2>1, <2>6 DEF ModeOf
  <2>8. PickNames(choice) = <<names[1]>>
    BY <2>6 DEF PickNames, Pick
  <2>9. choice.picks # <<>> /\ \A i \in DOMAIN choice.picks : choice.picks[i].kind # "namespace"
    BY <2>6 DEF Pick
  <2>10. Choosable(ToSet(selected), choice) = ToSet(<<names[1]>>)
    BY <2>8, <2>9, NamedAreChoosable
  <2>11. Choosable(tools, mine) = ToSet(<<names[1]>>)
    BY <2>1, <2>4, NamedAreChoosable DEF names
  <2> QED
    BY <2>1, <2>2, <2>7, <2>10, <2>11 DEF choice
<1>7. CASE SaysAllowed(b, policy)
  <2> DEFINE names == PickNames(mine)
  <2>1. /\ policy.policy = <<mine.mode>> /\ ChoiceOf(b) = mine
        /\ mine.type = "allowed_tools" /\ mine.mode \in {"auto", "required"} /\ mine.picks # <<>>
        /\ \A i \in DOMAIN mine.picks : mine.picks[i].kind # "namespace"
    BY <1>3, <1>7 DEF SaysAllowed
  <2>2. /\ selected \in Seq(AnyTool) /\ \A t \in ToSet(selected) : t.kind = "function" /\ t.name \in Seq(STRING)
        /\ {t.name : t \in ToSet(selected)} = ToSet(names)
    BY <1>7, AllowedAreSelected
  <2>3. choice = IF mine.mode = "required" THEN Plain("any") ELSE Plain("auto")
    <3>1. choice = ChoiceOfPolicy(mine.mode, policy.names[1])
      <4> HIDE DEF policy, mine
      <4> QED
        BY <2>1 DEF ClaudeChoice, Nothing, policy
    <3> HIDE DEF choice, mine
    <3> QED
      BY <2>1, <3>1 DEF ChoiceOfPolicy
  <2> HIDE DEF choice, mine, selected, names
  <2>4. choice.picks = <<>> /\ choice.type = IF mine.mode = "required" THEN "any" ELSE "auto"
    BY <2>3, PlainParts
  <2>5. ModeOf(choice) = mine.mode /\ ModeOf(mine) = mine.mode
    BY <2>1, <2>4 DEF ModeOf
  <2>6. Choosable(ToSet(selected), choice) = ToSet(names)
    BY <2>2, <2>4, FunctionsAreCallables DEF Choosable
  <2>7. Choosable(tools, mine) = ToSet(names)
    BY <2>1, NamedAreChoosable DEF names
  <2> QED
    BY <2>1, <2>2, <2>5, <2>6, <2>7 DEF choice, selected
<1> QED
  BY <1>1, <1>4, <1>5, <1>6, <1>7

\* openai_to_claude asks what the Chat request does, and one by one if it says so.
LEMMA ToClaudeAsks ==
    ASSUME NEW b, NEW rejects, PlainForm(b), ClaudeOfChat(b, rejects) # Nothing
    PROVE  LET made == ClaudeOfChat(b, rejects)[1] IN
           /\ Asked(made) = Asked(b)
           /\ IsSerial(b) /\ Asked(made) # NoTools => OneByOne("anthropic", made)
<1> DEFINE made == ClaudeOfChat(b, rejects)[1]
           choice == ClaudeChoice(b)
           selected == ClaudeSelected(b)
<1>1. /\ ToolPolicy(b).ok /\ ToolsOf(made) = selected /\ ChoiceOf(made) = choice
      /\ ClaudeChosen(b) /\ IsSerial(b) /\ choice.type # "none" => OneByOne("anthropic", made)
  BY ClaudeOfChatTools
<1>2. /\ selected \in Seq(AnyTool) /\ ModeOf(choice) = ModeOf(ChoiceOf(b))
      /\ Choosable(ToSet(selected), choice) = Choosable(ToSet(ToolsOf(b)), ChoiceOf(b))
  BY <1>1, PolicyToClaude
<1> HIDE DEF made, choice, selected
<1>3. Asked(made) = AskedOf(ModeOf(choice), Choosable(ToSet(selected), choice))
  BY <1>1, <1>2, AskedIs
<1>4. Asked(b) = AskedOf(ModeOf(ChoiceOf(b)), Choosable(ToSet(ToolsOf(b)), ChoiceOf(b)))
  BY AskedIs DEF PlainForm, ChatForm
<1>5. Asked(made) = Asked(b)
  BY <1>2, <1>3, <1>4
<1>6. ASSUME IsSerial(b), Asked(made) # NoTools PROVE OneByOne("anthropic", made)
  <2>1. ModeOf(choice) # "none" /\ Choosable(ToSet(selected), choice) # {}
    BY <1>3, <1>6 DEF AskedOf
  <2>2. choice.type # "none"
    BY <2>1 DEF ModeOf
  <2>3. CASE ToolPolicy(b).policy # Nothing
    BY <1>1, <1>6, <2>2, <2>3 DEF ClaudeChosen
  <2>4. CASE ToolPolicy(b).policy = Nothing
    <3>1. choice = Plain("auto")
      BY <2>4 DEF choice, ClaudeChoice
    <3>2. choice.picks = <<>>
      BY <3>1, PlainParts
    <3>3. PICK t \in ToSet(selected) : TRUE
      BY <2>1, <3>2 DEF Choosable, Callables
    <3>4. ToolsOf(b) # <<>>
      <4>1. SaysNothing(b, ToolPolicy(b))
        BY <1>1, <2>4, PolicyOf DEF PlainForm, SaysCustom, SaysMode, SaysOne, SaysAllowed, Nothing
      <4>2. selected = ClaudeFunctions(b)
        BY <4>1 DEF selected, ClaudeSelected, SaysNothing
      <4>3. ToSet(ToolsOf(b)) # {}
        BY <3>3, <4>2, ClaudeFunctionsHave
      <4>4. ToSet(<<>>) = {}
        BY DEF ToSet
      <4> QED
        BY <4>3, <4>4
    <3> QED
      BY <1>1, <1>6, <2>2, <3>4 DEF ClaudeChosen
  <2> QED
    BY <2>3, <2>4
<1> QED
  BY <1>5, <1>6 DEF made

-----------------------------------------------------------------------------
(* The choice among tools, until Chat *)

LEMMA FormKept ==
    ASSUME NEW a, NEW b, Agree(a, b, "tools"), Agree(a, b, "tool_choice")
    PROVE  /\ ChatForm(b) => ChatForm(a)
           /\ PlainForm(b) => PlainForm(a)
<1>1. ToolsOf(a) = ToolsOf(b)
  BY AgreeValue DEF ToolsOf
<1>2. (Has(a, "tool_choice") <=> Has(b, "tool_choice")) /\ (Has(b, "tool_choice") => a["tool_choice"] = b["tool_choice"])
  BY DEF Agree, Has
<1> QED
  BY <1>1, <1>2 DEF ChatForm, PlainForm

\* The defaults of the route leave a choice of Chat's as it is.
LEMMA ChatKeepsForm ==
    /\ ChatForm(Pivoted[1]) => ChatForm(Chat)
    /\ PlainForm(Pivoted[1]) => PlainForm(Chat)
    /\ Asked(Chat) = Asked(Pivoted[1])
    /\ IsSerial(Pivoted[1]) => IsSerial(Chat)
<1> DEFINE b == Pivoted[1]
           limited == With(b, DefaultLimitField["chat"], LimitApplies("chat", b, to), to.limit)
<1>0. "chat" \in Formats
  BY DEF Formats
<1>1. Agree(Chat, b, "tools")
  BY <1>0, DefaultsAgree DEF Chat, ParallelFields, LimitNames
<1>2. Agree(Chat, b, "tool_choice")
  <2>1. Chat = Gated("chat", limited, to)
    BY DEF Chat, Defaults
  <2>2. Agree(limited, b, "tool_choice")
    BY WithAgrees DEF DefaultLimitField
  <2> HIDE DEF limited, b
  <2>3. Agree(Chat, limited, "tool_choice")
    <3>1. CASE GateApplies("chat", limited, to)
      <4>1. Chat = Set(limited, "parallel_tool_calls", FALSE)
        BY <2>1, <3>1 DEF Gated
      <4> QED
        BY <4>1, SetAgrees
    <3>2. CASE ~GateApplies("chat", limited, to)
      <4>1. Chat = limited
        BY <2>1, <3>2 DEF Gated
      <4> QED
        BY <4>1 DEF Agree
    <3> QED
      BY <3>1, <3>2
  <2> QED
    BY <2>2, <2>3, AgreeTwice
<1>3. Asked(Chat) = Asked(b)
  BY <1>1, <1>2, AgreeValue, AskedAlike DEF ToolsOf, ChoiceOf
<1>4. ASSUME IsSerial(b) PROVE IsSerial(Chat)
  <2>1. ParallelField("chat") = "parallel_tool_calls"
    BY DEF ParallelField
  <2>2. "parallel_tool_calls" \in DOMAIN b
    BY <1>4 DEF IsSerial, Value, Has
  <2>3. Agree(Chat, b, "parallel_tool_calls")
    BY <1>0, <2>1, <2>2, DefaultsAsk DEF Chat
  <2> HIDE DEF b
  <2>4. Value(Chat, "parallel_tool_calls", TRUE) = Value(b, "parallel_tool_calls", TRUE)
    BY <2>3 DEF Agree, Value, Has
  <2> QED
    BY <1>4, <2>4, Zenon DEF IsSerial
<1> QED
  BY <1>1, <1>2, <1>3, <1>4, FormKept

\* A choice of Chat's that is written out
LEMMA PlainChoice ==
    ASSUME NEW type, type \in ChoosesAll["chat"], NEW tools
    PROVE  Plain(type).picks \in Seq(Picks) /\ IsChoice("chat", Plain(type), tools)
<1>1. ChoosesAll["chat"] = {"auto", "none", "required"}
  BY DEF ChoosesAll
<1>2. IsChoice("chat", Plain(type), tools)
  BY <1>1, PlainParts DEF IsChoice
<1>3. <<>> \in Seq(Picks)
  OBVIOUS
<1> QED
  BY <1>2, <1>3, PlainParts

LEMMA ForcedChoice ==
    ASSUME NEW name \in Seq(STRING), NEW tools
    PROVE  Forced("function", name).picks \in Seq(Picks) /\ IsChoice("chat", Forced("function", name), tools)
<1> DEFINE picks == <<Pick("function", name)>>
<1>1. Pick("function", name) \in Picks
  BY DEF Pick, Picks, ToolKinds
<1>2. picks \in Seq(Picks) /\ Len(picks) = 1 /\ picks[1].kind = "function"
  BY <1>1 DEF Pick
<1>3. ChoosesOne["chat"] = {"function", "custom"}
  BY DEF ChoosesOne
<1> HIDE DEF picks
<1>7. Forced("function", name).type = "function" /\ Forced("function", name).picks = picks
  BY ForcedParts DEF picks
<1> HIDE DEF Forced
<1>8. IsChoice("chat", Forced("function", name), tools)
  BY <1>2, <1>3, <1>7 DEF IsChoice
<1> QED
  BY <1>2, <1>7, <1>8

\* A Chat request is what Chat asks, and has no custom tools for Anthropic.
LEMMA ChatPivots ==
    ASSUME Progress, stage = "sent", client = "chat", client # Upstream
    PROVE  ChatForm(body) /\ (Upstream = "anthropic" => PlainForm(body))
<1>1. body \in Bodies["chat"] /\ "chat" \in Formats
  BY SentFacts
<1>2. /\ ToolsOf(body) \in ToolsOfKinds(ToolKinds["chat"])
      /\ Has(body, "tool_choice") => body["tool_choice"].picks \in Seq(Picks) /\ IsChoice("chat", body["tool_choice"], ToolsOf(body))
  BY <1>1, ToolsAssumption
<1>3. ToolKinds["chat"] = {"function", "custom"}
  BY DEF ToolKinds
<1>4. ToolsOf(body) \in Seq(AnyTool) /\ \A t \in ToSet(ToolsOf(body)) : t.kind \in {"function", "custom"}
  <2>1. {"function", "custom"} \in SUBSET ToolKinds["responses"]
    BY DEF ToolKinds
  <2> QED
    BY <1>2, <1>3, <2>1, ToolsAreTools
<1>5. ChatForm(body)
  BY <1>2, <1>4 DEF ChatForm
<1>6. ASSUME Upstream = "anthropic" PROVE PlainForm(body)
  <2>1. ~UsesCustomTools(body)
    BY <1>6, SentFacts DEF Admitted, Translatable
  <2>2. \A t \in ToSet(ToolsOf(body)) : t.kind = "function"
    BY <1>4, <2>1 DEF UsesCustomTools
  <2>3. ASSUME Has(body, "tool_choice")
        PROVE  \A i \in DOMAIN body["tool_choice"].picks : body["tool_choice"].picks[i].kind = "function"
    <3> DEFINE choice == body["tool_choice"]
    <3>1. choice.picks \in Seq(Picks) /\ IsChoice("chat", choice, ToolsOf(body))
      BY <1>2, <2>3
    <3>2. \A i \in DOMAIN choice.picks : choice.picks[i].kind # "custom"
      BY <2>1, <2>3 DEF UsesCustomTools, ToSet
    <3>3. choice.picks \in Seq(Picks)
      BY <3>1
    <3>4. ChoosesOne["chat"] = {"function", "custom"}
      BY DEF ChoosesOne
    <3> HIDE DEF choice
    <3>5. ASSUME NEW i \in DOMAIN choice.picks PROVE choice.picks[i].kind \in {"function", "custom"}
      <4>1. CASE choice.picks = <<>>
        BY <3>5, <4>1
      <4>2. CASE choice.type \in ChoosesOne["chat"] /\ Len(choice.picks) = 1 /\ choice.picks[1].kind = choice.type
        <5>1. i = 1
          BY <3>3, <3>5, <4>2
        <5> QED
          BY <3>4, <4>2, <5>1
      <4>3. CASE \A k \in DOMAIN choice.picks : choice.picks[k].kind \in {"function", "custom"}
        BY <3>5, <4>3
      <4>4. choice.type \in ChoosesOne["chat"] => choice.type # "tool"
        BY <3>4
      <4> QED
        BY <3>1, <4>1, <4>2, <4>3, <4>4 DEF IsChoice
    <3> QED
      BY <3>2, <3>5 DEF choice
  <2> QED
    BY <1>5, <2>2, <2>3 DEF PlainForm
<1> QED
  BY <1>5, <1>6

\* anthropic_tool_choice_to_openai keeps what the choice asks.
LEMMA ChoiceFromClaude ==
    ASSUME NEW choice, NEW tools, choice.picks \in Seq(Picks), IsChoice("anthropic", choice, tools), NEW any
    PROVE  LET made == ChoiceOfClaude(choice) IN
           /\ made.picks \in Seq(Picks) /\ IsChoice("chat", made, tools)
           /\ \A i \in DOMAIN made.picks : made.picks[i].kind = "function"
           /\ ModeOf(made) = ModeOf(choice) /\ Choosable(any, made) = Choosable(any, choice)
<1> DEFINE made == ChoiceOfClaude(choice)
<1>1. /\ ChoosesAll["anthropic"] = {"auto", "none", "any"} /\ ChoosesOne["anthropic"] = {"tool"}
      /\ ChoosesAll["chat"] = {"auto", "none", "required"}
  BY DEF ChoosesAll, ChoosesOne
<1>2. \/ choice.type \in {"auto", "none", "any"} /\ choice.picks = <<>>
      \/ choice.type = "tool" /\ Len(choice.picks) = 1 /\ choice.picks[1].kind = "function"
  BY <1>1 DEF IsChoice
<1>3. CASE choice.type \in {"auto", "none"}
  <2>1. made = choice /\ choice.picks = <<>>
    BY <1>2, <1>3 DEF ChoiceOfClaude
  <2>2. IsChoice("chat", choice, tools)
    BY <1>1, <1>3, <2>1 DEF IsChoice
  <2> HIDE DEF made
  <2> QED
    BY <2>1, <2>2 DEF made
<1>4. CASE choice.type = "any"
  <2>1. made = Plain("required") /\ choice.picks = <<>>
    BY <1>2, <1>4 DEF ChoiceOfClaude
  <2> HIDE DEF made
  <2>2. made.picks \in Seq(Picks) /\ IsChoice("chat", made, tools) /\ made.type = "required" /\ made.picks = <<>>
    BY <1>1, <2>1, PlainChoice, PlainParts
  <2>3. ModeOf(made) = ModeOf(choice) /\ Choosable(any, made) = Choosable(any, choice)
    BY <1>4, <2>1, <2>2 DEF ModeOf, Choosable
  <2> QED
    BY <2>2, <2>3 DEF made
<1>5. CASE choice.type = "tool"
  <2> DEFINE name == choice.picks[1].name
  <2>1. made = Forced("function", name) /\ Len(choice.picks) = 1 /\ choice.picks[1].kind = "function"
    BY <1>2, <1>5 DEF ChoiceOfClaude
  <2>2. choice.picks[1] \in Picks /\ 1 \in DOMAIN choice.picks /\ \A i \in DOMAIN choice.picks : i = 1
    BY <2>1
  <2>3. name \in Seq(STRING)
    BY <2>2 DEF Picks
  <2> HIDE DEF made
  <2>4. /\ made.picks \in Seq(Picks) /\ IsChoice("chat", made, tools)
        /\ made.type = "function" /\ made.picks = <<Pick("function", name)>>
    <3> HIDE DEF name
    <3> QED
      BY <2>1, <2>3, ForcedChoice, ForcedParts
  <2>5. made.picks # <<>> /\ \A i \in DOMAIN made.picks : made.picks[i].kind = "function"
    BY <2>4 DEF Pick
  <2>6. Choosable(any, made) = ToSet(PickNames(made)) /\ Choosable(any, choice) = ToSet(PickNames(choice))
    <3>1. Choosable(any, made) = ToSet(PickNames(made))
      BY <2>5, NamedAreChoosable
    <3>2. choice.picks # <<>> /\ \A i \in DOMAIN choice.picks : choice.picks[i].kind # "namespace"
      BY <2>1, <2>2
    <3>3. Choosable(any, choice) = ToSet(PickNames(choice))
      BY <3>2, NamedAreChoosable
    <3> QED
      BY <3>1, <3>3
  <2>7. PickNames(made) = <<name>>
    BY <2>4 DEF PickNames, Pick
  <2>8. PickNames(choice) = <<name>>
    BY <2>1, <2>2 DEF PickNames
  <2>9. ModeOf(made) = ModeOf(choice)
    BY <1>5, <2>4 DEF ModeOf
  <2> QED
    BY <2>4, <2>5, <2>6, <2>7, <2>8, <2>9 DEF made
<1> QED
  BY <1>2, <1>3, <1>4, <1>5

\* claude_to_openai: what it makes of an Anthropic request asks the same.
LEMMA ClaudePivots ==
    ASSUME Progress, stage = "sent", client = "anthropic", client # Upstream
    PROVE  /\ PlainForm(Pivoted[1]) /\ Asked(Pivoted[1]) = Asked(body)
           /\ OneByOne(client, body) => IsSerial(Pivoted[1])
<1> DEFINE chosen == Has(body, "tool_choice")
           serial == chosen /\ Value(body, "tool_choice.disable_parallel_tool_use", FALSE)
           choice == body["tool_choice"]
           plain == Carried(body, FromClaude)
           one == With(plain, "tool_choice", chosen, ChoiceOfClaude(choice))
           two == With(one, "parallel_tool_calls", serial, FALSE)
           made == Pivoted[1]
<1>1. made = two
  BY DEF Pivoted, ChatOfClaude, FromClaude
<1>2. body \in Bodies["anthropic"] /\ "anthropic" \in Formats
  BY SentFacts
<1>3. /\ ToolsOf(body) \in ToolsOfKinds(ToolKinds["anthropic"])
      /\ chosen => choice.picks \in Seq(Picks) /\ IsChoice("anthropic", choice, ToolsOf(body))
      /\ Has(body, "tool_choice.disable_parallel_tool_use") => chosen
  BY <1>2, ToolsAssumption
<1>4. ToolsOf(body) \in Seq(AnyTool)
  <2>1. ToolKinds["anthropic"] \in SUBSET ToolKinds["responses"]
    BY DEF ToolKinds
  <2> QED
    BY <1>3, <2>1, ToolsAreTools
<1>5. \A t \in ToSet(ToolsOf(body)) : t.kind = "function"
  BY SentFacts DEF Admitted, Translatable
<1>6. "tools" \in DOMAIN plain <=> "tools" \in DOMAIN body
  <2>1. <<"tools", "tools">> \in FromClaude /\ \A q \in FromClaude : q[2] = "tools" => q[1] = "tools"
    BY DEF FromClaude, Same
  <2> HIDE DEF FromClaude
  <2> QED
    BY <2>1, CarriedField
<1>7. Agree(plain, body, "tools")
  <2>1. <<"tools", "tools">> \in FromClaude /\ \A q \in FromClaude : q[2] = "tools" => q[1] = "tools"
    BY DEF FromClaude, Same
  <2> HIDE DEF FromClaude
  <2> QED
    BY <2>1, CarriedField DEF Agree
<1>8. "tool_choice" \notin DOMAIN plain
  <2>1. \A q \in FromClaude : q[2] # "tool_choice"
    BY DEF FromClaude, Same
  <2> HIDE DEF FromClaude
  <2> QED
    BY <2>1, NotCarried
<1> HIDE DEF plain, made, choice, serial
<1>9. Agree(one, plain, "tools")
  BY WithAgrees
<1>10. Has(one, "tool_choice") <=> chosen
  BY <1>8 DEF Has, With, Set
<1>11. chosen => one["tool_choice"] = ChoiceOfClaude(choice)
  BY DEF With, Set
<1> HIDE DEF one
<1>12. Agree(two, one, "tools") /\ Agree(two, one, "tool_choice")
  BY WithAgrees
<1>13. serial => IsSerial(two)
  BY DEF IsSerial, Value, Has, With, Set
<1> HIDE DEF two
<1>14. ToolsOf(made) = ToolsOf(body)
  BY <1>1, <1>7, <1>9, <1>12, AgreeTwice, AgreeValue DEF ToolsOf
<1>15. (Has(made, "tool_choice") <=> chosen) /\ (chosen => made["tool_choice"] = ChoiceOfClaude(choice))
  BY <1>1, <1>10, <1>11, <1>12 DEF Agree, Has
<1>16. PlainForm(made)
  <2>1. chosen => LET theirs == ChoiceOfClaude(choice) IN
                  /\ theirs.picks \in Seq(Picks) /\ IsChoice("chat", theirs, ToolsOf(body))
                  /\ \A i \in DOMAIN theirs.picks : theirs.picks[i].kind = "function"
    BY <1>3, ChoiceFromClaude
  <2> QED
    BY <1>4, <1>5, <1>14, <1>15, <2>1 DEF PlainForm, ChatForm
<1>17. Asked(made) = Asked(body)
  <2>1. CASE ~chosen
    <3>1. ChoiceOf(made) = Plain("auto") /\ ChoiceOf(body) = Plain("auto")
      BY <1>15, <2>1 DEF ChoiceOf, Value
    <3> QED
      BY <1>14, <3>1, AskedAlike
  <2>2. CASE chosen
    <3>1. ChoiceOf(made) = ChoiceOfClaude(choice) /\ ChoiceOf(body) = choice
      BY <1>15, <2>2 DEF ChoiceOf, Value, choice
    <3>2. /\ ModeOf(ChoiceOf(made)) = ModeOf(ChoiceOf(body))
          /\ Choosable(ToSet(ToolsOf(body)), ChoiceOf(made)) = Choosable(ToSet(ToolsOf(body)), ChoiceOf(body))
      BY <1>3, <2>2, <3>1, ChoiceFromClaude
    <3>3. Asked(made) = AskedOf(ModeOf(ChoiceOf(made)), Choosable(ToSet(ToolsOf(body)), ChoiceOf(made)))
      BY <1>4, <1>14, AskedIs
    <3>4. Asked(body) = AskedOf(ModeOf(ChoiceOf(body)), Choosable(ToSet(ToolsOf(body)), ChoiceOf(body)))
      BY <1>4, AskedIs
    <3> QED
      BY <3>2, <3>3, <3>4
  <2> QED
    BY <2>1, <2>2
<1>18. OneByOne(client, body) => serial
  BY <1>3 DEF OneByOne, serial, Value
<1> QED
  BY <1>1, <1>13, <1>16, <1>17, <1>18 DEF made

\* A list of functions with the given names
FunctionsNamed(names) == [i \in DOMAIN names |-> FunctionTool(names[i])]

LEMMA FlatTools ==
    ASSUME NEW names \in Seq(Seq(STRING))
    PROVE  /\ FunctionsNamed(names) \in Seq(AnyTool)
           /\ \A t \in ToSet(FunctionsNamed(names)) : t.kind = "function" /\ t.name \in Seq(STRING)
           /\ {t.name : t \in ToSet(FunctionsNamed(names))} = ToSet(names)
           /\ names = <<>> => FunctionsNamed(names) = <<>>
<1> DEFINE made == FunctionsNamed(names)
<1>0. made = [i \in DOMAIN names |-> FunctionTool(names[i])]
  BY DEF FunctionsNamed
<1> HIDE DEF made
<1>1. DOMAIN names = 1..Len(names) /\ Len(names) \in Nat /\ \A i \in 1..Len(names) : names[i] \in Seq(STRING)
  OBVIOUS
<1>2. \A name : FunctionTool(name).kind = "function" /\ FunctionTool(name).name = name
  BY DEF FunctionTool
<1>3. ASSUME NEW name \in Seq(STRING) PROVE FunctionTool(name) \in AnyTool
  BY DEF FunctionTool, AnyTool, ToolKinds, ToolFormats
<1>4. \A i \in 1..Len(names) : made[i] = FunctionTool(names[i])
  BY <1>0, <1>1
<1>5. made = [i \in 1..Len(names) |-> made[i]] /\ DOMAIN made = 1..Len(names)
  BY <1>0, <1>1
<1>6. made \in Seq(AnyTool)
  <2>1. \A i \in 1..Len(names) : made[i] \in AnyTool
    BY <1>1, <1>3, <1>4
  <2> QED
    BY <1>1, <1>5, <2>1
<1>7. \A i \in 1..Len(names) : made[i].kind = "function" /\ made[i].name = names[i] /\ names[i] \in Seq(STRING)
  BY <1>1, <1>2, <1>4
<1>8. ToSet(made) = {made[i] : i \in 1..Len(names)} /\ ToSet(names) = {names[i] : i \in 1..Len(names)}
  BY <1>1, <1>5 DEF ToSet
<1>9. ASSUME NEW x PROVE x \in {t.name : t \in ToSet(made)} <=> x \in ToSet(names)
  <2>1. x \in {t.name : t \in ToSet(made)} <=> \E i \in 1..Len(names) : x = made[i].name
    BY <1>8
  <2>2. x \in ToSet(names) <=> \E i \in 1..Len(names) : x = names[i]
    BY <1>8
  <2>3. \A i \in 1..Len(names) : made[i].name = names[i]
    BY <1>7
  <2> QED
    BY <2>1, <2>2, <2>3, Zenon
<1>10. names = <<>> => made = <<>>
  BY <1>1, <1>5, <1>6
<1>11. {t.name : t \in ToSet(made)} = ToSet(names)
  BY <1>9
<1> QED
  BY <1>6, <1>7, <1>8, <1>10, <1>11 DEF made

FunctionPicks == [kind : {"function"}, name : Seq(STRING)]

\* responses_tool_choice_to_openai_tool_choice, for tools that are allowed
PicksOf(choice, tools) ==
    [i \in DOMAIN choice.picks |->
        IF choice.picks[i].kind # "namespace" THEN <<Pick("function", choice.picks[i].name)>>
        ELSE [c \in DOMAIN FlatChildren(tools, choice.picks[i].name) |->
                Pick("function", FlatChildren(tools, choice.picks[i].name)[c])]]

\* Each of them becomes the functions it stands for.
LEMMA PickBecomes ==
    ASSUME NEW tools \in Seq(AnyTool), NEW choice, choice.picks \in Seq(Picks), NEW i \in DOMAIN choice.picks
    PROVE  /\ PicksOf(choice, tools)[i] \in Seq(FunctionPicks)
           /\ {p.name : p \in ToSet(PicksOf(choice, tools)[i])} = Picked(ToSet(tools), choice.picks[i])
<1> DEFINE pick == choice.picks[i]
           flat == FlatChildren(tools, pick.name)
           made == PicksOf(choice, tools)[i]
<1>1. pick \in Picks
  OBVIOUS
<1>2. pick.name \in Seq(STRING)
  <2> HIDE DEF pick
  <2> QED
    BY <1>1 DEF Picks
<1>3. \A name \in Seq(STRING) : Pick("function", name) \in FunctionPicks /\ Pick("function", name).name = name
  BY DEF Pick, FunctionPicks
<1>4. made = IF pick.kind # "namespace" THEN <<Pick("function", pick.name)>>
             ELSE [c \in DOMAIN flat |-> Pick("function", flat[c])]
  BY DEF PicksOf
<1>5. flat \in Seq(Seq(STRING)) /\ ToSet(flat) = Callables({t \in ToSet(tools) : t.kind = "namespace" /\ t.name = pick.name})
  BY FlatChildrenHas
<1> HIDE DEF made, flat, pick
<1>6. CASE pick.kind # "namespace"
  <2>1. made = <<Pick("function", pick.name)>>
    BY <1>4, <1>6
  <2>2. ToSet(made) = {Pick("function", pick.name)}
    BY <2>1 DEF ToSet
  <2>3. {p.name : p \in ToSet(made)} = {pick.name}
    BY <1>2, <1>3, <2>2
  <2>4. made \in Seq(FunctionPicks)
    BY <1>2, <1>3, <2>1
  <2> QED
    BY <1>6, <2>3, <2>4 DEF Picked, made, pick
<1>7. CASE pick.kind = "namespace"
  <2>1. made = [c \in DOMAIN flat |-> Pick("function", flat[c])]
    BY <1>4, <1>7
  <2>2. DOMAIN flat = 1..Len(flat) /\ Len(flat) \in Nat /\ \A c \in 1..Len(flat) : flat[c] \in Seq(STRING)
    BY <1>5
  <2>3. \A c \in 1..Len(flat) : made[c] \in FunctionPicks /\ made[c].name = flat[c]
    BY <1>3, <2>1, <2>2
  <2>4. made = [c \in 1..Len(flat) |-> made[c]] /\ DOMAIN made = 1..Len(flat)
    BY <2>1, <2>2
  <2>5. made \in Seq(FunctionPicks)
    BY <2>2, <2>3, <2>4
  <2>6. ToSet(made) = {made[c] : c \in 1..Len(flat)} /\ ToSet(flat) = {flat[c] : c \in 1..Len(flat)}
    BY <2>2, <2>4 DEF ToSet
  <2>7. ASSUME NEW x PROVE x \in {p.name : p \in ToSet(made)} <=> x \in ToSet(flat)
    BY <2>3, <2>6
  <2>8. {p.name : p \in ToSet(made)} = ToSet(flat)
    BY <2>7
  <2> QED
    BY <1>5, <1>7, <2>5, <2>8 DEF Picked, made, pick
<1> QED
  BY <1>6, <1>7

\* All of them become what the choice lets be called.
LEMMA AllowedBecome ==
    ASSUME NEW tools \in Seq(AnyTool), NEW choice, choice.picks \in Seq(Picks), choice.picks # <<>>, NEW made,
           made = FlattenSeq(PicksOf(choice, tools))
    PROVE  /\ made \in Seq(FunctionPicks)
           /\ {p.name : p \in ToSet(made)} = Choosable(ToSet(tools), choice)
<1> DEFINE picks == choice.picks
           each == PicksOf(choice, tools)
<1>1. DOMAIN picks = 1..Len(picks) /\ Len(picks) \in Nat
  OBVIOUS
<1>2. \A i \in 1..Len(picks) : each[i] \in Seq(FunctionPicks)
                             /\ {p.name : p \in ToSet(each[i])} = Picked(ToSet(tools), picks[i])
  BY <1>1, PickBecomes
<1>3. each = [i \in 1..Len(picks) |-> each[i]]
  BY <1>1 DEF PicksOf
<1>4. Choosable(ToSet(tools), choice) = UNION {Picked(ToSet(tools), p) : p \in ToSet(picks)}
  BY DEF Choosable
<1>5. ToSet(picks) = {picks[i] : i \in 1..Len(picks)}
  BY <1>1 DEF ToSet
<1> HIDE DEF each, picks
<1>6. each \in Seq(Seq(FunctionPicks)) /\ Len(each) = Len(picks)
  BY <1>1, <1>2, <1>3
<1>7. /\ made \in Seq(FunctionPicks)
      /\ \A p \in FunctionPicks : p \in ToSet(made) <=> \E i \in 1..Len(picks) : p \in ToSet(each[i])
  BY <1>6, FlattenHas DEF each
<1>8. ToSet(made) \subseteq FunctionPicks /\ \A i \in 1..Len(picks) : ToSet(each[i]) \subseteq FunctionPicks
  BY <1>2, <1>7 DEF ToSet
<1>9. ASSUME NEW x
      PROVE  x \in {p.name : p \in ToSet(made)} <=> x \in UNION {Picked(ToSet(tools), p) : p \in ToSet(picks)}
  <2>1. x \in {p.name : p \in ToSet(made)} <=> \E i \in 1..Len(picks) : \E p \in ToSet(each[i]) : x = p.name
    BY <1>7, <1>8
  <2>2. \A i \in 1..Len(picks) : (\E p \in ToSet(each[i]) : x = p.name) <=> x \in Picked(ToSet(tools), picks[i])
    BY <1>2
  <2>3. x \in UNION {Picked(ToSet(tools), p) : p \in ToSet(picks)} <=>
            \E i \in 1..Len(picks) : x \in Picked(ToSet(tools), picks[i])
    BY <1>5
  <2> QED
    BY <2>1, <2>2, <2>3
<1>10. {p.name : p \in ToSet(made)} = UNION {Picked(ToSet(tools), p) : p \in ToSet(picks)}
  BY <1>9
<1> QED
  BY <1>4, <1>7, <1>10

\* Tools that are left out are never called.
LEMMA NormalChoosable ==
    ASSUME NEW tools \in Seq(AnyTool), NEW choice
    PROVE  Choosable(ToSet(NormalizedTools(tools)), choice) = Choosable(ToSet(tools), choice)
<1> DEFINE normal == ToSet(NormalizedTools(tools))
           any == ToSet(tools)
<1>1. normal = {t \in any : t.kind # "hosted"}
  BY NormalizedHas
<1> HIDE DEF normal, any
<1>2. {t \in normal : t.kind # "hosted"} = {t \in any : t.kind # "hosted"}
  BY <1>1
<1>3. ASSUME NEW p PROVE Picked(normal, p) = Picked(any, p)
  <2>1. {t \in normal : t.kind = "namespace" /\ t.name = p.name} = {t \in any : t.kind = "namespace" /\ t.name = p.name}
    BY <1>1
  <2> QED
    BY <2>1 DEF Picked
<1>4. {Picked(normal, p) : p \in ToSet(choice.picks)} = {Picked(any, p) : p \in ToSet(choice.picks)}
  BY <1>3
<1>5. Choosable(normal, choice) = Choosable(any, choice)
  BY <1>2, <1>4 DEF Choosable
<1> QED
  BY <1>5 DEF normal, any

\* A function that is forced
LEMMA ForcedAsks ==
    ASSUME NEW name \in Seq(STRING), NEW tools, NEW any, NEW made, made = Forced("function", name)
    PROVE  /\ made.picks \in Seq(Picks) /\ IsChoice("chat", made, tools)
           /\ \A i \in DOMAIN made.picks : made.picks[i].kind = "function"
           /\ ModeOf(made) = "required" /\ Choosable(any, made) = {name}
<1>1. /\ made.picks \in Seq(Picks) /\ IsChoice("chat", made, tools)
      /\ made.type = "function" /\ made.picks = <<Pick("function", name)>>
  BY ForcedChoice, ForcedParts
<1>2. made.picks # <<>> /\ \A i \in DOMAIN made.picks : made.picks[i].kind = "function"
  <2> DEFINE picks == <<Pick("function", name)>>
  <2>1. picks # <<>> /\ \A i \in DOMAIN picks : picks[i].kind = "function"
    BY DEF Pick
  <2> HIDE DEF picks
  <2> QED
    BY <1>1, <2>1, Zenon DEF picks
<1>3. PickNames(made) = <<name>>
  BY <1>1 DEF PickNames, Pick
<1>4. Choosable(any, made) = ToSet(PickNames(made))
  BY <1>2, NamedAreChoosable
<1>5. ToSet(<<name>>) = {name}
  BY DEF ToSet
<1>6. ModeOf(made) = "required"
  BY <1>1 DEF ModeOf
<1> QED
  BY <1>1, <1>2, <1>3, <1>4, <1>5, <1>6

\* A choice of one tool lets be called what that tool stands for.
LEMMA OneIsChoosable ==
    ASSUME NEW tools, NEW choice, choice.picks \in Seq(Picks), Len(choice.picks) = 1
    PROVE  Choosable(tools, choice) = Picked(tools, choice.picks[1])
<1> DEFINE picks == choice.picks
<1>1. picks # <<>> /\ DOMAIN picks = 1..1
  BY DEF picks
<1> HIDE DEF picks
<1>2. ToSet(picks) = {picks[1]}
  BY <1>1 DEF ToSet
<1>3. {Picked(tools, p) : p \in ToSet(picks)} = {Picked(tools, picks[1])}
  BY <1>2
<1> QED
  BY <1>1, <1>3 DEF Choosable, picks

\* What a list of allowed tools becomes is not empty.
LEMMA AllowedAreSome ==
    ASSUME NEW tools \in Seq(AnyTool), NEW choice, choice.picks \in Seq(Picks), choice.picks # <<>>,
           \A i \in DOMAIN choice.picks :
                \/ choice.picks[i].kind # "namespace"
                \/ \E t \in ToSet(tools) : t.kind = "namespace" /\ t.name = choice.picks[i].name /\ t.children # <<>>
    PROVE  Choosable(ToSet(tools), choice) # {}
<1> DEFINE picks == choice.picks
           pick == picks[1]
<1>1. 1 \in DOMAIN picks
  OBVIOUS
<1>2. pick \in ToSet(picks)
  BY <1>1 DEF ToSet
<1>3. \/ pick.kind # "namespace"
      \/ \E t \in ToSet(tools) : t.kind = "namespace" /\ t.name = pick.name /\ t.children # <<>>
  BY <1>1
<1> HIDE DEF pick
<1>4. Picked(ToSet(tools), pick) # {}
  <2>1. CASE pick.kind # "namespace"
    BY <2>1 DEF Picked
  <2>2. CASE pick.kind = "namespace"
    <3>1. PICK t \in ToSet(tools) : t.kind = "namespace" /\ t.name = pick.name /\ t.children # <<>>
      BY <1>3, <2>2
    <3>2. t \in AnyTool
      BY DEF ToSet
    <3>3. t.name \in Seq(STRING) /\ t.children \in Seq(Seq(STRING))
      BY <3>2 DEF AnyTool
    <3>4. 1 \in DOMAIN t.children /\ t.children[1] \in Seq(STRING)
      BY <3>1, <3>3
    <3>5. FlatName(t.name, t.children[1]) \in Seq(STRING) /\ t.children[1] \in ToSet(t.children)
      BY <3>3, <3>4 DEF FlatName, ToSet
    <3>6. FlatName(t.name, t.children[1]) \in Callables({u \in ToSet(tools) : u.kind = "namespace" /\ u.name = pick.name})
      BY <3>1, <3>5 DEF Callables
    <3> QED
      BY <2>2, <3>6 DEF Picked
  <2> QED
    BY <2>1, <2>2
<1> HIDE DEF picks
<1>5. picks # <<>>
  BY DEF picks
<1>6. Choosable(ToSet(tools), choice) = UNION {Picked(ToSet(tools), p) : p \in ToSet(picks)}
  BY <1>5 DEF Choosable, picks
<1> QED
  BY <1>2, <1>4, <1>6

\* responses_tool_choice_to_openai_tool_choice keeps what the choice asks, but
\* for a namespace that is not one function.
LEMMA ChoiceFromResponses ==
    ASSUME NEW tools \in Seq(AnyTool), NEW choice, choice.picks \in Seq(Picks),
           choice = [type |-> choice.type, mode |-> choice.mode, picks |-> choice.picks],
           IsChoice("responses", choice, tools), choice.type # "hosted",
           NEW any, Callables({t \in any : t.kind # "hosted"}) = Callables({t \in ToSet(tools) : t.kind # "hosted"}),
           NEW theirs
    PROVE  LET choices == ChoiceOfResponses(choice, NormalizedTools(tools))
               made == choices[1]
           IN  \/ choices = Nothing /\ choice.type = "namespace"
               \/ /\ choices # Nothing
                  /\ made.picks \in Seq(Picks) /\ IsChoice("chat", made, theirs)
                  /\ \A i \in DOMAIN made.picks : made.picks[i].kind = "function"
                  /\ ModeOf(made) = ModeOf(choice) /\ Choosable(any, made) = Choosable(ToSet(tools), choice)
<1> DEFINE normal == NormalizedTools(tools)
           choices == ChoiceOfResponses(choice, normal)
           Fine(made) == /\ made.picks \in Seq(Picks) /\ IsChoice("chat", made, theirs)
                         /\ \A i \in DOMAIN made.picks : made.picks[i].kind = "function"
                         /\ ModeOf(made) = ModeOf(choice) /\ Choosable(any, made) = Choosable(ToSet(tools), choice)
<1>0. SUFFICES (choices = Nothing /\ choice.type = "namespace") \/ \E made : choices = <<made>> /\ Fine(made)
  <2>1. ASSUME NEW made, choices = <<made>>, Fine(made) PROVE choices # Nothing /\ Fine(choices[1])
    <3>1. choices # Nothing /\ choices[1] = made
      BY <2>1 DEF Nothing
    <3> HIDE DEF Fine, choices
    <3> QED
      BY <2>1, <3>1
  <2> HIDE DEF choices
  <2> QED
    BY <2>1 DEF choices
<1>1. /\ ChoosesAll["responses"] = {"auto", "none", "required", "hosted"}
      /\ ChoosesOne["responses"] = {"function", "custom", "namespace"}
      /\ ChoosesAll["chat"] = {"auto", "none", "required"}
  BY DEF ChoosesAll, ChoosesOne
<1>2. \/ choice.type \in {"auto", "none", "required"} /\ choice.picks = <<>>
      \/ choice.type \in {"function", "custom"} /\ Len(choice.picks) = 1 /\ choice.picks[1].kind = choice.type
      \/ choice.type = "namespace" /\ Len(choice.picks) = 1 /\ choice.picks[1].kind = "namespace"
      \/ /\ choice.type = "allowed_tools" /\ choice.mode \in {"auto", "required"} /\ choice.picks # <<>>
         /\ \A i \in DOMAIN choice.picks :
                \/ choice.picks[i].kind # "namespace"
                \/ \E t \in ToSet(tools) : t.kind = "namespace" /\ t.name = choice.picks[i].name /\ t.children # <<>>
  <2>1. choice.type \in ChoosesOne["responses"] => choice.type # "tool"
    BY <1>1
  <2> QED
    BY <1>1, <2>1 DEF IsChoice
<1>3. normal \in Seq(AnyTool) /\ Choosable(ToSet(normal), choice) = Choosable(ToSet(tools), choice)
  BY NormalizedHas, NormalChoosable
<1> HIDE DEF normal
<1>4. CASE choice.type \in {"auto", "none", "required"}
  <2>1. choices = <<choice>> /\ choice.picks = <<>>
    BY <1>2, <1>4 DEF ChoiceOfResponses
  <2>2. IsChoice("chat", choice, theirs)
    BY <1>1, <1>4, <2>1 DEF IsChoice
  <2>3. Choosable(any, choice) = Choosable(ToSet(tools), choice)
    BY <2>1 DEF Choosable
  <2> HIDE DEF choices
  <2>4. Fine(choice)
    BY <2>1, <2>2, <2>3
  <2> HIDE DEF Fine
  <2> QED
    BY <2>1, <2>4
<1>5. ASSUME choice.type \in {"function", "custom", "namespace"}
      PROVE  ModeOf(choice) = "required"
  BY <1>5 DEF ModeOf
<1>6. CASE choice.type \in {"function", "custom"}
  <2> DEFINE name == choice.picks[1].name
             made == Forced("function", name)
  <2>1. choices = <<made>> /\ Len(choice.picks) = 1 /\ choice.picks[1].kind # "namespace"
    BY <1>2, <1>6 DEF ChoiceOfResponses
  <2>2. choice.picks[1] \in Picks
    BY <2>1
  <2>3. name \in Seq(STRING)
    BY <2>2 DEF Picks
  <2>4. Choosable(ToSet(tools), choice) = {name}
    BY <2>1, OneIsChoosable DEF Picked
  <2> HIDE DEF name, choices
  <2>5. Fine(made)
    BY <1>5, <1>6, <2>3, <2>4, ForcedAsks
  <2> HIDE DEF Fine, made
  <2> QED
    BY <2>1, <2>5
<1>7. CASE choice.type = "namespace"
  <2> DEFINE name == choice.picks[1].name
             flat == FlatChildren(normal, name)
             made == Forced("function", flat[1])
  <2>1. choices = (IF Len(flat) = 1 THEN <<made>> ELSE Nothing) /\ Len(choice.picks) = 1 /\ choice.picks[1].kind = "namespace"
    BY <1>2, <1>7 DEF ChoiceOfResponses
  <2>2. flat \in Seq(Seq(STRING)) /\ ToSet(flat) = Callables({t \in ToSet(normal) : t.kind = "namespace" /\ t.name = name})
    BY <1>3, FlatChildrenHas
  <2>3. Choosable(ToSet(normal), choice) = ToSet(flat)
    BY <2>1, <2>2, OneIsChoosable DEF Picked
  <2> HIDE DEF name, flat, choices
  <2>4. CASE Len(flat) # 1
    BY <1>7, <2>1, <2>4
  <2>5. CASE Len(flat) = 1
    <3>1. flat[1] \in Seq(STRING) /\ ToSet(flat) = {flat[1]}
      <4>1. DOMAIN flat = 1..1 /\ flat[1] \in Seq(STRING)
        <5>1. flat \in Seq(Seq(STRING))
          BY <2>2
        <5>2. DOMAIN flat = 1..Len(flat) /\ \A i \in 1..Len(flat) : flat[i] \in Seq(STRING)
          BY <5>1
        <5> QED
          BY <2>5, <5>2
      <4> QED
        BY <4>1 DEF ToSet
    <3>2. Fine(made)
      <4>1. Choosable(ToSet(tools), choice) = {flat[1]} /\ ModeOf(choice) = "required"
        BY <1>3, <1>5, <1>7, <2>3, <3>1
      <4>2. /\ made.picks \in Seq(Picks) /\ IsChoice("chat", made, theirs)
            /\ \A i \in DOMAIN made.picks : made.picks[i].kind = "function"
            /\ ModeOf(made) = "required" /\ Choosable(any, made) = {flat[1]}
        BY <3>1, ForcedAsks
      <4> HIDE DEF made
      <4> QED
        BY <4>1, <4>2
    <3> HIDE DEF Fine, made
    <3> QED
      BY <2>1, <2>5, <3>2
  <2> QED
    BY <2>4, <2>5
<1>8. CASE choice.type = "allowed_tools"
  <2> DEFINE joined == FlattenSeq(PicksOf(choice, normal))
             made == [type |-> "allowed_tools", mode |-> choice.mode, picks |-> joined]
  <2>1. /\ choice.mode \in {"auto", "required"} /\ choice.picks # <<>>
        /\ \A i \in DOMAIN choice.picks :
                \/ choice.picks[i].kind # "namespace"
                \/ \E t \in ToSet(tools) : t.kind = "namespace" /\ t.name = choice.picks[i].name /\ t.children # <<>>
    BY <1>2, <1>8
  <2>2. choices = <<made>>
    <3>1. choices = <<[choice EXCEPT !.picks = joined]>>
      BY <1>8 DEF ChoiceOfResponses, PicksOf
    <3> HIDE DEF joined, choices
    <3> QED
      BY <1>8, <3>1
  <2>3. joined \in Seq(FunctionPicks) /\ {p.name : p \in ToSet(joined)} = Choosable(ToSet(normal), choice)
    BY <1>3, <2>1, AllowedBecome
  <2>4. Choosable(ToSet(tools), choice) # {}
    BY <2>1, AllowedAreSome
  <2> HIDE DEF joined, choices
  <2>5. joined # <<>>
    BY <1>3, <2>3, <2>4 DEF ToSet
  <2>6. joined \in Seq(Picks) /\ \A i \in DOMAIN joined : joined[i].kind = "function"
    <3>1. FunctionPicks \subseteq Picks /\ \A p \in FunctionPicks : p.kind = "function"
      BY DEF FunctionPicks, Picks, ToolKinds
    <3>2. \A i \in 1..Len(joined) : joined[i] \in FunctionPicks
      BY <2>3
    <3>3. DOMAIN joined = 1..Len(joined)
      BY <2>3
    <3>4. \A i \in 1..Len(joined) : joined[i] \in Picks /\ joined[i].kind = "function"
      BY <3>1, <3>2
    <3>5. joined \in Seq(Picks)
      BY <2>3, <3>4
    <3> QED
      BY <3>3, <3>4, <3>5
  <2>7. made.type = "allowed_tools" /\ made.mode = choice.mode /\ made.picks = joined
    OBVIOUS
  <2> HIDE DEF made
  <2>8. IsChoice("chat", made, theirs)
    BY <2>1, <2>5, <2>6, <2>7 DEF IsChoice
  <2>9. ModeOf(made) = ModeOf(choice)
    BY <1>8, <2>7 DEF ModeOf
  <2>10. Choosable(any, made) = Choosable(ToSet(tools), choice)
    <3>1. Choosable(any, made) = ToSet(PickNames(made))
      BY <2>5, <2>6, <2>7, NamedAreChoosable
    <3>2. ToSet(PickNames(made)) = {p.name : p \in ToSet(joined)}
      <4>1. ToSet(PickNames(made)) = {joined[i].name : i \in DOMAIN joined}
        BY <2>7 DEF PickNames, ToSet
      <4>2. ToSet(joined) = {joined[i] : i \in DOMAIN joined}
        BY DEF ToSet
      <4>3. ASSUME NEW x PROVE x \in ToSet(PickNames(made)) <=> x \in {p.name : p \in ToSet(joined)}
        BY <4>1, <4>2
      <4> QED
        BY <4>3
    <3> QED
      BY <1>3, <2>3, <3>1, <3>2
  <2>11. Fine(made)
    BY <2>6, <2>7, <2>8, <2>9, <2>10
  <2> HIDE DEF Fine
  <2> QED
    BY <2>2, <2>11
<1> QED
  BY <1>2, <1>4, <1>6, <1>7, <1>8

\* A request without a choice leaves it to the model.
LEMMA WithoutChoice ==
    ASSUME NEW b
    PROVE  ToolsOf(Without(b, {"tool_choice"})) = ToolsOf(b) /\ ChoiceOf(Without(b, {"tool_choice"})) = Plain("auto")
<1> DEFINE made == Without(b, {"tool_choice"})
<1>1. Agree(made, b, "tools")
  BY WithoutAgrees
<1>2. "tool_choice" \notin DOMAIN made
  BY DEF Without, Restrict
<1> HIDE DEF made
<1>3. ToolsOf(made) = ToolsOf(b)
  BY <1>1, AgreeValue DEF ToolsOf
<1>4. ChoiceOf(made) = Plain("auto")
  BY <1>2 DEF ChoiceOf, Value, Has
<1> QED
  BY <1>3, <1>4 DEF made

\* responses_to_messages, tools and choice alone
LEMMA ChatOfResponsesTools ==
    ASSUME NEW b, NEW target, ChatOfResponses(b, target) # Nothing
    PROVE  LET made == ChatOfResponses(b, target)[1]
               tools == NormalizedTools(ToolsOf(b))
               names == FunctionNames(tools)
               choices == IF Has(b, "tool_choice") THEN ChoiceOfResponses(b["tool_choice"], tools) ELSE Nothing
           IN  /\ ToolsOf(made) = IF names # <<>> THEN FunctionsNamed(names) ELSE <<>>
               /\ Has(made, "tool_choice") <=> choices # Nothing
               /\ choices # Nothing => made["tool_choice"] = choices[1]
<1> DEFINE tools == NormalizedTools(ToolsOf(b))
           names == FunctionNames(tools)
           functions == FunctionsNamed(names)
           choices == IF Has(b, "tool_choice") THEN ChoiceOfResponses(b["tool_choice"], tools) ELSE Nothing
           logprobs == /\ "top_logprobs" \in SharedControls(target)
                       /\ Among(b, {"include.message.output_text.logprobs", "top_logprobs"}) # {}
           plain == Carried(b, FromResponses(target))
           one == With(plain, "logprobs", logprobs, TRUE)
           two == With(one, "tools", names # <<>>, functions)
           three == With(two, "tool_choice", choices # Nothing, choices[1])
           made == ChatOfResponses(b, target)[1]
<1>1. ChatOfResponses(b, target) =
        IF ~PublicNamesAllowed(ToolsOf(b)) \/ CustomConflict(tools) \/ NamespaceConflict(tools) THEN Nothing ELSE <<three>>
  BY DEF ChatOfResponses, FromResponses, FunctionsNamed
<1>2. made = three
  <2> HIDE DEF three
  <2> QED
    BY <1>1
<1>3. "tools" \notin DOMAIN plain /\ "tool_choice" \notin DOMAIN plain
  <2>1. \A q \in FromResponses(target) : q[2] \notin {"tools", "tool_choice"}
    BY DEF FromResponses, ResponsesNames, SharedNames, Same
  <2> HIDE DEF FromResponses
  <2> QED
    BY <2>1, NotCarried
<1> HIDE DEF plain, logprobs, functions, choices, names, made
<1>4. Agree(one, plain, "tools") /\ Agree(one, plain, "tool_choice")
  BY WithAgrees
<1>5. "tools" \notin DOMAIN one /\ "tool_choice" \notin DOMAIN one
  BY <1>3, <1>4 DEF Agree
<1> HIDE DEF one
<1>6. ToolsOf(two) = IF names # <<>> THEN functions ELSE <<>>
  BY <1>5 DEF ToolsOf, Value, Has, With, Set
<1>7. "tool_choice" \notin DOMAIN two
  BY <1>5, WithAgrees DEF Agree
<1> HIDE DEF two
<1>8. (Has(three, "tool_choice") <=> choices # Nothing) /\ (choices # Nothing => three["tool_choice"] = choices[1])
  BY <1>7 DEF Has, With, Set
<1>9. ToolsOf(three) = ToolsOf(two)
  <2>1. Agree(three, two, "tools")
    BY WithAgrees
  <2> HIDE DEF three
  <2> QED
    BY <2>1, AgreeValue DEF ToolsOf
<1> HIDE DEF three
<1> QED
  BY <1>2, <1>6, <1>8, <1>9 DEF made, functions, choices, names

\* responses_to_messages asks what the Responses request does, but for a
\* namespace it leaves to the model.
LEMMA ResponsesPivots ==
    ASSUME Progress, stage = "sent", client = "responses", client # Upstream
    PROVE  /\ PlainForm(Pivoted[1])
           /\ \/ Asked(Pivoted[1]) = Asked(body)
              \/ ChoiceOf(body).type = "namespace" /\ Asked(Pivoted[1]) = Asked(Without(body, {"tool_choice"}))
           /\ OneByOne(client, body) => IsSerial(Pivoted[1])
<1> DEFINE all == ToolsOf(body)
           tools == NormalizedTools(all)
           names == FunctionNames(tools)
           functions == FunctionsNamed(names)
           chosen == Has(body, "tool_choice")
           choice == body["tool_choice"]
           choices == IF chosen THEN ChoiceOfResponses(choice, tools) ELSE Nothing
           made == Pivoted[1]
           theirs == ToolsOf(made)
<1>1. body \in Bodies["responses"] /\ "responses" \in Formats /\ Pivoted # Nothing
  BY SentFacts
<1>2. Pivoted = ChatOfResponses(body, Upstream)
  BY DEF Pivoted
<1>3. /\ all \in ToolsOfKinds(ToolKinds["responses"])
      /\ chosen => /\ choice = [type |-> choice.type, mode |-> choice.mode, picks |-> choice.picks]
                   /\ choice.picks \in Seq(Picks) /\ IsChoice("responses", choice, all)
  BY <1>1, ToolsAssumption
<1>4. all \in Seq(AnyTool)
  <2>1. ToolKinds["responses"] \in SUBSET ToolKinds["responses"]
    OBVIOUS
  <2> HIDE DEF all
  <2> QED
    BY <1>3, <2>1, ToolsAreTools
<1>5. chosen => choice.type # "hosted"
  BY SentFacts DEF Admitted, Translatable, ChoicePortable
<1>6. /\ theirs = IF names # <<>> THEN functions ELSE <<>>
      /\ Has(made, "tool_choice") <=> choices # Nothing
      /\ choices # Nothing => made["tool_choice"] = choices[1]
  BY <1>1, <1>2, ChatOfResponsesTools
<1>7. tools \in Seq(AnyTool) /\ ToSet(tools) = {t \in ToSet(all) : t.kind # "hosted"}
  BY <1>4, NormalizedHas
<1> HIDE DEF all, tools
<1>8. names \in Seq(Seq(STRING)) /\ ToSet(names) = Callables({t \in ToSet(all) : t.kind # "hosted"})
  BY <1>7, FunctionNamesHas
<1> HIDE DEF names
<1>9. /\ functions \in Seq(AnyTool) /\ \A t \in ToSet(functions) : t.kind = "function" /\ t.name \in Seq(STRING)
      /\ {t.name : t \in ToSet(functions)} = ToSet(names) /\ (names = <<>> => functions = <<>>)
  BY <1>8, FlatTools
<1> HIDE DEF functions, theirs, choices, choice, made
<1>10. theirs = functions
  BY <1>6, <1>9
<1>11. Callables({t \in ToSet(theirs) : t.kind # "hosted"}) = Callables({t \in ToSet(all) : t.kind # "hosted"})
  BY <1>8, <1>9, <1>10, FunctionsAreCallables
<1>12. chosen =>
        \/ choices = Nothing /\ choice.type = "namespace"
        \/ /\ choices # Nothing
           /\ choices[1].picks \in Seq(Picks) /\ IsChoice("chat", choices[1], theirs)
           /\ \A i \in DOMAIN choices[1].picks : choices[1].picks[i].kind = "function"
           /\ ModeOf(choices[1]) = ModeOf(choice) /\ Choosable(ToSet(theirs), choices[1]) = Choosable(ToSet(all), choice)
  BY <1>3, <1>4, <1>5, <1>11, ChoiceFromResponses DEF choices, tools
<1>13. ~chosen => choices = Nothing
  BY DEF choices
<1>14. theirs \in Seq(AnyTool) /\ theirs = ToolsOf(made) /\ all = ToolsOf(body)
  BY <1>9, <1>10 DEF theirs, all
<1>15. PlainForm(made)
  BY <1>6, <1>9, <1>10, <1>12, <1>13, <1>14 DEF PlainForm, ChatForm
<1>16. Asked(made) = AskedOf(ModeOf(ChoiceOf(made)), Choosable(ToSet(theirs), ChoiceOf(made)))
  BY <1>14, AskedIs
<1>17. Asked(body) = AskedOf(ModeOf(ChoiceOf(body)), Choosable(ToSet(all), ChoiceOf(body)))
  BY <1>4, <1>14, AskedIs
<1>18. Choosable(ToSet(theirs), Plain("auto")) = Choosable(ToSet(all), Plain("auto"))
  BY <1>11, PlainParts DEF Choosable
<1>19. chosen => ChoiceOf(body) = choice
  BY DEF ChoiceOf, Value, choice
<1>20. \/ Asked(made) = Asked(body)
       \/ ChoiceOf(body).type = "namespace" /\ Asked(made) = Asked(Without(body, {"tool_choice"}))
  <2>1. CASE choices # Nothing
    <3>1. chosen
      BY <1>13, <2>1
    <3>2. ChoiceOf(made) = choices[1]
      BY <1>6, <2>1 DEF ChoiceOf, Value
    <3> HIDE DEF chosen
    <3> QED
      BY <1>12, <1>16, <1>17, <1>19, <2>1, <3>1, <3>2
  <2>2. CASE choices = Nothing
    <3>1. ChoiceOf(made) = Plain("auto")
      BY <1>6, <2>2 DEF ChoiceOf, Value
    <3>2. CASE ~chosen
      <4>1. ChoiceOf(body) = Plain("auto")
        BY <3>2 DEF ChoiceOf, Value
      <4> QED
        BY <1>16, <1>17, <1>18, <3>1, <4>1
    <3>3. CASE chosen
      <4> DEFINE bare == Without(body, {"tool_choice"})
      <4>1. ToolsOf(bare) = all /\ ChoiceOf(bare) = Plain("auto")
        BY <1>14, WithoutChoice
      <4> HIDE DEF bare
      <4>2. Asked(bare) = AskedOf(ModeOf(Plain("auto")), Choosable(ToSet(all), Plain("auto")))
        BY <1>4, <4>1, AskedIs
      <4>3. Asked(made) = Asked(bare)
        BY <1>16, <1>18, <3>1, <4>2
      <4>4. ChoiceOf(body).type = "namespace"
        BY <1>12, <1>19, <2>2, <3>3
      <4> QED
        BY <4>3, <4>4 DEF bare
    <3> QED
      BY <3>2, <3>3
  <2> QED
    BY <2>1, <2>2
<1>21. ASSUME OneByOne(client, body) PROVE IsSerial(made)
  <2>1. "parallel_tool_calls" \in DOMAIN body /\ body["parallel_tool_calls"] = FALSE
    <3>1. "parallel_tool_calls" \in DOMAIN body /\ ~body["parallel_tool_calls"]
      BY <1>21 DEF OneByOne, Value, Has
    <3>2. body["parallel_tool_calls"] \in BOOLEAN
      BY <1>1, <3>1, ValuesAssumption DEF Among
    <3> QED
      BY <3>1, <3>2
  <2>2. Agree(made, Carried(body, FromResponses(Upstream)), "parallel_tool_calls")
    BY <1>1, <1>2, ChatOfResponsesCarries DEF made
  <2>3. Agree(Carried(body, FromResponses(Upstream)), body, "parallel_tool_calls")
    <3>1. <<"parallel_tool_calls", "parallel_tool_calls">> \in FromResponses(Upstream)
      BY DEF FromResponses, Same
    <3>2. \A q \in FromResponses(Upstream) : q[2] = "parallel_tool_calls" => q[1] = "parallel_tool_calls"
      BY DEF FromResponses, ResponsesNames, SharedNames, Same
    <3> HIDE DEF FromResponses
    <3> QED
      BY <3>1, <3>2, CarriedField DEF Agree
  <2>4. Agree(made, body, "parallel_tool_calls")
    BY <2>2, <2>3, AgreeTwice
  <2> QED
    BY <2>1, <2>4 DEF IsSerial, Value, Has, Agree
<1> QED
  BY <1>15, <1>20, <1>21 DEF made

-----------------------------------------------------------------------------
(* The choice among tools, all the way *)

\* What the pivot asks is what the client does, but for a namespace, and it asks
\* for calls one by one if the client does.
LEMMA PivotAsks ==
    ASSUME Progress, stage = "sent", client # Upstream
    PROVE  /\ Upstream = "responses" => ChatForm(Pivoted[1])
           /\ Upstream = "anthropic" => PlainForm(Pivoted[1])
           /\ \/ Asked(Pivoted[1]) = Asked(body)
              \/ ChoiceOf(body).type = "namespace" /\ Asked(Pivoted[1]) = Asked(Without(body, {"tool_choice"}))
           /\ OneByOne(client, body) => IsSerial(Pivoted[1])
<1>1. client \in Formats /\ body \in Bodies[client]
  BY SentFacts
<1>2. CASE client = "chat"
  <2>1. Pivoted[1] = body
    BY <1>2 DEF Pivoted
  <2>2. ASSUME OneByOne(client, body) PROVE IsSerial(body)
    <3>1. "parallel_tool_calls" \in DOMAIN body /\ ~body["parallel_tool_calls"]
      BY <1>2, <2>2 DEF OneByOne, Value, Has
    <3>2. body["parallel_tool_calls"] \in BOOLEAN
      BY <1>1, <3>1, ValuesAssumption DEF Among
    <3> QED
      BY <3>1, <3>2 DEF IsSerial, Value, Has
  <2>3. ChatForm(body) /\ (Upstream = "anthropic" => PlainForm(body))
    BY <1>2, ChatPivots
  <2> QED
    BY <2>1, <2>2, <2>3
<1>3. CASE client = "anthropic"
  BY <1>3, ClaudePivots DEF PlainForm
<1>4. CASE client = "responses"
  BY <1>4, ResponsesPivots DEF PlainForm
<1> QED
  BY <1>1, <1>2, <1>3, <1>4 DEF Formats

\* What the translation from Chat asks is what Chat does.
LEMMA MadeAsks ==
    ASSUME Progress, stage = "sent", client # Upstream
    PROVE  /\ Asked(Made[1]) = Asked(Chat)
           /\ IsSerial(Chat) /\ Asked(Made[1]) # NoTools => OneByOne(Upstream, Made[1])
<1>1. Upstream \in Formats /\ Made # Nothing
  BY SentFacts
<1>2. /\ Upstream = "responses" => ChatForm(Chat)
      /\ Upstream = "anthropic" => PlainForm(Chat)
  BY PivotAsks, ChatKeepsForm
<1>3. CASE Upstream = "chat"
  <2>1. Made[1] = Chat
    BY <1>3 DEF Made
  <2> QED
    BY <1>3, <2>1 DEF OneByOne, IsSerial
<1>4. CASE Upstream = "responses"
  <2>1. Made = ResponsesOfChat(Chat)
    BY <1>4 DEF Made
  <2>2. Asked(Made[1]) = Asked(Chat) /\ Agree(Made[1], Chat, "parallel_tool_calls")
    BY <1>1, <1>2, <1>4, <2>1, ToResponsesAsks
  <2>3. IsSerial(Chat) => OneByOne(Upstream, Made[1])
    BY <1>4, <2>2 DEF IsSerial, OneByOne, Value, Has, Agree
  <2> QED
    BY <2>2, <2>3
<1>5. CASE Upstream = "anthropic"
  <2>1. Made = ClaudeOfChat(Chat, to.rejects)
    BY <1>5 DEF Made
  <2> QED
    BY <1>1, <1>2, <1>5, <2>1, ToClaudeAsks
<1> QED
  BY <1>1, <1>3, <1>4, <1>5 DEF Formats

LEMMA ChoiceHolds ==
    ASSUME Progress, stage = "sent"
    PROVE  /\ \/ Asked(sent) = Asked(body)
              \/ /\ client # Upstream /\ ChoiceOf(body).type = "namespace"
                 /\ Asked(sent) = Asked(Without(body, {"tool_choice"}))
           /\ OneByOne(client, body) /\ Asked(sent) # NoTools => OneByOne(Upstream, sent)
<1>1. CASE client = Upstream
  <2>1. /\ ToolsOf(sent) = ToolsOf(body) /\ ChoiceOf(sent) = ChoiceOf(body)
        /\ OneByOne(Upstream, body) => OneByOne(Upstream, sent)
    BY <1>1, SentAsks
  <2> QED
    BY <1>1, <2>1, AskedAlike
<1>2. CASE client # Upstream
  <2>1. /\ ToolsOf(sent) = ToolsOf(Made[1]) /\ ChoiceOf(sent) = ChoiceOf(Made[1])
        /\ OneByOne(Upstream, Made[1]) => OneByOne(Upstream, sent)
    BY <1>2, SentAsks
  <2>2. Asked(sent) = Asked(Made[1])
    BY <2>1, AskedAlike
  <2>3. Asked(sent) = Asked(Pivoted[1])
    BY <1>2, <2>2, MadeAsks, ChatKeepsForm
  <2>4. ASSUME OneByOne(client, body), Asked(sent) # NoTools PROVE OneByOne(Upstream, sent)
    BY <1>2, <2>1, <2>2, <2>4, PivotAsks, ChatKeepsForm, MadeAsks
  <2> QED
    BY <1>2, <2>3, <2>4, PivotAsks
<1> QED
  BY <1>1, <1>2

\* Of every request that is sent: through the renamed and flattened tools of
\* responses_to_messages and the choices of the translations to Chat and from it
\* on, the model may call what the client let it call, and must if it had to; and
\* calls the client wanted one by one come one by one.
THEOREM ChoiceIsKept == Spec => []ChoiceKeepsItsMeaning
<1>1. Progress => ChoiceKeepsItsMeaning
  BY ChoiceHolds DEF ChoiceKeepsItsMeaning, ChoiceOf
<1> QED
  BY <1>1, ProgressHolds, PTL
=============================================================================
