------------------------------- MODULE Dialogue -------------------------------
(***************************************************************************)
(* A client and an upstream of different protocols in a conversation with  *)
(* tools. The client keeps the history in its own protocol, exactly as it  *)
(* was sent to it, and sends all of it with every request                  *)
(* (translate_request_with_policy); the answer is translated back          *)
(* (translate_response_with_context). What was really said is kept in log. *)
(***************************************************************************)
EXTENDS HistoryAssessment

CONSTANTS
    Pairs,       \* the <<client, upstream>> formats to consider
    Toolboxes,   \* the lists of tools a client of a format may declare
    MaxTurns,    \* bound on the answers of the upstream
    MaxCalls,    \* bound on the calls of one answer
    MaxSteers,   \* bound on the messages of a user who does not wait for the tools
    MaxLength,   \* bound on what is said
    MaxCutLength,\* the same, where an answer was cut off or the upstream changed
    MaxRestarts, \* bound on the times the proxy is started again
    MaxChanges,  \* bound on the times the client goes on with a model of another upstream
    Truncating,  \* the clients for whom a stream may be cut off within a call
    ServerTools, \* for each client format, the names of the upstream's own tools
    Sealers,     \* the names of the tools, and <<"agent_message">>, that may say what only the service can read
    Edits        \* the lists of edits an Anthropic client may ask for with a request

Formats == {"chat", "anthropic", "responses"}

ASSUME DialogueAssumption ==
    /\ Pairs \subseteq {<<c, u>> \in Formats \X Formats : c # u}
    /\ {MaxTurns, MaxCalls, MaxSteers, MaxLength, MaxCutLength, MaxRestarts, MaxChanges} \subseteq Nat
    /\ Truncating \subseteq {"chat", "responses"}

VARIABLES
    pair,     \* the formats of the client and of the upstream
    tools,    \* the tools the client declares
    history,  \* the conversation as the client keeps it
    seen,     \* the last request the upstream got
    edits,    \* the context management that request asked for
    changes,  \* how often the client changed to another upstream
    turn,     \* who is to speak: "client" or "upstream"; "refused" by the proxy
    log       \* what was said, by whom

vars == <<pair, tools, history, seen, edits, changes, turn, log, key>>

Client == pair[1]
Upstream == pair[2]

By(who) == SelectSeq(log, LAMBDA event : event.who = who)
CallsOf(events) == FlattenSeq([i \in DOMAIN events |-> events[i].calls])
Calls == CallsOf(log)
Answered == {log[i].id : i \in {j \in DOMAIN log : log[j].who = "tool"}}

\* Calls the client still has to answer: not those of the upstream's own tools.
Open == {call \in ToSet(Calls) : call.id \notin Answered /\ ~call.server}

\* What is said is numbered, so that no two things said are the same.
Fresh == IF log = <<>> THEN 1 ELSE Last(log).number + 1
Said(who, words) ==
    [number |-> Fresh, who |-> who, words |-> words, calls |-> <<>>, thought |-> <<>>, id |-> "", key |-> key, cut |-> FALSE]

Bound == IF changes > 0 \/ \E i \in DOMAIN log : log[i].cut THEN MaxCutLength ELSE MaxLength

Init ==
    /\ pair \in Pairs
    /\ tools \in Toolboxes[pair[1]]
    /\ history = <<>> /\ seen = [system |-> <<>>, messages |-> <<>>]
    /\ edits = <<>> /\ changes = 0 /\ turn = "client" /\ log = <<>> /\ key = 0

----------------------------------------------------------------------------
(* translate_request_with_policy: by way of Chat *)

Ctx == IF Client = "responses" THEN BridgeContext(NormalizedTools(tools)) ELSE NoBridge

\* client_to_openai_completion
ToChat(client, upstream, messages) ==
    CASE client = "chat" -> Done([messages |-> messages, tools |-> tools])
      [] client = "responses" -> ResponsesToMessages([system |-> <<>>, items |-> messages, tools |-> tools], upstream)
      [] client = "anthropic" ->
            ClaudeToOpenai([system |-> <<>>, messages |-> messages, tools |-> tools], upstream = "responses", NoBridge)

\* openai_completion_to_upstream, and the repairs for the upstream's format
FromChat(request, upstream) ==
    CASE upstream = "chat" -> Done([system |-> <<>>, messages |-> Downgraded(request.messages), tools |-> request.tools])
      [] upstream = "anthropic" -> OpenaiToClaude(request)
      [] upstream = "responses" ->
            LET made == MessagesToResponses(request, Ctx)
            IN  IF made.ok THEN Done([system |-> <<>>, messages |-> Hoisted(made.body).items, tools |-> made.body.tools])
                ELSE Failed

\* apply_anthropic_context_management_request_edits comes first, one edit after the other
Edited(messages, asked) ==
    FoldLeft(LAMBDA list, edit : IF edit.type = "clear_thinking" THEN ClearThinking(list, edit.keep)
                                 ELSE ClearToolUses(list, edit.keep, edit.inputs, edit.excluded), messages, asked)

\* TranslationDecision::Reject, or not
Accepted(asked) ==
    CASE Client = "chat" -> ChatHistoryAccepted(history, tools, Upstream)
      [] Client = "responses" -> ResponsesHistoryAccepted(history, tools, Upstream)
      [] Client = "anthropic" -> AnthropicHistoryAccepted(history, asked)

\* What cannot be carried over faithfully is refused before it is translated.
TranslatedRequest(asked) ==
    LET chat == ToChat(Client, Upstream, Edited(history, asked))
    IN  IF Accepted(asked) /\ chat.ok THEN FromChat(chat.body, Upstream) ELSE Failed

\* Everyone's words are heard and every call is answered: the client asks.
Ask ==
    /\ turn = "client" /\ log # <<>> /\ Open = {}
    /\ Last(log).who = "model" => \E call \in ToSet(Last(log).calls) : call.server
    /\ Len(By("model")) < MaxTurns
    /\ \E asked \in IF Client = "anthropic" THEN Edits ELSE {<<>>} :
        LET request == TranslatedRequest(asked) IN
        /\ edits' = asked
        /\ IF request.ok THEN turn' = "upstream" /\ seen' = request.body
                         ELSE turn' = "refused" /\ UNCHANGED seen
    /\ UNCHANGED <<pair, tools, history, changes, log, key>>

----------------------------------------------------------------------------
(* The client *)

MessageOf(role, content) ==
    CASE Client = "chat" -> Message(role, content)
      [] Client = "anthropic" -> [role |-> role, blocks |-> content]
      [] Client = "responses" -> MessageItem(role, content)

\* A Responses client may let its user speak before the tools have answered.
Speak ==
    LET words == <<Text(Fresh)>> IN
    /\ turn = "client" /\ Fresh <= Bound
    /\ \/ Open = {} /\ (log # <<>> => Last(log).who # "user")
       \/ Client = "responses" /\ Open # {} /\ Len(SelectSeq(log, LAMBDA e : e.who = "user")) < MaxSteers
    /\ history' = Append(history, MessageOf("user", words))
    /\ log' = Append(log, Said("user", words))
    /\ UNCHANGED <<pair, tools, seen, edits, changes, turn, key>>

\* The result of a call: an Anthropic client gathers them in one message.
ResultInto(call, words) ==
    CASE Client = "chat" -> Append(history, ToolMessage(call.id, words))
      [] Client = "responses" -> Append(history, OutputItem(call.custom, call.id, words))
      [] Client = "anthropic" ->
            IF Last(history).role = "user"
            THEN Front(history) \o <<[Last(history) EXCEPT !.blocks = Append(@, ToolResult(call.id, words))]>>
            ELSE Append(history, [role |-> "user", blocks |-> <<ToolResult(call.id, words)>>])

\* What an agent of a Responses service says to another, and what its tools
\* return, may hold a part that only the service can read.
Sealable(words, speaker) ==
    {words} \cup IF Client = "responses" /\ speaker \in Sealers THEN {Append(words, Thing("sealed", Fresh))} ELSE {}

Answer ==
    LET words == <<Text(Fresh)>> IN
    /\ turn = "client" /\ Fresh <= Bound
    /\ \E call \in Open : \E content \in Sealable(words, call.name) :
        /\ history' = ResultInto(call, content)
        /\ log' = Append(log, [Said("tool", words) EXCEPT !.id = call.id])
    /\ UNCHANGED <<pair, tools, seen, edits, changes, turn, key>>

\* A Responses client whose history is too long puts a summary in its place,
\* and may hand over to another agent.
Compact ==
    LET words == <<Text(Fresh)>> IN
    /\ turn = "client" /\ Client = "responses" /\ Open = {} /\ log # <<>> /\ Fresh <= Bound
    /\ Last(log).who = "model"
    /\ \E type \in {"compaction", "agent_message"} : \E content \in Sealable(words, <<type>>) :
        LET item == [type |-> type, content |-> content] IN
        /\ history' = IF type = "compaction" THEN <<item>> ELSE Append(history, item)
        /\ log' = IF type = "compaction" THEN <<Said("user", words)>> ELSE Append(log, Said("user", words))
    /\ UNCHANGED <<pair, tools, seen, edits, changes, turn, key>>

\* The client goes on with a model of another upstream, which has seen nothing so
\* far. Only a request depends on it: it is enough to look at it after an answer.
ChangeModel ==
    /\ turn = "client" /\ changes < MaxChanges
    /\ log # <<>> /\ Last(log).who = "model" /\ Len(By("model")) < MaxTurns
    /\ \E upstream \in {u \in Formats : <<Client, u>> \in Pairs} \ {Upstream} : pair' = <<Client, upstream>>
    /\ changes' = changes + 1
    /\ seen' = [system |-> <<>>, messages |-> <<>>]
    /\ UNCHANGED <<tools, history, edits, turn, log, key>>

----------------------------------------------------------------------------
(* The upstream, and translate_response_with_context *)

\* What an upstream makes of an answer in its own protocol.
AnswerOf(upstream, words, thought, calls, finish) ==
    CASE upstream = "chat" ->
            [message |-> [Message("assistant", words) EXCEPT !.calls = calls, !.reasoning = thought], finish |-> finish]
      [] upstream = "anthropic" ->
            [blocks |-> (IF thought = <<>> THEN <<>> ELSE <<Thinking(thought, TRUE)>>) \o words
                        \o [i \in DOMAIN calls |-> ToolUse(calls[i])], stop |-> StopOfFinish(finish)]
      [] upstream = "responses" ->
            [output |-> (IF thought = <<>> THEN <<>> ELSE
                            <<[ReasoningItem(thought, <<>>) EXCEPT !.sealed = Client = "anthropic"]>>)
                        \o (IF words = <<>> THEN <<>> ELSE <<MessageItem("assistant", words)>>)
                        \o [i \in DOMAIN calls |-> CallItem(calls[i])], status |-> StatusOfFinish(finish)]

TranslatedAnswer(answer) ==
    LET chat == CASE Upstream = "chat" -> Done(answer)
                  [] Upstream = "anthropic" -> ClaudeAnswerToOpenai(answer, Client = "responses", Ctx)
                  [] Upstream = "responses" -> ResponsesAnswerToOpenai(answer, Client)
    IN  IF ~chat.ok THEN Failed
        ELSE CASE Client = "chat" -> chat
               [] Client = "anthropic" -> OpenaiAnswerToClaude(chat.body)
               [] Client = "responses" -> OpenaiAnswerToResponses(chat.body, Ctx)

\* What the client adds to its history, as it came.
Kept(body) ==
    CASE Client = "chat" -> <<body.message>>
      [] Client = "anthropic" -> <<[role |-> "assistant", blocks |-> body.blocks]>>
      [] Client = "responses" -> body.output

\* A Responses client gets a call that a stream cut off with the proxy's mark, as it
\* gets the custom calls of such an answer that are whole (openai_sink.rs:214-236).
Marked(kept, cut) ==
    LET partial(call) == call.id \in cut \/ (cut # {} /\ call.kind = "custom")
        mark(call) == IF partial(call) THEN [call EXCEPT !.marker = SignedMarker(call)] ELSE call
    IN  IF Client # "responses" THEN kept
        ELSE [i \in DOMAIN kept |-> IF kept[i].type = "call" THEN CallItem(mark(kept[i].call)) ELSE kept[i]]

\* finalize_claude_tool_use_block: of an Anthropic upstream's call that was cut off
\* the client is told in words, behind the calls that are whole.
ToldInWords(kept, name) ==
    LET notice == Thing("label", name) IN
    IF Client = "chat" THEN <<[kept[1] EXCEPT !.content = Append(@, notice)]>>
    ELSE Append(kept, MessageItem("assistant", <<notice>>))

Offered == {tool.name : tool \in ToSet(seen.tools)}
Call(kind, id, name, form, server) ==
    [kind |-> kind, id |-> id, name |-> name, namespace |-> <<>>, payload |-> [form |-> form, value |-> id],
     server |-> server, sig |-> Nothing, marker |-> Nothing]
Ids == <<"a", "b", "c">>

\* The payloads a model may write: text for a custom tool, JSON for a function,
\* in a wrapper or not.
Forms(name) ==
    LET kinds == {tool.kind : tool \in {t \in ToSet(seen.tools) : t.name = name}} IN
    IF kinds = {"custom"} THEN {"text"} ELSE IF name \in Ctx.custom THEN {"wrapper", "object"} ELSE {"object"}

Reply ==
    /\ turn = "upstream" /\ Fresh <= Bound
    /\ \E words \in {<<>>, <<Text(Fresh)>>}, thought \in {<<>>, <<Fresh>>}, n \in 0..MaxCalls :
       \E names \in [1..n -> Offered \cup ServerTools[Client]], cutting \in BOOLEAN :
        LET number == Len(Calls)
            server(i) == names[i] \in ServerTools[Client]
            kind(i) == IF \E t \in ToSet(seen.tools) : t.name = names[i] /\ t.kind = "custom" THEN "custom" ELSE "function"
            untold == cutting /\ Upstream = "anthropic"
            cut == IF cutting THEN {Ids[number + n]} ELSE {}
        IN
        /\ n + number <= Len(Ids)
        /\ words \o thought # <<>> \/ n > 0
        /\ \A i \in 1..n : server(i) => Upstream = "anthropic" /\ i = n
        /\ cutting => Fresh <= MaxCutLength /\ n > 0 /\ ~server(n) /\ kind(n) = "function" /\ Client \in Truncating
        /\ \E forms \in [1..n -> {"text", "object", "wrapper", "cut"}] :
            LET written == [i \in 1..n |-> Call(kind(i), Ids[number + i], names[i], forms[i], server(i))]
                calls == IF untold THEN Front(written) ELSE written
                finish == IF cutting THEN "length" ELSE IF n > 0 /\ server(n) THEN "pause_turn"
                          ELSE IF n > 0 THEN "tool_calls" ELSE "stop"
                answer == TranslatedAnswer(AnswerOf(Upstream, words, thought, calls, finish))
            IN
            /\ \A i \in 1..n : forms[i] \in IF cutting /\ i = n THEN {"cut"} ELSE IF server(i) THEN {"object"} ELSE Forms(names[i])
            /\ IF answer.ok
               THEN LET kept == Marked(Kept(answer.body), cut) IN
                    /\ turn' = "client"
                    /\ history' = history \o IF untold THEN ToldInWords(kept, names[n]) ELSE kept
                    /\ log' = Append(log, [Said("model", words) EXCEPT
                                !.thought = thought, !.cut = cutting,
                                !.calls = [i \in DOMAIN calls |->
                                    [id |-> calls[i].id, name |-> names[i], payload |-> calls[i].payload, server |-> server(i),
                                     custom |-> names[i] \in Ctx.custom /\ forms[i] = "wrapper",
                                     marked |-> \E x \in ToSet(kept) : Client = "responses" /\ x.type = "call"
                                                    /\ x.call.id = calls[i].id /\ x.call.marker # Nothing]]])
               ELSE turn' = "refused" /\ UNCHANGED <<history, log>>
    /\ UNCHANGED <<pair, tools, seen, edits, changes, key>>

\* The calls an answer of this process made
OfThisProcess == CallsOf(SelectSeq(log, LAMBDA event : event.key = key))

\* The proxy is started again: what the process before vouched for is as good
\* as what a client makes up. Nothing else depends on the process, so there is no
\* need to restart one that has vouched for nothing.
Restart ==
    /\ turn = "client" /\ key < MaxRestarts
    /\ \E call \in ToSet(OfThisProcess) : call.server \/ call.marked
    /\ key' = key + 1
    /\ UNCHANGED <<pair, tools, history, seen, edits, changes, turn, log>>

\* The conversation is over, or it can go no further within its bounds.
Rest ==
    /\ \/ turn = "refused" \/ Fresh > Bound
       \/ turn = "client" /\ Open = {} /\ Len(By("model")) = MaxTurns
       \/ turn = "upstream" /\ Len(Calls) >= Len(Ids)
    /\ UNCHANGED vars

Next == Ask \/ Speak \/ Answer \/ Compact \/ ChangeModel \/ Reply \/ Restart \/ Rest

Spec == Init /\ [][Next]_vars

----------------------------------------------------------------------------
(* What the upstream was told *)

Words(message) ==
    CASE Upstream = "chat" -> message.refusal \o message.content
      [] Upstream = "anthropic" ->
            FlattenSeq([i \in DOMAIN message.blocks |->
                LET b == message.blocks[i] IN
                IF b.kind = "tool_result" THEN b.content ELSE IF b.kind = "text" THEN <<b>> ELSE <<>>])
      [] Upstream = "responses" -> IF message.type \in {"message", "output"} THEN message.content ELSE <<>>
CallsIn(message) ==
    CASE Upstream = "chat" -> message.calls
      [] Upstream = "anthropic" ->
            LET uses == Of(message.blocks, {"tool_use"}) IN [i \in DOMAIN uses |-> uses[i].call]
      [] Upstream = "responses" -> IF message.type = "call" THEN <<message.call>> ELSE <<>>
ResultsIn(message) ==
    CASE Upstream = "chat" -> IF message.role = "tool" THEN <<message.id>> ELSE <<>>
      [] Upstream = "anthropic" ->
            LET results == Of(message.blocks, {"tool_result"}) IN [i \in DOMAIN results |-> results[i].id]
      [] Upstream = "responses" -> IF message.type = "output" THEN <<message.id>> ELSE <<>>
Everything(Part(_)) == FlattenSeq([i \in DOMAIN seen.messages |-> Part(seen.messages[i])])

\* The calls the edits let go: of those answered, all but the last to keep.
LetGo(inputs) ==
    LET answered == SelectSeq(Calls, LAMBDA call : call.id \in Answered) IN
    UNION {{answered[i].id : i \in 1..(Len(answered) - edit.keep)} :
           edit \in {e \in ToSet(edits) : e.type = "clear_tool_uses" /\ e.inputs \in inputs}}

\* An Anthropic upstream is told in words of the calls this process marked: a Chat
\* client gets no marks, and those of the process before a restart are void.
Vouched(call) == call.marked /\ call \in ToSet(OfThisProcess)
InWords(call) == Upstream = "anthropic" /\ Vouched(call)

\* Every word of the user and of the model reaches the upstream once, in the
\* order it was said, and every word of a tool once, unless the client let it
\* go: the one pass of responses_to_messages defers, gathers and flushes,
\* openai_to_claude merges, the repairs join, the edits remove, and a call that
\* is told in words has its result told so.
WordsComeBack ==
    turn = "upstream" =>
        LET told == Shows(Everything(Words), {"text"})
            said(tool) == FlattenSeq([i \in DOMAIN log |-> IF (log[i].who = "tool") = tool THEN log[i].words ELSE <<>>])
            results == ToSet(said(TRUE))
            kept == {log[i].words[1] : i \in {j \in DOMAIN log : log[j].who = "tool" /\ log[j].id \notin LetGo(BOOLEAN)}}
        IN  /\ SelectSeq(told, LAMBDA word : word \notin results) = said(FALSE)
            /\ IsInjective(told) /\ ToSet(told) \cap results = kept

\* The upstream's own tools come back as such, or it cannot go on with them: as
\* long as the process that vouched for them lives.
ServerToolsComeBack ==
    turn = "upstream" =>
        \A call \in ToSet(Everything(CallsIn)) :
            /\ call.server => \E x \in ToSet(Calls) : x.id = call.id /\ x.server
            /\ \A x \in ToSet(OfThisProcess) : x.id = call.id /\ x.server => call.server

\* The upstream finds its own calls in the next request as it wrote them, under
\* the names it was offered, whatever they were turned into for the client; a
\* call with a mark of this process is told in words instead where the upstream
\* speaks Messages, and one the client let go with its inputs is gone. Its own tools come back as such (ServerToolsComeBack).
CallsComeBack ==
    /\ ServerToolsComeBack
    /\ turn = "upstream" =>
        LET told == Everything(CallsIn)
            view(call) == [id |-> call.id, name |-> call.name, payload |-> call.payload]
            whole == SelectSeq(Calls, LAMBDA call : ~InWords(call) /\ call.id \notin LetGo({TRUE}))
        IN  [i \in DOMAIN told |-> view(told[i])] = [i \in DOMAIN whole |-> view(whole[i])]

\* A call that is not cut off is overtaken where the result of another call of the
\* same answer, one that an Anthropic upstream is told in words, was given before
\* its own: responses_to_messages makes a user's message of that result at once.
Overtaken ==
    LET at(call) == CHOOSE i \in DOMAIN log : log[i].who = "tool" /\ log[i].id = call.id
        together == UNION {ToSet(log[i].calls) \X ToSet(log[i].calls) : i \in DOMAIN log}
    IN  {p[1].id : p \in {q \in together : /\ InWords(q[2]) /\ ~InWords(q[1])
                                           /\ {q[1].id, q[2].id} \subseteq Answered /\ at(q[2]) < at(q[1])}}

\* The results of an assistant's calls come right after it, all of them and
\* before anything else: Chat and Messages reject another order. Those of late
\* calls, as in the items of Responses, come once and after their call; late is
\* also a call that is overtaken. No result is left of a call told in words.
ResultsFollowCalls ==
    turn = "upstream" =>
        LET list == seen.messages
            due(i) == {call.id : call \in {c \in ToSet(CallsIn(list[i])) : ~\E x \in ToSet(Calls) : x.id = c.id /\ x.server}}
            follow(i, results) == /\ Len(results) >= Cardinality(due(i))
                                  /\ {results[n].id : n \in 1..Cardinality(due(i))} = due(i)
            once(i, id) == \E j \in (i + 1)..Len(list) : id \in ToSet(ResultsIn(list[j]))
        IN  /\ ToSet(Everything(ResultsIn)) = UNION {due(i) : i \in DOMAIN list}
            /\ IsInjective(Everything(ResultsIn))
            /\ \A i \in {j \in DOMAIN list : due(j) # {}} :
                CASE Upstream = "responses" \/ due(i) \cap Overtaken # {} -> \A id \in due(i) : once(i, id)
                  [] Upstream = "chat" ->
                        follow(i, SelectSeq(SubSeq(list, i + 1, i + Cardinality(due(i))), LAMBDA m : m.role = "tool"))
                  [] OTHER ->
                        i < Len(list) /\ follow(i, SelectSeq(SubSeq(list[i + 1].blocks, 1, Cardinality(due(i))),
                                                             LAMBDA block : block.kind = "tool_result"))

CutOff == {call \in ToSet(Calls) : call.payload.form = "cut"}
Unvouched == {call \in CutOff : ~Vouched(call)}
Namespaced == {call \in CutOff : call.name \in DOMAIN Ctx.split}

\* No history made of what this process itself sent is refused, unless its edits
\* are out of order: it accepts back what it gave out. An Anthropic upstream has no
\* place for a call that was cut off and is not vouched for; nor does it get one of
\* a namespace, whose name responses_to_messages changes before it looks at the mark.
NothingIsRefused ==
    turn = "refused" => \/ \E i \in DOMAIN edits : edits[i].type = "clear_thinking" /\ i > 1
                        \/ Upstream = "anthropic" /\ Unvouched \cup Namespaced # {}

\* What the upstream was told stays as it was: unless the client edits or
\* summarises its history, or the proxy was restarted, the next request begins
\* with the one before, which is what the upstream's prompt cache needs.
RequestsExtend ==
    [][turn = "client" /\ turn' = "upstream" /\ log[1].number = 1 /\ edits = <<>> /\ edits' = <<>> /\ Calls = OfThisProcess
        => IsPrefix(seen.messages, seen'.messages)]_vars
=============================================================================
