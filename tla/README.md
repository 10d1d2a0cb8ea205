# llm-universal-proxy: verification development

TLA+ models of the proxy's stateful parts, model-checked with TLC on small instances and, where
the property is about every instance, proved with TLAPS. Source paths below are relative to the
crate (`src/` here is the crate's `src/` directory, `docs/` the repository's documentation).

The proxy terminates HTTP requests in one of several LLM dialects (Chat Completions, Responses,
Anthropic Messages), translates them into the dialect of a configured upstream, and translates the
answer, whole or streamed, back. It is one tokio process without persistent state; what can go wrong
lives in the awaits, the shared maps and counters, the wrappers around a streaming body, and the
state machines of the translation.

## 1. Inventory

### 1.1 Parts with state

| part | source | state | operations | what makes it hard |
| --- | --- | --- | --- | --- |
| Hook delivery | `hooks.rs` (dispatcher, sender) | `pending_bytes`, one circuit breaker per endpoint | emit, build, reserve, POST, answer, release | lock-free reservation loop, answers that arrive around an open breaker, payloads captured on one breaker state and emitted on another |
| Streaming chains | `streaming/stream.rs`, `server/proxy.rs`, `server/tracked_body.rs`, `hooks.rs`, `debug_trace.rs` | buffers, queue, counters and timers of `TranslateSseStream` / `GuardedSseStream` / `ResourceLimitedStream`, the held completion, one outcome per observer | poll, arrive, time out, drop, cancel, commit | order of wrappers, drop at any poll, timers, limits that clear frames which were translated already |
| Downstream watcher | `downstream.rs` | the connection's token, the request's child token | peek loop, body guards, disarm | a body that is dropped unread looks like a disconnect |
| Conversation bridge | `server/conversation_state_bridge.rs`, `server/proxy.rs` | process-wide map of transcripts, `current_bytes` | lookup, route and validate, capture, commit, expiry | clock read before the lock, one store for all namespaces, revisions that move on while a turn is in flight |
| Runtime configuration | `server/admin.rs`, `server/data_auth.rs`, `server/state.rs` | admin mutex, runtime lock, data-auth lock, per-namespace revisions | two compare-and-swap writes, request snapshot | three locks, two separate reads, builds outside the locks, handlers dropped at an await |
| Request pipeline | `server/proxy.rs`, `server/responses_resources.rs` | the phase of each handler, its cancellation token, tracker, hook and trace handles | validate, preload, route, build, send, read, translate, commit, report | some thirty early returns, disconnect at every await |
| Telemetry | `telemetry.rs` | counters of the process and of each upstream, recent requests | `start_request`, `set_upstream`, `finish_*`, `Drop` | finished by handler, body stream or drop, whichever is first |
| Debug trace | `debug_trace.rs` | bounded queue, dropped counter, writer thread, file | `try_send`, write, flush, report drops | a drop is counted after it happened while the writer runs |
| Capture spool | `hooks.rs` (`EventSpoolSink`...) | bounded channel, captured bytes, temporary file | capture, finish, join, replay, remove | overflow and failing writes in the middle of a stream |
| Stream sinks | `streaming/openai_sink.rs`, `streaming/state.rs` | open blocks, items, pending tool calls, indices, terminal flag | one chunk in, events out | content, reasoning and tool calls interleave; every opened block must be closed once |
| Stream sources | `streaming/anthropic_source.rs`, `streaming/responses_source.rs` | blocks and tool calls of the upstream's stream | one event in, chunks out | calls that come in pieces, malformed and truncated streams |
| Conversations through the translation | `translate/internal.rs`, `translate/internal/{openai_responses,openai_family,response_protocols,messages,tools,assessment}.rs` | none in the proxy but the key of its process; the history lives at the client, in the client's protocol | translate a request with all of its history, translate the answer | what was turned into another shape comes back turns later, reordered, edited, after a restart; the proxy must recognise its own work |
| Controls of a request | `server/proxy.rs`, `request_processing.rs`, `prompt_cache_controls.rs`, `translate/internal/assessment.rs`, `dialect_emit.rs` | none | classify, assess, translate, emit for the dialect, synthesize a cache key | five places look at the same fields with predicates of their own, which must agree |

### 1.2 Other parts

Pure functions which no model has: configuration parsing and model resolution (`config.rs`), format
detection, headers and error bodies, redaction. I/O wrappers: the HTTP clients, capability discovery,
the dashboards, the process entry. Their outcomes appear in the models as choices (an upstream
answers, fails or stalls; a body is refused or routed); section 6 says why each is left out.

### 1.3 How the parts interact

    client connection --(watcher)--> token
       |                               |
       v                               v (child token at every await)
    handler: snapshot of the runtime -> preload from the bridge -> route and assess -> send upstream
       |          ^ RuntimeAdmin          ^ ConversationBridge        RequestPipeline
       |                                                                   |
       |<-- whole body: read, translate, commit to the bridge, report -----|
       |<-- stream: translate/guard/raw chain -> limits -> observers ------|   StreamDelivery
                           |                         |
                        sources and sinks      tracker (RuntimeMetrics), hook capture (EventSpool,
                                               HookDelivery), debug trace (TraceWriter)

The handler owns everything until it returns a body; afterwards the body owns the tracker, the hook
capture, the trace handle and the bridge's candidate, and a drop of the body is the last event of the
request. The bridge's store, the hook budget, the breakers, the counters and the trace queue are
shared by all requests of the process; the runtime map is shared with the admin plane.

### 1.4 What makes each part correct

`PROJECT.json` lists the hazards, each at its line, with the properties that cover it. In short:

- hooks: bytes are accounted exactly, a breaker is tripped and held by its own endpoint's failures
  only, everything emitted settles;
- streams: after an error nothing else is sent, a completion is sent only after it can be replayed,
  all observers agree on the outcome, every stream ends;
- bridge: exact accounting, only expired entries go, no history leaves the owner and the
  configuration it was captured under, a forwarded call is always answered;
- runtime configuration: the handlers are one compare-and-swap, a request never mixes two
  configurations, every write is answered;
- pipeline and telemetry: counters are exact, each request finishes once, with the outcome the
  observers also report;
- trace and spool: drops are counted once, order is kept, what is presented as whole is whole;
- stream translation: what the client is sent is well-formed, complete and ended once;
- conversations: what was said and called comes back to the upstream once, in the order its protocol
  demands, and the proxy accepts back what it gave out;
- controls: what the assessment says of a request is what the translation does to it, the choice among
  the tools keeps its meaning, what a model's surface promises binds every path to it.


## 2. Plan

Order of work, the most important behaviour first. Modules marked *done* exist and are checked.

| order | module(s) | composes | state |
| --- | --- | --- | --- |
| 1 | `HookDelivery`, refining `ByteBudget` | | done, proved |
| 2 | `StreamDelivery` | limits, observers, watcher, bridge candidate | done, proved |
| 3 | `ConversationBridge` over `BridgeContinuation` | store and pure validation | done, proved |
| 4 | `RuntimeAdmin`, refining `AdminCas` | three locks, writes, requests | done, proved |
| 5 | `RequestPipeline` extending `RuntimeMetrics` | handlers and telemetry | done, proved |
| 6 | `StreamObservation` over `TraceWriter` and `EventSpool` | trace queue and spool | done, proved |
| 7 | `StreamTranslation` over sinks, sources and `StreamState` | upstream, source, sink, client | done, checked; its end and its parts proved (`StreamTranslationProofs`, `StreamItemsProofs`) |
| 8 | proofs of `TraceWriter` and `EventSpool` (`StreamObservationProofs`), of the contents of a stream (`StreamDeliveryProofs`), of the validation of a continuation (`ConversationBridgeProofs`) | | done, proved |
| 9 | pairing of blocks and items | `StreamTranslation` | done, checked and proved (`PartsPaired`) |
| 10 | `RequestControls` over `ControlTranslation` and `ControlAssessment`: classification, prompt-cache controls, assessment, dialects | | done, proved in part |
| 11 | `Dialogue` over `HistoryAssessment`, `AnthropicChat`, `ResponsesChat`, `ChatMessages`, `ToolBridge`, `ToolDefinitions`: messages and tools in requests and whole responses | client, proxy, upstream | done, checked |
| 12 | model resolution and configuration validation; data-plane credentials | | open |
| 13 | detail of the stored-response handlers (`responses_resources.rs`) and of the connection watcher before a response exists | `RequestPipeline` | open |

Abstract specifications: `ByteBudget` (a budget whose grants are indivisible) for the hook
dispatcher's reservation loop, and `AdminCas` (one compare-and-swap register per namespace and one
for the data authentication) for the two admin handlers. Candidates for later: a bounded FIFO with a
loss count for the trace queue, and "what the upstream said" as the specification of all six
translations.

Runs stay few: one for each component and one for each disagreement (section 4). Theorems, in order
of worth: exactness of the shared counters and budgets, isolation of configurations and owners,
agreement of observers, type correctness, order and drops of the trace and faithfulness of the spool, order and
completeness of a stream, exactness of the bridge's validation, agreement of what is said of a request's
controls with what is done to them (all proved, section 5). What the translations compute over a whole
history or stream stays with TLC.

## 3. How the modules correspond to the code

`PROJECT.json` maps every definition to its lines. Each action is one handler step between two
awaits (or between two visible atomic operations); whatever the code does in that stretch is in the
action. Definitions whose comment begins with "Mutant" (`CloseAtOnce`, `SwapPendingStale`,
`StopBlockKeeping`...) are variants of a definition with one line changed, kept beside it to show
that the properties notice; no specification uses them.

**HookDelivery** (`hooks.rs`). A delivery is a request paired with a kind (`exchange`, `usage`).
`WrapStream` is the capture wrapper, which looks at the exchange breaker once; `EmitExchange` and
`EmitUsage` are the emission, `BuildExchange` the task that serializes the payload, `LoadPending` and
`SwapPending` the load and the compare-and-exchange of the reservation loop (`pending_bytes`),
`Answer` the POST's outcome with the breaker's bookkeeping, `Release` the guard's drop. `now` stands
for `Instant::now()`. `ByteBudget` has only holdings and a limit: the refinement maps each delivery
to the bytes it holds between a successful swap and its release.

**StreamDelivery** (`streaming/stream.rs`, `server/proxy.rs`, `server/tracked_body.rs`, `hooks.rs`,
`debug_trace.rs`, `downstream.rs`). `pipeline` is the chain the handler built. A frame is what it does
to the stream: a `delta`, a frame that is `reject`ed by the translation, `huge` ones above a limit,
the finish, the completion, an upstream error, comments. `PopOutput`, `ReadChunk`, `ReadNothing`,
`TranslateFrame`/`GuardFrame`/`FailFrame`/`SkipFrame`, `DrainFrame`, `TimerExpires` and `ResolveCommit`
are the branches of `poll_next` in its order, `Unchanged`/`Rendered`/`Translated` what becomes of a
frame; `EndOfStream`, `ErrorOfStream` and `DropBody` are what the three observers do when the
wrappers around the stream see `None`, an error or a drop, in the wrapper order of each chain.

**ConversationBridge**, **BridgeContinuation** (`server/conversation_state_bridge.rs`,
`server/proxy.rs`). A turn passes `Begin` (the body is read, the clock is taken, the snapshot is
fixed), `Lookup` (the lock, expiry and owner check), `Route` (route check and validation of the
items), `StreamStarts`/`Complete` (the upstream's answer) and `Commit` (clock, lock, prune,
reservation, insertion) or `Finish`. `Reconfigure` and `RotateAuth` are the admin plane as a turn
can notice it. `BridgeContinuation` is the scan that decides whether the items of a request may follow
the stored ones; `AnswersThenMessages` is its independent reference definition.

**RuntimeAdmin** (`server/admin.rs`, `server/data_auth.rs`, `server/state.rs`). A write passes
`Submit`, `TakeAdminLock`, `ReadAccess`, `ReadRuntime`, `Build`, `TakeRuntimeLock` and
`CommitNamespace` or `CommitDataAuth`; `Abandon` is a handler dropped at an await, `StartAuthorization`
and `Authorize` are the request's two read locks. `AdminCas` applies or refuses a write in one step.

**RequestPipeline**, **RuntimeMetrics** (`server/proxy.rs`, `server/responses_resources.rs`,
`telemetry.rs`). `phase[r]` is the await a handler stands at: `Validate`, `Preload`, `Route`, `Build`,
`Send`, `Read`, `Translate`, `Commit`, `Report`, `Return`; each early return is a disjunct of the
action it is in, with the tracker's finish it performs and the hooks and trace entries it does or does
not emit. `GoAway`, `Notice` and `DropHandler` are the client's departure, its detection and hyper's
drop of the handler. `Finish` and `DropTracker` are `finish_with` and `Drop` of the tracker, the
counters are cells of the process and of each upstream.

**StreamObservation**, **TraceWriter**, **EventSpool** (`debug_trace.rs`, `hooks.rs`). The bounded
queue of the trace, the count of dropped entries which the writer swaps out and writes as an entry of
its own, batches and flushes; the spool's channel, its budget, its writer thread, the replay when the
hook's payload is built, the removal of the file. `RecordStream` ties both: the request of the stream
records its entry only when its capture has been finished, as the wrapper order has it.

**StreamTranslation**, **StreamState**, **AnthropicSink**, **ResponsesSink**, **AnthropicSource**,
**ResponsesSource** (`streaming/`). The environment actions `Chat...`, `Anthropic...` and
`Responses...` are upstreams that keep to their protocols (and some that end early, refuse, renumber a
call or give a call's arguments only once it is done); `Next` translates each event at once, as
`translate_sse_event` does, through a source (chunks in the Chat Completions dialect) and a sink
(events of the client's dialect). `state.out` collects the client's events, `up` what the upstream
has said. Texts are sequences of positions so that any reordering, loss or repetition shows. Where the code
sorts the keys of a map and steps over them, `OverKeys` is the fold that ends with the greatest key.

**Dialogue** and the modules it uses (`translate/internal.rs` and `translate/internal/`). `ToolDefinitions`
is what becomes of declared tools (custom tools and namespaces become functions), `ToolBridge` of their
calls (how a call of the stand-in is turned back, the signatures by which a process recognises a server
tool's call or a call that was cut off), `ChatMessages` the pivot message with its role repairs,
`AnthropicChat` and `ResponsesChat` the two directions of each protocol, `HistoryAssessment` what is refused
before anything is translated. `Dialogue` is a client, the proxy and an upstream: `Ask` sends the whole history
through assessment and translation (`TranslatedRequest`), `Reply` is an answer of the upstream and its
translation back (`TranslatedAnswer`), `Speak`, `Answer` and `Compact` are what a client does with its
history between two requests, `ChangeModel` goes on with a model of another upstream, `Restart` gives the proxy
a new key. An answer may be cut off within a call: an Anthropic upstream's call is then told to the client in words
(`ToldInWords`), another's reaches a Responses client with the proxy's mark, as do the custom calls of such an
answer that are whole (`Marked`), and a Chat client without one. An Anthropic client is never given a cut call: its blocks
hold no partial JSON. `log` keeps what was really said, by
whom, and by which process. Texts, results and thoughts are numbered, a name is the sequence of its
`__`-separated segments, and the payload of a call is one of four forms: free text, the wrapper of a
custom input, another object, cut JSON.

**RequestControls**, **ControlTranslation**, **ControlAssessment** (`server/proxy.rs`,
`server/request_processing.rs`, `prompt_cache_controls.rs`, `translate/internal.rs`,
`translate/internal/{assessment,openai_responses,tools}.rs`, `dialect_emit.rs`). One request passes `Assess` (its bytes can be
forwarded or must be transformed; refused, or warned about; the report on prompt-cache controls),
`Forward` or `Translate`, `Emit` (the dialect of the upstream's model) and `Send` (a synthesized cache
key). A body is a function from the fields it has to their values; fields that stand for something in
the messages are named in the header of `ControlAssessment`, and `Fields` lists those of each protocol. `Reaches`, `Kept`, `LostSilently` and `Meanings` are the
reference: which field of which protocol means the same.

## 4. Runs

Nine runs pass, each within five minutes with two workers; three show a disagreement. A run is of an MC module where its
constants need definitions, and of the component itself where the cfg gives them all. `CHECK_DEADLOCK
FALSE` stands in a cfg where the systems really stop: every request is answered, every stream dropped,
every write answered, and the clock and the number of turns, events and reconfigurations are bounded.
`Dialogue` and `RequestControls` say where they rest and check for deadlock.

| run | states | what it asks | bounds and why they suffice |
| --- | --- | --- | --- |
| `hook_delivery` | 256K | accounting, breakers, drops, settling | two requests with both hooks are four deliveries for a budget of two, so reservations are refused, race and are retried; threshold and cooldown 1 make a breaker open, half-open and trip again with answers still outstanding |
| `stream_delivery` | 974K | order, completeness, commit, outcomes, end of every stream | three frames reach every pair of kinds with a terminal after them; two events and two state units are passed by three frames; the timers differ and both fire; the limit on the size of a frame is checked in `DrainFrame`, before the chains differ, so one chain has it |
| `bridge_store` | 1.17M | accounting, expiry, isolation, answered calls, validation against the reference | three turns are needed for a chain of two and a racing third; a limit of three items is overrun by two entries; two call ids and both kinds of tool, answered in order, out of order, twice, not at all |
| `admin_writes` | 236K | refinement of compare-and-swap, snapshots | two writes of any target race, two namespaces make a mixed snapshot possible |
| `request_pipeline` | 149K | counters, outcomes, observers | two requests, room for one recent request so that trimming happens |
| `stream_observation` | 535K | drops, order, completeness, ends | queues of one slot with three entries and three events overflow in every place |
| `stream_translation` | 813K | well-formed, complete, ended once | two interleaved calls, text, reasoning and refusal around them, a name that is bridged, one that is reserved; 5, 10 and 7 events are the longest streams which TLC exhausts and hold a whole turn with a call and a text |
| `dialogue` | 958K | words, calls and results come back whole and in order, nothing is refused, requests extend one another | all six pairs of protocols; three answers of up to two calls, so that results are answered in any order, interrupted by two words of the user, and edited or compacted away two turns later; one restart, which lets calls of two processes meet in one history. Where an answer is cut off or the upstream changes, five things are said instead of six (`MaxCutLength`), and so two answers: every call of every upstream may be the one that is cut off, the change takes a marked call to an upstream that did not make it, the restart makes its mark void |
| `request_controls` | 1.38M | assessment, translation, dialect and report agree | every request with any two of the controls of its protocol, as the predicates relate at most two fields each, and every choice among one or two tools of each kind, on every route: open, limited and serial, each mechanism of a dialect on each upstream, also those of another protocol |
| `request_unread_body`, `stream_repeats`, `controls_lost` | | a disagreement each (section 7) | the smallest instance that shows it |

`bridge_store` has two bounds of its own. `SYMMETRY TurnSymmetry` permutes the turns, which are used
alike and in no liveness property. `CONSTRAINT OneTroubleAtATime` leaves out the behaviours in which a turn with tool
calls meets a clock tick, a reconfiguration or a rotation, or in which all three of these happen: the
validation of items looks at nothing but items, and an entry is given up for one of the three reasons
whichever others hold. Any two of the three do meet.

In the run of `Dialogue` one constant leaves out what the code cannot get right because the client's
protocol has no place for what would be needed: whose server tools come back as such (`OwnTools`, section 7). Which
calls are cut off is not restricted: what becomes of a cut call is said in the properties, and each exception is a
definition (`Unvouched`, `Namespaced`, `Overtaken`) that section 7 explains. Without any one of the three TLC finds a counterexample.

Some properties have several parts, each a definition of its own in the module: `TraceIsExact` is the
order of the trace and the exactness of the drops, `PartsArePaired` that blocks and items are paired and that the output of a
whole response is what was done part by part, `EndsOnce` also that turns end and that the usage is
told, `CallsComeBack` also that server tools come back as such, `CompletedIsReplayable` also that
only what completed is stored.

A wider instance of `bridge_store` with several namespaces, credentials or models has the same
outcomes: an owner is a tuple which is compared as a whole, and `MaxRevision` and `MaxGeneration`
already change two of its parts. That argument is about the model; TLAPS proves `BytesExact` and
`ReplayStaysInContext` for every number of them.

Fairness, wherever a liveness property is checked:

- `HookDelivery`: weak fairness of the emission of the usage hook (every request ends) and of each
  delivery's step. They run in tokio tasks, and every await in them is bounded by the POST's timeout.
  Nothing is assumed of when a stream's exchange is emitted. The swap may fail spuriously only when
  another delivery changed the counter, so the loop needs no strong fairness.
- `StreamDelivery`: weak fairness of the clock and of a poll, strong fairness of the resolution of the
  commit. The upstream gets none: it may stall for ever, and the stream must still end by its timers.
- `RuntimeAdmin`: strong fairness of each write's step, for tokio's mutex and read-write lock are
  first-come, first-served queues: a write that waits for a lock which others take and release gets it
  in the end. Weak fairness of the request that waits for its second lock. Discovery has a timeout.
- `RequestPipeline`: weak fairness of each handler's step; the clients' total timeout bounds the
  awaits of an unanswered upstream, and the wait for the first response has one of its own where a
  client has no total (`upstream.rs:94-103`, `313-321`, `524-534`). A client's departure and its detection are not fair: a client may stay for ever.
- `StreamObservation`: weak fairness of both writer threads and of the task that replays the spool.

Eight modules hold theorems; `PROJECT.json` lists those worth knowing. Every proof is for arbitrary
values of the constants under the named assumptions of the modules, which are what the configuration's
validation guarantees (limits are positive, sets of requests are finite, reserved names are distinct).
No proof assumes fairness.

**HookDeliveryProofs.** `BudgetExact` is not inductive: that the counter equals the sum of
held bytes survives a swap only if the expected value was really loaded and the delivery does not hold
bytes already. `BudgetInv` adds `EmissionInv` (a stage allows only its sizes) and `ReserveInv` (a loop's
delivery holds nothing, and its size fits the limit it tested). The sum is the cardinality of the set
of held byte places, so that a grant is the union with a disjoint set and a release the removal of a
subset; `ReserveLoopImplementsBudget` follows from the same facts, a successful swap maps to `Grant`,
a release to `GiveBack`, all else stutters. `BreakerInv` adds `FailureInv`, that a breaker's counter and
open time are bounded by the failures of its own endpoint. `OpenBreakersHold` needs the same bound: a
new deadline is one cooldown from now, which no older one exceeds.

**StreamDeliveryProofs.** The invariant is about who reported what when: before the body is
dropped an observer that has reported has reported the end which the stream has reached, in wrapper
order, and that only a timer of the raw chain, which is outside the observers, leaves a limit noted there (`TimedOutOutside`).
From it follow agreement and truth of cancellations in all three chains, with that one exception, finality and
stability (`CancelReportsAreTrue`, `DroppedIsFinal` and `OutcomesAreStable` are proved and no run repeats them).
`ObserversAgree` says of the exception what is reported then: a success and two lost clients (section 7).

Its second half is about what goes through a translated chain. `Order` reads what the client has, what the
bridge holds back and what is queued as one stream: nothing follows a failure across the three parts,
a completion is in one of them at most once, a capture candidate stands only where a commit can reach
it. From it follow the finality of `response.failed` and that a completion is committed before it goes out.
`Clean` relates each frame a chain has read to where it is now, by an offset into each part, so that a clean end
skipped nothing (`CleanEndsAreComplete`).

**ConversationBridgeProofs.** The validation of a continuation is a recursive scan over a transcript, and its reference
(`AnswersThenMessages`) speaks of positions in it. The induction is over the length of the prefix that
was scanned. The library's induction theorem takes an operator and cannot be instantiated by the provers, so `SetInduction`
states it for a set of numbers, which its proof takes from the well-foundedness of `<` on `Nat`, and each
use names the set of the lengths for which the claim holds. The claim of `ScanIsExact` is
that after `n` items the scan holds exactly the calls which the first `n` items open and do not answer, or
has failed if they are not well formed. `ContinuationIsExact` and `ContinuationCloses` apply it to the stored items and the new
ones put together.

`current_bytes` is the cardinality of the set of byte places of the
stored entries. Pruning and insertion under one lock change both together; that an insertion stays
within the limit needs the bounds on sizes which the type invariant states. `ReplaysStayInContext`
strengthens the invariant with what a stored entry recorded at its capture and what a turn carries
from its lookup. `ForwardedAreAnswered` and `ValidationsAreExact` carry the theorems about the validation over to every
turn, of which they need only that what is stored or sent is a sequence of items (`TypeOK`).

**RequestProofs.** Of `RuntimeAdmin`: the invariant ties each phase of a write to the locks it holds and to the
copies it took: who holds the admin mutex knows the revisions of its target, because no one else
can change them. This is what makes the late commit a compare-and-swap (`AdminImplementsCas`,
`AtMostOneWinner`), and that a data-auth write rebuilds all namespaces under both locks is what keeps a
request's snapshot in one configuration.

Of `RequestPipeline`: `TrackerFollows` ties the tracker's state to the phase, `ReplyFollows` the
reports to the reply, `Attributed` says which cells an unfinished request is counted in.
`MetricsStep` does the arithmetic once for every action that starts, attributes or finishes a
tracker. `CancellationsAreTrue` assumes `~UnreadBodies`, that no client sends a body to an operation
that takes none; without it the property is false (`request_unread_body`).

**StreamObservationProofs.** The trace and the spool share no variable, so each has an invariant of its own,
kept by its own steps and by all others. `TraceInv` adds to `DropsExact` that an entry in the queue is not
one of those counted as dropped, without which the thread could take one twice. `OrderInv` reads file,
buffer, the thread's hand and queue as one line of entries (`Pipeline`), in which each stands once and after those recorded earlier. `SpoolInv` says line by
line that what is queued continues what is written, that a flush comes last, and that nothing is missed
unless an overflow was noted.

**RequestControlsProofs.** `Progress` is the invariant: it gives every variable as a function of the client's
request and the route, one conjunct for each stage, so that what is sent is `Final`, a chain of some
thirty operations on one body. The proofs follow single fields through that chain. `Agree(b, c, f)` says
that two bodies have the same field `f`, `Arrives(b, f, c, g)` that a field comes out under another
name, and there is one lemma for each step of each translation with the fields it leaves alone, those it
renames and those it takes away. `ForwardingIsExact` shows that no step of the chain would do anything to a request for which
`MustTransform` is false. `CacheReportIsExact` follows the keys and marks of a prompt cache,
`SurfaceIsRespected` the limit, the word on parallel calls and the effort, on each of the nine pairs of protocols and
on the path of the forwarded bytes. `LossesAreKnown` and `WarningsAreTrue` are the two halves of one
comparison: for each pair of protocols one lemma (`ChatToResponsesAccounts`, ...) takes every field of
`Fields` that is a control and says where it comes out, which warning it raises, why the assessment
would have refused it (`RefusedControls`), or which known loss it is; another (`ChatToResponsesWarns`, ...) takes
every warning and shows that no name of its field is left in what is sent. Efforts have lemmas of their own
(`MappedEffortReaches`, `CappedIsLost`), as the dialect rewrites them after the translation. The attempt to
prove the second half refuted an earlier form of the property, which took a field for kept when
another of the same meaning was; TLC then found the request, an Anthropic one with two efforts.

`ChoiceIsKept` needs to know what is in a filtered and flattened list of tools. `FlattenHas` says it of `FlattenSeq`, by induction over
the recursive function it is defined with (`AllNumbers`, for a set of numbers, as the library's induction takes an
operator); `Sieved`, `NormalizedHas`, `FunctionNamesHas` and `FlatChildrenHas` say it of what is built from that. With them `AskedIs`
turns what a request asks into sets: the mode of its choice, and the names that may be called. Then each translation is
shown to keep the pair: `ChoiceFromResponses` and `ChoiceFromClaude` on the way to Chat, which also yield a request in `ChatForm`
(towards Anthropic in `PlainForm`, of functions alone), and `PolicyToResponses` and `PolicyToClaude` from there on, by cases
on what `openai_normalized_tool_policy` says (`PolicyOf`).

The assumptions are `BodiesAssumption` (a request has fields of its protocol),
`ValuesAssumption` (flags are flags), `RoutesAssumption` (a mechanism is one of the five, with levels of the seven efforts) and,
for `ChoiceIsKept` alone, `ToolsAssumption`: tools and choices have the kinds of their protocol, a choice of one names one,
allowed tools are named and have a mode (`openai_normalized_tool_policy` refuses others), a namespace that is allowed is declared and has
children (of another `responses_tool_choice_to_openai_tool_choice` would drop the pick), and what Anthropic says of parallel
calls is said inside a choice.

**StreamTranslationProofs.** `EndsOnce` compares the whole of what a client was sent with where its upstream
stands, so it says nothing of the state in between. `EndsInv` does. While the upstream speaks the client's
stream is `Live` (no end and no usage told, no finish known) or it was refused and is `Closed`; when the
upstream's turn is over the client's is `Closed`, but for the Anthropic client of a chat upstream that gave no
finish. Between the finish and the end each pair of formats is at another place: an Anthropic upstream's finish is kept
and nothing was told yet, a chat upstream's Anthropic client was told the end with it, and a Responses client of a
cumulative model still waits for the usage. `KeepsOn` adds what of the upstream the steps need (calls have indices,
a chat finish is a reason). The proof has one layer for each layer of the code: what each helper of a sink does to
`IsState` and to the events told (`GoesOn`, `IsOver`, `IsWaiting`), what a sink does with one chunk
(`AnthropicGoesOn`, `AnthropicEnds`, `ResponsesGoOn`), what a source makes of one event (`Reads`, `Concludes`), and a list
of chunks (`ChunksAreGiven`). A sink steps over its open blocks and calls in the order of their keys, so `IterationKeeps` proves
once, by induction on the largest key, that what every step keeps the whole iteration keeps (`Step` names the steps, since
no lemma can take an operator). `BlocksPaired` is the half of `PartsArePaired` that is about an Anthropic client. `Ledger(out, n)`
says that what was sent starts the blocks 0 to n - 1, each once, and that every delta and stop fits (`Paired`); `BlockState` that
the sink knows how many blocks there are, and that those it has noted as open (`open` for thinking and text, `toolBlocks` for
calls) are exactly those that were started and not stopped. That is what makes `StopBlock` in front of every block of
another kind right, and what the mutant that forgets to clear `open` breaks. `BlocksInv` keeps it as long as the message goes on, and adds that
the next call of an upstream comes under an index that has no block yet, since a second block under one index would leave the first
open for ever: a chat upstream numbers its calls itself, of a Responses upstream the source does (`Numbered`).

**StreamItemsProofs.** `PartsPaired` is `BlocksPaired` with `ItemsPairedInOrder`, the half about a Responses client.
Its invariant has three layers. `Account(out, n)` speaks of what was sent alone: no index below n was added or done twice,
no other was used, every delta lies between, and what an item was done with is what its deltas add up to; `Follows` says which
event may come next (`AccountGrows`). `Holding` relates that to what the sink remembers: the items that are open are its reasoning, its message
and the calls that were added and not done, each with the text it was told so far, and those that are done
are the ones the end will list. A call reserves its index with its first delta and is added later, when its id, name and
kind are known, or, if it is wrapped, when the wrapper can be taken off; until then nothing was told under
that index (`CallFits`). `ItemsInv` adds what the upstream has said, so that the index and the id of a call that is new to the upstream are
new to the sink too: `ChatKnows` and `ChatSays` for a chat upstream, whose first call may come back under another index,
and `UsesKnown` for an Anthropic one, of whose tool uses only that of the open block is still untold, which is why the end of a
message has none to end (`NoUsesEnd`). That the end lists every item, in the order of the indices, is a fact about
`Output` (`TerminalIsListed`, `ItemsAreSorted`), which needs that by then every call with an id was added (`EveryAdded`).

The assumptions of both modules are `PairsAssumption` (a stream is translated between two different
formats), `StreamBoundsAssumption`, `NoneAssumption` (a missing finish or number is none of the finishes or numbers), `OpenBlockAssumption`
(nor is it an open block) and, for `BlocksPaired` and `PartsPaired`, `CustomClientsAssumption`: no custom tool is called for an Anthropic client, whose requests offer functions only
(a context that would make a custom tool of one is refused by `reject_internal_request_scoped_tool_bridge_context`).

Some results are proved and not repeated by a run: `BreakerBounded`, `OneWinner` (which
`ImplementsCas` contains) and `RecentAgrees`.

Only model-checked:

- liveness (`EveryEmissionSettles`, `EveryStreamEnds`, `EveryWriteAnswered`, `EveryRequestFinishes`,
  `ObserversSettle`), which TLAPS cannot treat with ENABLED;
- `StreamTranslation`'s invariants `TextArrives` and `CallsArrive`: they put together what was sent over a whole stream, for each
  of the three clients in its own way, and compare it with what the upstream has said, part of which a source still holds back;
- `Dialogue`'s properties: each request translates the whole history again, by folds of several modules.

## 6. What is not modelled

- **Configuration, model resolution, data-plane credentials, format detection**: pure functions of one
  request or of the start of the process, without a second actor; the models leave the choice they
  make open. What a dialect and a surface do to a request is in `RequestControls`.
- **Discovery, HTTP clients, proxy selection**: I/O wrappers. Their outcomes are choices of `BuildUpstreams`,
  `Build`, `Send` and `Read`.
- **Redaction, headers, error bodies, model listings**: text formatting, about which
  no property speaks. The redacting stream wrapper hands on one frame for one frame.
- **Dashboards, agent setup tools, process entry**: consumers of snapshots, a separate command-line
  tool, and argument parsing.
- In the translation of requests and responses: how images, files and audio are re-encoded (only which
  modalities are used is known), usage numbers, error bodies, the search for a MIME type which two fields of a
  file disagree about (one flag of a request), the schemas and descriptions of tools.
- In the controls: what a synthesized cache key is a digest of, and the analysis that only a debug
  trace shows.
- In the sinks and sources: annotations, citations, signatures, omitted thinking, namespaces, proxied
  tool kinds, marks of incoming calls that cannot be replayed, sequence numbers, the phase of a
  message, the order in which open blocks stop (a hash map's), the name check that the translation
  has made before the sink repeats it, MiniMax's rules for responses of other than chat upstreams, and
  the limits on probes. A chat client is the only one that gets custom calls from a Responses upstream
  (`CustomClients`): see the notes below.
- In a stream's state: what a sink remembers of a text to tell a cumulative model by is bounded to 4096 bytes
  (`streaming/openai_sink.rs:88`); `NewText` compares with the whole text.
- In the trace: the writer thread ignores the errors of its writes and flushes (`debug_trace.rs:399-421`); in `TraceWriter`
  they succeed. That entries which keep arriving within 25 ms delay the flush (`debug_trace.rs:412`) needs a clock it has not.
- MiniMax's overrides also ask for the usage of a stream (`stream_options`, `translate/internal.rs:448-453`), of which no
  property of `RequestControls` speaks.
- In the bridge: requests that name a response id of the upstream's own; they never touch the store.
- In the admin plane: access control, parsing, redaction and the read endpoints.

## 7. Findings and notes

Three runs show a disagreement between the code and what its comments, tests and documents say.

- `request_unread_body`: a body sent to an operation that takes none is dropped unread, its guard
  cancels the request, and the client that waits is answered 499.
- `stream_repeats`: a delta that equals or starts with all the text before it is taken for a cumulative
  one; the comment says that incremental senders never get there.
- `controls_lost`: `metadata`, `output_config.format`, an effort that no dialect maps and, towards
  Responses, `stop_sequences` of an Anthropic client are gone without the warning that `docs/PRD.md:436-438` and `482` promise.

Notes on behaviour that no run disputes, for a maintainer's judgement:

- A timer of the raw chain ends the stream outside the observers: the tracker counts a success, the `Drop` of hook and
  trace reports the disconnect of a client that is still connected (`streaming/stream.rs:126`). No comment says otherwise; it is
  the one exception of `ObserversAgree` and `CancelReportsAreTrue`.
- An Anthropic upstream is cut off behind a function call and a custom call. A Responses client gets the custom call
  marked, runs both and gives the custom call's result first: it becomes a user's message at once, and the function's
  `tool_result` comes behind that message (`translate/internal/openai_responses.rs:945-968`, `translate/internal.rs:2442-2480`),
  where `docs/protocol-baselines/anthropic-messages.md:165` has it in the next user turn. The same happens to the calls of
  another upstream when the client goes on with an Anthropic one. The result could be deferred, as the user's own words
  are: this is a flaw of the code, not of a protocol. `ResultsFollowCalls` asks of such a call only that its result comes once and
  later (`Overtaken`). An Anthropic upstream's own cut call cannot be the one that overtakes: the client is told of
  it in words and has no call to answer (`streaming/anthropic_source.rs:60-161`).
- The call of a namespace's tool which was cut off is given its flat name before its mark is looked for
  (`translate/internal/openai_responses.rs:855-879`). The mark is bound to the name, so it no longer holds, and where the
  client has gone on with an Anthropic upstream the request is refused, although `docs/DESIGN.md:166-167` has the call told in
  words and the mark made anew. `NothingIsRefused` excepts such calls (`Namespaced`).
- The usage of a chat upstream's trailing chunk arrives after the Anthropic client's message has ended, where
  the comment says that storing it keeps the end from reporting zero tokens
  (`streaming/openai_sink.rs:933`); `UsageIsTold` in `EndsOnce` excepts chat upstreams.
- The proxy's word that a call is a server tool's is signed in Chat Completions messages only
  (`translate/internal.rs:2215-2218`); the items of a Responses client have no place for the signature,
  so such a call is not recognised when it comes back. `OwnTools` leaves this out.
- A Chat client gets a cut call without a mark, and the mark of a Responses client's is void after a restart of the proxy:
  an Anthropic upstream cannot be given either call, and the request is refused
  (`request_invalid_structured_tool_arguments_message`). `NothingIsRefused` excepts such calls (`Unvouched`).
- A warning says that `reasoning` of a Responses request is dropped although the dialect maps it
  (`translate/internal/assessment.rs:2536-2540`), and an effort in `extra_body.openai.reasoning_effort` goes past a
  dialect's ceiling. `WarnedIsDropped` and `SurfaceIsHonoured` name both.
- Nothing refuses a dialect whose mechanism is another protocol's, or `anthropic-thinking` with
  levels: an effort is then emitted, capped or reported as dropped while the one that the client wrote stays in the body
  under its own name (`translate/internal/dialect_emit.rs`). The same two properties except such dialects.
- `KnownLosses` in `RequestControls` lists every control which is lost without a warning, with the reason.
- A capture that was disqualified before the completion lets `response.completed` go out without a
  commit (`streaming/stream.rs:1069`); the model has it, and `CompletedIsReplayable` speaks of the
  captures that were not.
- The store's `max_bytes` is that of the namespace whose turn commits, while the store is one for the
  process (`conversation_state_bridge.rs:174`): a small limit in one namespace makes its turns refuse
  because of another's entries.
- A Responses upstream's custom tool call ends with a chunk which carries the id again
  (`streaming/responses_source.rs:313-338`), for which the Anthropic sink would open a second block
  without a name (`streaming/openai_sink.rs:1046-1069`). Whether a request of an Anthropic client can
  bring such a call about is doubtful, so the model leaves it out.
- The trace writer does not look at the result of every write. The spool ignores the result of its last
  flush (`hooks.rs:1367`): a payload replayed from a file that a full disk cut between two lines is
  presented as whole, a line that is cut makes the replay fail and leaves the temporary file behind.
  `CaptureIsFaithful` and `ObserversSettle` name both as exceptions (`flushed`).
- The Anthropic sink drops refusal deltas; a chat stream that ends with `[DONE]` and without a finish
  reason leaves an Anthropic client without `message_stop`; the end of a stream without its terminal
  event is counted as a success.
