--------------------------- MODULE StreamDelivery ---------------------------
(***************************************************************************)
(* One streaming response, from the upstream's bytes to the client: the    *)
(* chain of stream wrappers that handle_request_core builds (proxy.rs) and *)
(* that the connection task polls from the outside in.                     *)
(*                                                                         *)
(*   translated  TranslateSseStream, capture for the conversation bridge,  *)
(*               HookCaptureStream, DebugTraceStream, TrackedBodyStream    *)
(*   guarded     GuardedSseStream in place of the translator               *)
(*   raw         HookCaptureStream, DebugTraceStream, then the timers of   *)
(*               ResourceLimitedStream, then TrackedBodyStream             *)
(*                                                                         *)
(* The client speaks the Responses protocol; the translated upstream is an *)
(* Anthropic one. A frame is abstracted to what it does to the stream. The *)
(* wrappers run on one task, so a poll is a sequence of steps that only    *)
(* the outside world interleaves: the upstream, the clock, the client and  *)
(* the watcher of its connection.                                          *)
(***************************************************************************)
EXTENDS Integers, Sequences

CONSTANTS
    Pipelines,      \* the chains to consider
    FrameKinds,     \* the upstream frames to consider, by chain
    MaxFrames,      \* bound on the frames one upstream sends
    MaxEvents,      \* resource_limits.stream_max_events
    MaxState,       \* resource_limits.max_accumulated_stream_state_bytes
    IdleTimeout,    \* resource_limits.stream_idle_timeout_secs
    MaxDuration,    \* resource_limits.stream_max_duration_secs
    MaxClock        \* bound on the clock

\* delta       content                     finish      successful end of the turn
\* incomplete  truncated end of the turn   error       the upstream's error event
\* reject      fails public validation     odd         data that is not JSON
\* huge        exceeds max_sse_frame_bytes
AllFrames == {"delta", "finish", "incomplete", "error", "reject", "odd", "huge"}

ASSUME PipelinesAssumption ==
    Pipelines \subseteq {"translated", "guarded", "raw"} /\ Pipelines # {}
ASSUME FrameKindsAssumption == FrameKinds \in [Pipelines -> SUBSET AllFrames]
ASSUME BoundsAssumption == MaxFrames \in Nat /\ MaxClock \in Nat
\* Config::validate rejects limits that are zero.
ASSUME LimitsAssumption ==
    /\ MaxEvents \in Nat \ {0}
    /\ MaxState \in Nat \ {0}
    /\ IdleTimeout \in Nat \ {0}
    /\ MaxDuration \in Nat \ {0}

VARIABLES
    pipeline,       \* which chain this response got
    now,            \* tokio's clock
    arrived,        \* chunks that reached the proxy and were not read yet
    upstream,       \* "open", or how the upstream ended
    produced,       \* every frame the upstream sent, in order
    client,         \* "reading" or "gone"
    cancelled,      \* the downstream cancellation token
    pc,             \* where the connection task stands
    buffer,         \* frames of the chunk being drained
    idleAt,         \* StreamLimitTimers.idle_sleep
    eventsSeen,     \* events_seen
    stateBytes,     \* StreamState::accumulated_bytes
    terminalSent,   \* StreamState.responses_terminal_sent
    response,       \* StreamState.responses_terminal_response is Some
    disqualified,   \* capture_disqualified
    queue,          \* output_queue
    closing,        \* close_after_output
    limit,          \* the StreamResourceLimit that ended the stream; a raw client is not told
    capture,        \* the bridge's capture candidate and what became of it
    held,           \* pending_after_commit
    sent,           \* frames handed to the client's connection
    tracker,        \* how the RequestTracker finished
    hook,           \* transport outcome the HookCaptureStream reported
    trace           \* transport outcome the DebugTraceStream reported

outsideVars == <<arrived, upstream, produced, client>>
translatorVars == <<buffer, idleAt, eventsSeen, stateBytes, terminalSent, response,
                    disqualified, queue, closing, limit>>
captureVars == <<capture, held>>
outcomeVars == <<tracker, hook, trace>>
vars == <<pipeline, now, outsideVars, cancelled, pc, translatorVars, captureVars,
          sent, outcomeVars>>

-----------------------------------------------------------------------------
Frames == {"delta", "completed", "incomplete", "failed", "odd"}
Chunks == {<<f>> : f \in FrameKinds[pipeline]} \cup (FrameKinds[pipeline] \X FrameKinds[pipeline])
Limits == {"events", "state", "frame", "idle", "duration"}
Outcomes == {"eof", "stream_error", "client_disconnected"}

TypeOK ==
    /\ pipeline \in Pipelines
    /\ now \in 0..MaxClock
    /\ arrived \in Seq(Chunks)
    /\ upstream \in {"open", "eof", "error"}
    /\ produced \in Seq(FrameKinds[pipeline])
    /\ client \in {"reading", "gone"}
    /\ cancelled \in BOOLEAN
    /\ pc \in {"parked", "commit", "stream", "drain", "ended", "failed", "dropped"}
    /\ buffer \in Seq(FrameKinds[pipeline])
    /\ idleAt \in Nat
    /\ eventsSeen \in 0..MaxEvents
    /\ stateBytes \in Nat
    /\ terminalSent \in BOOLEAN
    /\ response \in BOOLEAN
    /\ disqualified \in BOOLEAN
    /\ queue \in Seq(Frames)
    /\ closing \in BOOLEAN
    /\ limit \in Limits \cup {"none"}
    /\ capture \in {"off", "armed", "committing", "stored", "refused", "released"}
    /\ held \in Seq(Frames)
    /\ sent \in Seq(Frames)
    /\ tracker \in {"open", "success", "error", "cancelled"}
    /\ hook \in Outcomes \cup {"open"}
    /\ trace \in Outcomes \cup {"open"}

\* The response's status was a success and its body an event stream: the chain
\* is built, and only a translated first request has a capture candidate.
Init ==
    /\ pipeline \in Pipelines
    /\ now = 0
    /\ arrived = <<>>
    /\ upstream = "open"
    /\ produced = <<>>
    /\ client = "reading"
    /\ cancelled = FALSE
    /\ pc = "parked"
    /\ buffer = <<>>
    /\ idleAt = IdleTimeout
    /\ eventsSeen = 0
    /\ stateBytes = 0
    /\ terminalSent = FALSE
    /\ response = FALSE
    /\ disqualified = FALSE
    /\ queue = <<>>
    /\ closing = FALSE
    /\ limit = "none"
    /\ capture \in IF pipeline = "translated" THEN {"off", "armed"} ELSE {"off"}
    /\ held = <<>>
    /\ sent = <<>>
    /\ tracker = "open"
    /\ hook = "open"
    /\ trace = "open"

-----------------------------------------------------------------------------
(* The outside world *)

\* The upstream sends a chunk of one or two frames.
Arrive(chunk) ==
    /\ upstream = "open"
    /\ Len(produced) + Len(chunk) <= MaxFrames
    /\ arrived' = Append(arrived, chunk)
    /\ produced' = produced \o chunk
    /\ UNCHANGED <<pipeline, now, upstream, client, cancelled, pc, translatorVars,
                   captureVars, sent, outcomeVars>>

UpstreamEnds(how) ==
    /\ upstream = "open"
    /\ upstream' = how
    /\ UNCHANGED <<pipeline, now, arrived, produced, client, cancelled, pc,
                   translatorVars, captureVars, sent, outcomeVars>>

Tick ==
    /\ now < MaxClock
    /\ now' = now + 1
    /\ UNCHANGED <<pipeline, outsideVars, cancelled, pc, translatorVars, captureVars,
                   sent, outcomeVars>>

Disconnect ==
    /\ client = "reading"
    /\ client' = "gone"
    /\ UNCHANGED <<pipeline, now, arrived, upstream, produced, cancelled, pc,
                   translatorVars, captureVars, sent, outcomeVars>>

\* watch_downstream_disconnect peeks the end of the connection.
WatcherCancels ==
    /\ client = "gone"
    /\ ~ cancelled
    /\ cancelled' = TRUE
    /\ UNCHANGED <<pipeline, now, outsideVars, pc, translatorVars, captureVars, sent,
                   outcomeVars>>

-----------------------------------------------------------------------------
(* What the wrappers do with the end of the stream *)

FirstOf(outcome, reported) == IF outcome = "open" THEN reported ELSE outcome

\* The bridge's capture stream forgets its candidate.
ReleaseCandidate ==
    /\ capture' = IF capture \in {"armed", "committing"} THEN "released" ELSE capture
    /\ held' = <<>>

\* Mutant: the trace wrapper does not finalize on None.
EndWithoutTrace ==
    /\ pc' = "ended"
    /\ tracker' = FirstOf(tracker, "success")
    /\ hook' = FirstOf(hook, "eof")
    /\ trace' = trace
    /\ ReleaseCandidate

\* None passes every wrapper: each one finalizes as a complete stream.
EndOfStream ==
    /\ pc' = "ended"
    /\ tracker' = FirstOf(tracker, "success")
    /\ hook' = FirstOf(hook, "eof")
    /\ trace' = FirstOf(trace, "eof")
    /\ ReleaseCandidate

\* An error passes every wrapper.
ErrorOfStream ==
    /\ pc' = "failed"
    /\ tracker' = FirstOf(tracker, "error")
    /\ hook' = FirstOf(hook, "stream_error")
    /\ trace' = FirstOf(trace, "stream_error")
    /\ ReleaseCandidate

-----------------------------------------------------------------------------
(* TrackedBodyStream *)

\* The connection task polls the body: the cancellation token first.
PollBody ==
    /\ pc = "parked"
    /\ IF cancelled
       THEN /\ pc' = "ended"
            /\ tracker' = FirstOf(tracker, "cancelled")
       ELSE /\ pc' = IF capture = "committing" THEN "commit" ELSE "stream"
            /\ UNCHANGED tracker
    /\ UNCHANGED <<pipeline, now, outsideVars, cancelled, translatorVars, captureVars,
                   sent, hook, trace>>

\* The connection drops the body: it ended, it failed, or the client is gone.
\* Whatever was not finalized is finalized as a disconnect, and a body that had
\* not ended cancels the token.
DropBody ==
    /\ pc \in {"ended", "failed"} \/ (pc = "parked" /\ client = "gone")
    /\ pc' = "dropped"
    /\ tracker' = FirstOf(tracker, "cancelled")
    /\ hook' = FirstOf(hook, "client_disconnected")
    /\ trace' = FirstOf(trace, "client_disconnected")
    /\ cancelled' = (cancelled \/ pc # "ended")
    /\ ReleaseCandidate
    /\ UNCHANGED <<pipeline, now, outsideVars, translatorVars, sent>>

-----------------------------------------------------------------------------
(* The translating or guarding stream, and the bridge's capture around it *)

DurationOver == now >= MaxDuration
IdleOver == now >= idleAt
\* Mutant: the chain has no timers.
NoTimers == FALSE

TimersOver == DurationOver \/ IdleOver
TimerLimit == IF DurationOver THEN "duration" ELSE "idle"

\* The head of poll_next when there is nothing left to hand over.
ReadyToRead == pc = "stream" /\ queue = <<>> /\ ~ closing

\* Mutant: the commit is left for later, no frame waits for it.
PopOutputFirst ==
    /\ pc = "stream"
    /\ queue # <<>>
    /\ queue' = Tail(queue)
    /\ pc' = "parked"
    /\ sent' = Append(sent, Head(queue))
    /\ UNCHANGED <<response, captureVars>>
    /\ UNCHANGED <<pipeline, now, outsideVars, cancelled, buffer, idleAt, eventsSeen,
                   stateBytes, terminalSent, disqualified, closing, limit, outcomeVars>>

\* A queued frame goes out. The first one to come out once a completed response
\* was translated is held back until the bridge has committed that response.
PopOutput ==
    /\ pc = "stream"
    /\ queue # <<>>
    /\ queue' = Tail(queue)
    /\ IF capture = "armed" /\ response /\ ~ disqualified
       THEN /\ pc' = "commit"
            /\ capture' = "committing"
            /\ held' = <<Head(queue)>>
            /\ response' = FALSE
            /\ UNCHANGED sent
       ELSE /\ pc' = "parked"
            /\ sent' = Append(sent, Head(queue))
            /\ response' = (response /\ capture # "armed")
            /\ UNCHANGED captureVars
    /\ UNCHANGED <<pipeline, now, outsideVars, cancelled, buffer, idleAt, eventsSeen,
                   stateBytes, terminalSent, disqualified, closing, limit, outcomeVars>>

\* commit_conversation_state_bridge_capture: the store takes the response, or it
\* refuses it (memory limit); the held frame goes out in both cases.
ResolveCommit(result) ==
    /\ pc = "commit"
    /\ pc' = "parked"
    /\ capture' = result
    /\ held' = <<>>
    /\ sent' = sent \o held
    /\ UNCHANGED <<pipeline, now, outsideVars, cancelled, translatorVars, outcomeVars>>

\* The store's mutex is taken: the commit stays pending.
CommitPending ==
    /\ pc = "commit"
    /\ pc' = "parked"
    /\ UNCHANGED <<pipeline, now, outsideVars, cancelled, translatorVars, captureVars,
                   sent, outcomeVars>>

CloseAfterOutput ==
    /\ pc = "stream"
    /\ queue = <<>>
    /\ closing
    /\ EndOfStream
    /\ UNCHANGED <<pipeline, now, outsideVars, cancelled, translatorVars, sent>>

\* reject_stream_resource_limit
RejectLimit(which, output) ==
    /\ queue' = Append(output, "failed")
    /\ terminalSent' = TRUE
    /\ disqualified' = TRUE
    /\ closing' = TRUE
    /\ limit' = which
    /\ buffer' = <<>>

\* A timer is over. The raw chain only ends the outermost stream, and tells its
\* client nothing: the hook and trace wrappers inside it do not see the end.
TimerExpires ==
    /\ ReadyToRead
    /\ TimersOver
    /\ IF pipeline = "raw"
       THEN /\ pc' = "ended"
            /\ tracker' = FirstOf(tracker, "success")
            /\ limit' = TimerLimit
            /\ UNCHANGED <<hook, trace, buffer, idleAt, eventsSeen, stateBytes, terminalSent,
                           response, disqualified, queue, closing>>
       ELSE /\ RejectLimit(TimerLimit, queue)
            /\ UNCHANGED <<pc, idleAt, eventsSeen, stateBytes, response, outcomeVars>>
    /\ UNCHANGED <<pipeline, now, outsideVars, cancelled, captureVars, sent>>

\* How a frame reads on the client's side when it is passed through unchanged.
Unchanged(f) ==
    CASE f = "finish" -> "completed"
      [] f = "error" -> "failed"
      [] f \in {"reject", "huge"} -> "delta"
      [] OTHER -> f

Rendered(frames) == [i \in DOMAIN frames |-> Unchanged(frames[i])]

\* The inner stream has a chunk: raw bytes go straight out, others are drained.
ReadChunk ==
    /\ ReadyToRead
    /\ ~ TimersOver
    /\ arrived # <<>>
    /\ arrived' = Tail(arrived)
    /\ idleAt' = now + IdleTimeout
    /\ IF pipeline = "raw"
       THEN /\ sent' = sent \o Rendered(Head(arrived))
            /\ pc' = "parked"
            /\ UNCHANGED buffer
       ELSE /\ buffer' = Head(arrived)
            /\ pc' = "drain"
            /\ UNCHANGED sent
    /\ UNCHANGED <<pipeline, now, upstream, produced, client, cancelled, eventsSeen,
                   stateBytes, terminalSent, response, disqualified, queue, closing,
                   limit, captureVars, outcomeVars>>

\* Mutant: the end of the upstream overtakes the chunks that arrived before it.
ReadNothingEarly ==
    /\ ReadyToRead
    /\ ~ TimersOver
    /\ \/ upstream = "open" /\ pc' = "parked" /\ UNCHANGED <<captureVars, outcomeVars>>
       \/ upstream = "eof" /\ EndOfStream
    /\ UNCHANGED <<pipeline, now, outsideVars, cancelled, translatorVars, sent>>

\* The inner stream is pending, at its end, or failed.
ReadNothing ==
    /\ ReadyToRead
    /\ ~ TimersOver
    /\ arrived = <<>>
    /\ \/ upstream = "open" /\ pc' = "parked" /\ UNCHANGED <<captureVars, outcomeVars>>
       \/ upstream = "eof" /\ EndOfStream
       \/ upstream = "error" /\ ErrorOfStream
    /\ UNCHANGED <<pipeline, now, outsideVars, cancelled, translatorVars, sent>>

-----------------------------------------------------------------------------
(* Draining the frames of a chunk *)

\* What a frame becomes in the client's protocol: the last output items are
\* closed before the terminal event.
Translated(f) ==
    CASE f = "delta" -> <<"delta">>
      [] f = "finish" -> <<"delta", "completed">>
      [] f = "incomplete" -> <<"delta", "incomplete">>

\* translate_sse_event on content or on the end of the turn, and the check of
\* the accumulated state that follows it.
TranslateFrame(f) ==
    /\ f \in {"delta", "finish", "incomplete"}
    /\ stateBytes' = stateBytes + (IF f = "delta" THEN 1 ELSE 0)
    /\ response' = (response \/ (f = "finish" /\ ~ terminalSent))
    /\ IF stateBytes' + (IF response' THEN 1 ELSE 0) > MaxState
       THEN RejectLimit("state", <<>>)
       ELSE /\ queue' = queue \o (IF terminalSent THEN <<>> ELSE Translated(f))
            /\ terminalSent' = (terminalSent \/ f # "delta")
            /\ buffer' = Tail(buffer)
            /\ UNCHANGED <<disqualified, closing, limit>>

\* Mutant: an error event does not stop the drain.
FailFrameOpen(f) ==
    /\ f \in {"error", "reject"}
    /\ queue' = Append(queue, "failed")
    /\ buffer' = Tail(buffer)
    /\ disqualified' = TRUE
    /\ UNCHANGED <<terminalSent, closing, stateBytes, response, limit>>

\* An error event of the upstream always fails the stream; a frame that fails
\* validation adds no second terminal. Nothing buffered behind it is read.
FailFrame(f) ==
    /\ f \in {"error", "reject"}
    /\ queue' = IF f = "reject" /\ terminalSent THEN queue ELSE Append(queue, "failed")
    /\ terminalSent' = TRUE
    /\ disqualified' = TRUE
    /\ closing' = TRUE
    /\ buffer' = <<>>
    /\ UNCHANGED <<stateBytes, response, limit>>

\* Data that cannot be parsed is skipped, but the response is not replayable.
SkipFrame(f) ==
    /\ f = "odd"
    /\ disqualified' = TRUE
    /\ buffer' = Tail(buffer)
    /\ UNCHANGED <<stateBytes, terminalSent, response, queue, closing, limit>>

\* GuardedSseStream passes every frame through, up to one that fails validation.
GuardFrame(f) ==
    /\ queue' = Append(queue, IF f = "reject" THEN "failed" ELSE Unchanged(f))
    /\ closing' = (f = "reject")
    /\ terminalSent' = (terminalSent \/ f = "reject")
    /\ buffer' = IF f = "reject" THEN <<>> ELSE Tail(buffer)
    /\ UNCHANGED <<stateBytes, response, disqualified, limit>>

\* register_sse_event_or_reject
EventLimitReached == eventsSeen + 1 > MaxEvents

DrainFrame ==
    /\ pc = "drain"
    /\ buffer # <<>>
    /\ IF Head(buffer) = "huge"
       THEN RejectLimit("frame", queue) /\ UNCHANGED <<eventsSeen, stateBytes, response>>
       ELSE IF EventLimitReached
       THEN RejectLimit("events", queue) /\ UNCHANGED <<eventsSeen, stateBytes, response>>
       ELSE /\ eventsSeen' = eventsSeen + 1
            /\ IF pipeline = "guarded"
               THEN GuardFrame(Head(buffer))
               ELSE \/ TranslateFrame(Head(buffer))
                    \/ FailFrame(Head(buffer))
                    \/ SkipFrame(Head(buffer))
    /\ UNCHANGED <<pipeline, now, outsideVars, cancelled, pc, idleAt, captureVars, sent,
                   outcomeVars>>

DrainDone ==
    /\ pc = "drain"
    /\ buffer = <<>>
    /\ pc' = "stream"
    /\ UNCHANGED <<pipeline, now, outsideVars, cancelled, translatorVars, captureVars,
                   sent, outcomeVars>>

-----------------------------------------------------------------------------
Outside ==
    \/ \E chunk \in Chunks : Arrive(chunk)
    \/ \E how \in {"eof", "error"} : UpstreamEnds(how)
    \/ Tick
    \/ Disconnect
    \/ WatcherCancels

\* The steps of the connection task, commits of the bridge apart.
ChainStep ==
    \/ PollBody
    \/ PopOutput
    \/ CloseAfterOutput
    \/ TimerExpires
    \/ ReadChunk
    \/ ReadNothing
    \/ DrainFrame
    \/ DrainDone
    \/ DropBody

Next ==
    \/ Outside
    \/ ChainStep
    \/ \E result \in {"stored", "refused"} : ResolveCommit(result)
    \/ CommitPending

\* Time passes; the client reads or its connection is dropped, so the body is
\* polled again; the store's mutex is fair. The upstream may stall for ever.
Fairness ==
    /\ WF_vars(Tick)
    /\ WF_vars(ChainStep)
    /\ SF_vars(\E result \in {"stored", "refused"} : ResolveCommit(result))

Spec == Init /\ [][Next]_vars
FairSpec == Spec /\ Fairness

-----------------------------------------------------------------------------
(* Properties *)

Has(frames, f) == \E i \in DOMAIN frames : frames[i] = f

Terminals == {"completed", "incomplete", "failed"}

\* A translated stream tells its client at most once that the response
\* completed, and after `response.failed` it says nothing more, whatever the
\* upstream, the limits or the timers do (translate_sse_event, RejectLimit).
FailedIsFinal ==
    pipeline = "translated" =>
        /\ \A i, j \in DOMAIN sent :
                i < j => sent[i] # "failed" /\ {sent[i], sent[j]} # {"completed"}
        /\ (Has(sent, "failed") => queue = <<>> /\ held = <<>>)

\* A response the bridge may replay is committed before its completion reaches
\* the client: a completion that goes out ahead of any attempt to commit belongs
\* to a stream disqualified from replay (ConversationStateBridgeCaptureStream).
CommitBeforeCompleted ==
    (Has(sent, "completed") /\ capture = "armed") => disqualified

\* Only a response that completed is stored: the completion is queued for the client
\* or was handed over, and a stream that failed instead of completing left nothing to
\* replay.
StoredOnlyIfCompleted ==
    capture = "stored" =>
        Has(sent, "completed") \/ Has(queue, "completed")

\* What a client was told is complete can be continued, and nothing else can
\* (ConversationStateBridgeCaptureStream).
CompletedIsReplayable == CommitBeforeCompleted /\ StoredOnlyIfCompleted

\* Once the body is dropped every observer has an outcome of its own.
DroppedIsFinal ==
    pc = "dropped" => "open" \notin {tracker, hook, trace}

\* The pairs of a tracker's and a hook's outcome that mean the same.
SameOutcome == {<<"success", "eof">>, <<"error", "stream_error">>,
                <<"cancelled", "client_disconnected">>}

\* A timer ended the raw chain from the outside (ResourceLimitedStream).
TimedOutOutside == pipeline = "raw" /\ limit \in {"idle", "duration"}

\* The three observers of a body report the same transport outcome, each in its own
\* terms: nobody counts a success where another reports a broken stream. Only where a
\* timer ended the raw chain from the outside, and then always, the tracker counts a
\* success while hook and trace, dropped with the body, report a lost client.
ObserversAgree ==
    pc = "dropped" =>
        /\ hook = trace
        /\ IF TimedOutOutside THEN <<tracker, hook>> = <<"success", "client_disconnected">>
           ELSE <<tracker, hook>> \in SameOutcome

\* Unless a timer ended the raw chain from the outside, a stream is reported as
\* cancelled by the client only if the client went away (TrackedBodyStream's Drop,
\* HookCaptureStream's and DebugTraceStream's).
CancelReportsAreTrue ==
    ~ TimedOutOutside /\ ("client_disconnected" \in {hook, trace} \/ tracker = "cancelled")
        => client = "gone"

\* A stream that ends as a success without a limit delivered all there was: the
\* upstream's frames unchanged, or a terminal for the turn the upstream ended.
CleanEndIsComplete ==
    (pc = "ended" /\ tracker = "success" /\ hook = "eof" /\ ~ closing) =>
        IF pipeline = "translated"
        THEN (\E f \in {"finish", "incomplete"} : Has(produced, f))
                => \E t \in {"completed", "incomplete"} : Has(sent, t)
        ELSE sent = Rendered(produced)

\* An outcome, once reported, is never reported differently, and a dropped body
\* hands over nothing more.
OutcomesAreStable ==
    [][/\ tracker # "open" => tracker' = tracker
       /\ hook # "open" => hook' = hook
       /\ trace # "open" => trace' = trace
       /\ pc = "dropped" => sent' = sent]_vars

\* Every stream ends, even one whose upstream stalls for ever: the timers release
\* the connection in all three chains.
EveryStreamEnds == <>(pc = "dropped")
=============================================================================
