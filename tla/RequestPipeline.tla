--------------------------- MODULE RequestPipeline --------------------------
(***************************************************************************)
(* A request from its arrival to the drop of its tracker: the handler that *)
(* generates a response and the one of the stored-response resources.      *)
(*                                                                         *)
(* A handler runs between its awaits without interruption by its own       *)
(* client; while it awaits, or its streamed body is waiting to be polled,  *)
(* a client that goes away may be noticed (the token is cancelled) or the  *)
(* connection may drop the handler and all it holds.                       *)
(*                                                                         *)
(* What is inside a streamed body is StreamDelivery's subject, what the    *)
(* store holds ConversationBridge's; hooks and the debug trace are taken   *)
(* to be configured.                                                       *)
(***************************************************************************)
EXTENDS RuntimeMetrics

CONSTANT
    UnreadBodies    \* clients send a body to operations whose handlers take none

ASSUME UnreadBodiesAssumption == UnreadBodies \in BOOLEAN

VARIABLES
    phase,          \* where the handler of a request stands
    kind,           \* "generate" or "resource"
    client,         \* client[r]: "present" or "gone"
    token,          \* token[r]: the downstream cancellation token is cancelled
    expanded,       \* the body was expanded with a stored history
    candidate,      \* bridge_capture_candidate
    raw,            \* zero_transform_forwarding_active
    reply,          \* response_status, of a response that was translated
    captured,       \* the turn is in the conversation store
    hook            \* what the hooks, and the debug trace with them, were told of a
                    \* response that is not streamed

flowVars == <<kind, client, token, expanded, candidate, raw, reply, captured, hook>>
vars == <<metricsVars, phase, flowVars>>

Awaiting == {"preload", "send", "reading", "reading_error", "commit"}
Phases == Awaiting \cup {"idle", "validate", "route", "build", "translate", "report", "body",
                         "returning", "closed"}

TypeOK ==
    /\ MetricsTypeOK
    /\ phase \in [Requests -> Phases]
    /\ kind \in [Requests -> {"generate", "resource"}]
    /\ client \in [Requests -> {"present", "gone"}]
    /\ token \in [Requests -> BOOLEAN]
    /\ expanded \in [Requests -> BOOLEAN]
    /\ candidate \in [Requests -> BOOLEAN]
    /\ raw \in [Requests -> BOOLEAN]
    /\ reply \in [Requests -> {"none", "success", "error"}]
    /\ captured \in [Requests -> BOOLEAN]
    /\ hook \in [Requests -> {"none", "success", "error"}]

Init ==
    /\ MetricsInit
    /\ phase = [r \in Requests |-> "idle"]
    /\ kind = [r \in Requests |-> "generate"]
    /\ client = [r \in Requests |-> "present"]
    /\ token = [r \in Requests |-> FALSE]
    /\ expanded = [r \in Requests |-> FALSE]
    /\ candidate = [r \in Requests |-> FALSE]
    /\ raw = [r \in Requests |-> FALSE]
    /\ reply = [r \in Requests |-> "none"]
    /\ captured = [r \in Requests |-> FALSE]
    /\ hook = [r \in Requests |-> "none"]

-----------------------------------------------------------------------------
GoTo(r, p) == phase' = [phase EXCEPT ![r] = p]

\* The handler finishes the tracker and returns; its locals are dropped next.
Answer(r, outcome) == Finish(r, outcome) /\ GoTo(r, "returning")

Reject(r) == Answer(r, "error") /\ UNCHANGED flowVars

\* Moves on without an await.
Continue(r, p) == GoTo(r, p) /\ UNCHANGED <<metricsVars, flowVars>>

-----------------------------------------------------------------------------
(* Before the upstream is called *)

\* The guard of a request body cancels the token when the body is dropped before
\* its end. A resource operation without a body drops it before its handler runs.
UnreadBodyDropped(r, k) ==
    IF UnreadBodies /\ k = "resource" THEN {[token EXCEPT ![r] = TRUE]} ELSE {}

\* The request was authorized. A request for a namespace that is not configured
\* is counted if it is one for a resource, and not if it is to generate.
Arrive(r) ==
    /\ phase[r] = "idle"
    /\ \E k \in {"generate", "resource"}, s \in BOOLEAN :
          /\ kind' = [kind EXCEPT ![r] = k]
          /\ token' \in {token} \cup UnreadBodyDropped(r, k)
          /\ \/ StartRequest(r, s) /\ GoTo(r, "validate")
             \/ k = "generate" /\ GoTo(r, "closed") /\ UNCHANGED metricsVars
    /\ UNCHANGED <<client, expanded, candidate, raw, reply, captured, hook>>

\* An internal tool-bridge context in the body, an invalid resource body, no
\* upstream or more than one that owns the resource; or the request goes on, one
\* with a local previous_response_id to the store.
Validate(r) ==
    /\ phase[r] = "validate"
    /\ \/ Reject(r)
       \/ Continue(r, "route")
       \/ kind[r] = "generate" /\ Continue(r, "preload")

\* preload_local_bridge_response awaits the store's mutex.
Preload(r) ==
    /\ phase[r] = "preload"
    /\ \/ Reject(r)
       \/ /\ expanded' = [expanded EXCEPT ![r] = TRUE]
          /\ GoTo(r, "route")
          /\ UNCHANGED <<metricsVars, kind, client, token, candidate, raw, reply, captured, hook>>

\* The model is resolved to an upstream. It fails if the model is not known, the
\* stored route is no longer the one of the request, or there is no such upstream.
Route(r) ==
    /\ phase[r] = "route"
    /\ \/ Reject(r)
       \/ /\ \E u \in Upstreams : SetUpstream(r, u)
          /\ GoTo(r, "build")
          /\ UNCHANGED flowVars

StateBridge(r, capture) ==
    IF expanded[r] THEN "expanded" ELSE IF capture THEN "capture_candidate" ELSE "off"

\* request_transformation_required; "mutates" is any change of the body that the
\* model, the route's policy, its dialect or the protocol ask for.
TransformationRequired(sameFormat, bridge, mutates) ==
    ~ sameFormat \/ bridge # "off" \/ mutates

\* Mutant: a request that cannot be built returns without finishing its tracker.
BuildForgetsToFinish(r) ==
    /\ phase[r] = "build"
    /\ \/ Continue(r, "returning")
       \/ kind[r] = "resource" /\ Continue(r, "send")
       \/ /\ kind[r] = "generate"
          /\ ~ (expanded[r] /\ streams[r])
          /\ \E sameFormat, capture, mutates \in BOOLEAN :
                /\ (expanded[r] \/ capture) => ~ sameFormat
                /\ candidate' = [candidate EXCEPT ![r] = capture]
                /\ raw' = [raw EXCEPT ![r] =
                        ~ TransformationRequired(sameFormat, StateBridge(r, capture), mutates)]
          /\ GoTo(r, "send")
          /\ UNCHANGED <<metricsVars, kind, client, token, expanded, reply, captured, hook>>

\* The upstream is not available, a local history meets a native upstream or a
\* stream, the request cannot be translated, there is no credential for it; or
\* its body is built and sent.
Build(r) ==
    /\ phase[r] = "build"
    /\ \/ Reject(r)
       \/ kind[r] = "resource" /\ Continue(r, "send")
       \/ /\ kind[r] = "generate"
          /\ ~ (expanded[r] /\ streams[r])
          /\ \E sameFormat, capture, mutates \in BOOLEAN :
                /\ (expanded[r] \/ capture) => ~ sameFormat
                /\ candidate' = [candidate EXCEPT ![r] = capture]
                /\ raw' = [raw EXCEPT ![r] =
                        ~ TransformationRequired(sameFormat, StateBridge(r, capture), mutates)]
          /\ GoTo(r, "send")
          /\ UNCHANGED <<metricsVars, kind, client, token, expanded, reply, captured, hook>>

-----------------------------------------------------------------------------
(* The upstream's answer *)

\* The token wins the race against the upstream.
Cancelled(r) == token[r] /\ Answer(r, "cancelled") /\ UNCHANGED flowVars

\* call_upstream_with_cancellation: the headers arrive, or an error or a timeout.
\* A stream whose status is a success must be an event stream; all other bodies
\* are read first.
Send(r) ==
    /\ phase[r] = "send"
    /\ \/ Reject(r)
       \/ Cancelled(r)
       \/ Continue(r, "reading_error")
       \/ Continue(r, IF streams[r] THEN "body" ELSE "reading")

\* A body is read within its limit and time; that of a failure ends the request.
Read(r) ==
    /\ phase[r] \in {"reading", "reading_error"}
    /\ \/ Reject(r)
       \/ Cancelled(r)
       \/ phase[r] = "reading" /\ Continue(r, "translate")

\* Mutant: a turn is captured before it is known whether its answer is an error.
TranslateCapturingErrors(r) ==
    /\ phase[r] = "translate"
    /\ \/ ~ raw[r] /\ Reject(r)
       \/ /\ ~ raw[r] /\ kind[r] = "generate"
          /\ \E status \in {"success", "error"} :
                /\ reply' = [reply EXCEPT ![r] = status]
                /\ GoTo(r, IF candidate[r] THEN "commit" ELSE "report")
          /\ UNCHANGED <<metricsVars, kind, client, token, expanded, candidate, raw, captured, hook>>

\* A raw response is forwarded whatever it is, and observed if it is JSON; that of
\* a resource is validated. Any other is translated, which may turn it into an
\* error, and captured if it is none.
Translate(r) ==
    /\ phase[r] = "translate"
    /\ \/ /\ raw[r]
          /\ Answer(r, "success")
          /\ hook' \in {hook, [hook EXCEPT ![r] = "success"]}
          /\ UNCHANGED <<kind, client, token, expanded, candidate, raw, reply, captured>>
       \/ /\ kind[r] = "resource"
          /\ Answer(r, "success")
          /\ UNCHANGED flowVars
       \/ ~ raw[r] /\ Reject(r)
       \/ /\ ~ raw[r] /\ kind[r] = "generate"
          /\ \E status \in {"success", "error"} :
                /\ reply' = [reply EXCEPT ![r] = status]
                /\ GoTo(r, IF status = "success" /\ candidate[r] THEN "commit" ELSE "report")
          /\ UNCHANGED <<metricsVars, kind, client, token, expanded, candidate, raw, captured, hook>>

\* commit_conversation_state_bridge_capture awaits the store's mutex. From there
\* to the end of the handler nothing awaits. A turn that is not stored is a warning.
Commit(r) ==
    /\ phase[r] = "commit"
    /\ \E stored \in BOOLEAN : captured' = [captured EXCEPT ![r] = stored]
    /\ GoTo(r, "report")
    /\ UNCHANGED <<metricsVars, kind, client, token, expanded, candidate, raw, reply, hook>>

\* Mutant: the tracker is told the upstream's status, not the translated one.
ReportUpstreamStatus(r) ==
    /\ phase[r] = "report"
    /\ hook' = [hook EXCEPT ![r] = reply[r]]
    /\ Answer(r, "success")
    /\ UNCHANGED <<kind, client, token, expanded, candidate, raw, reply, captured>>

\* The hooks, the debug trace and the tracker see the same status.
Report(r) ==
    /\ phase[r] = "report"
    /\ hook' = [hook EXCEPT ![r] = reply[r]]
    /\ Answer(r, reply[r])
    /\ UNCHANGED <<kind, client, token, expanded, candidate, raw, reply, captured>>

\* Mutant: a raw stream without the timers, from an upstream that never ends it.
EndBodyByClient(r) == phase[r] = "body" /\ Cancelled(r)

\* TrackedBodyStream: the stream ends, fails, or the token is cancelled.
EndBody(r) ==
    /\ phase[r] = "body"
    /\ \/ Answer(r, "success") /\ UNCHANGED flowVars
       \/ Reject(r)
       \/ Cancelled(r)

-----------------------------------------------------------------------------
(* The end, and the client *)

\* The locals of a handler that returned, or what a dropped one held.
Return(r) ==
    /\ phase[r] = "returning"
    /\ DropTracker(r)
    /\ GoTo(r, "closed")
    /\ kind' = [kind EXCEPT ![r] = "generate"]
    /\ token' = [token EXCEPT ![r] = FALSE]
    /\ expanded' = [expanded EXCEPT ![r] = FALSE]
    /\ candidate' = [candidate EXCEPT ![r] = FALSE]
    /\ raw' = [raw EXCEPT ![r] = FALSE]
    /\ reply' = [reply EXCEPT ![r] = "none"]
    /\ UNCHANGED <<client, captured, hook>>

\* The connection is gone: the handler is dropped where it waits, or the body.
DropHandler(r) ==
    /\ phase[r] \in Awaiting \cup {"body"}
    /\ client[r] = "gone"
    /\ Continue(r, "returning")

\* The client goes away; after the handler and the body it no longer matters.
GoAway(r) ==
    /\ client[r] = "present"
    /\ phase[r] \notin {"idle", "returning", "closed"}
    /\ client' = [client EXCEPT ![r] = "gone"]
    /\ UNCHANGED <<metricsVars, phase, kind, token, expanded, candidate, raw, reply, captured, hook>>

\* The connection's watcher sees it.
Notice(r) ==
    /\ client[r] = "gone" /\ ~ token[r]
    /\ phase[r] \notin {"returning", "closed"}
    /\ token' = [token EXCEPT ![r] = TRUE]
    /\ UNCHANGED <<metricsVars, phase, kind, client, expanded, candidate, raw, reply, captured, hook>>

-----------------------------------------------------------------------------
\* What the handler, its body and their drop do without the client.
HandlerStep(r) ==
    \/ Validate(r) \/ Preload(r) \/ Route(r) \/ Build(r)
    \/ Send(r) \/ Read(r) \/ Translate(r) \/ Commit(r) \/ Report(r)
    \/ EndBody(r) \/ Return(r)

Next ==
    \E r \in Requests :
        \/ Arrive(r)
        \/ HandlerStep(r)
        \/ DropHandler(r)
        \/ GoAway(r)
        \/ Notice(r)

\* A handler is polled when it can go on. What it awaits comes: the store's mutex
\* is held for single calls, the upstream's headers and bodies have timeouts, and
\* a streamed body a longest duration.
Fairness == \A r \in Requests : WF_vars(HandlerStep(r))

Spec == Init /\ [][Next]_vars
FairSpec == Spec /\ Fairness

-----------------------------------------------------------------------------
(* Properties *)

\* A request is counted as cancelled only if its client went away: no return of a
\* handler leaves it to the drop of the tracker, which counts a cancellation.
CancelledOnlyIfGone ==
    \A r \in Requests : tracker[r] = "cancelled" => client[r] = "gone"

\* The hooks, the debug trace and the counters agree on a response that is not
\* streamed: a response that was reported is counted with the status reported.
ObserversAgree ==
    \A r \in Requests : hook[r] # "none" => tracker[r] = hook[r]

\* What the store keeps was answered: a turn whose client is gone before the
\* capture is not stored and counted as cancelled, or the other way round.
CapturedIsAnswered ==
    \A r \in Requests : captured[r] /\ phase[r] \in {"returning", "closed"}
        => tracker[r] = "success" /\ hook[r] = "success"

\* Every request that is counted as active is counted with an outcome in the end.
EveryRequestFinishes ==
    \A r \in Requests : tracker[r] = "running" ~> tracker[r] \in Outcomes
=============================================================================
