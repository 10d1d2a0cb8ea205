---------------------------- MODULE HookDelivery ----------------------------
(***************************************************************************)
(* Delivery of the best-effort `exchange` and `usage` hooks (hooks.rs):    *)
(* the HookDispatcher that request handlers call, the HookRuntime the two  *)
(* senders share (byte budget and one circuit breaker per kind), and the   *)
(* tasks that build and post the payloads.                                 *)
(*                                                                         *)
(* A request emits its exchange hook and then its usage hook on its own    *)
(* thread; each delivery that passes the breaker becomes a task that       *)
(* reserves the payload's bytes, posts, records the answer and releases.   *)
(* The breaker's mutex makes one breaker update one step; the byte counter *)
(* is an atomic updated by a load and a compare-and-exchange, two steps.   *)
(* Payload contents are abstracted to their serialized size.               *)
(***************************************************************************)
EXTENDS Integers, FiniteSets

CONSTANTS
    Requests,           \* requests whose observability hooks are emitted
    Configured,         \* the hook kinds with an endpoint
    Sizes,              \* serialized payload sizes
    MaxPendingBytes,    \* hooks.max_pending_bytes
    FailureThreshold,   \* hooks.failure_threshold
    Cooldown,           \* hooks.cooldown, in clock ticks
    MaxClock            \* bound on the clock

Kinds == {"exchange", "usage"}

ASSUME RequestsFinite == IsFiniteSet(Requests)
\* HookDispatcher::new builds a runtime only if some hook is configured.
ASSUME ConfiguredAssumption == Configured \subseteq Kinds /\ Configured # {}
ASSUME SizesAssumption == Sizes \subseteq Nat \ {0}
ASSUME MaxPendingAssumption == MaxPendingBytes \in Nat
\* Config::validate rejects a zero threshold and a zero cooldown.
ASSUME ThresholdAssumption == FailureThreshold \in Nat \ {0}
ASSUME CooldownAssumption == Cooldown \in Nat \ {0}
ASSUME ClockAssumption == MaxClock \in Nat

VARIABLES
    now,            \* Instant::now()
    pendingBytes,   \* HookRuntime.pending_bytes
    failures,       \* HookBreakerState: consecutive_failures of each kind
    openUntil,      \* HookBreakerState: open_until of each kind
    phase,          \* where each request's emission stands
    captured,       \* HookCaptureStream.exchange_capture is Some
    stage,          \* where each delivery stands
    size,           \* payload_len of a delivery, 0 when it has none
    seen,           \* `current` in the try_reserve loop of a delivery
    outcome         \* how the POST of a delivery ended

breakerVars == <<failures, openUntil>>
requestVars == <<phase, captured>>
deliveryVars == <<stage, size, seen, outcome>>
vars == <<now, pendingBytes, breakerVars, requestVars, deliveryVars>>

-----------------------------------------------------------------------------
\* A delivery is the hook of one kind of one request.
Deliveries == Kinds \X Requests

\* The open_until of a breaker that is closed (None).
Closed == 0

\* "idle": nothing emitted; "streaming": a HookCaptureStream is live;
\* "finalizing": the exchange hook was emitted, the usage hook comes next.
Phases == {"idle", "streaming", "finalizing", "done"}

\* none       not emitted yet
\* skipped    not configured, nothing captured, or the breaker was open
\* building   the payload is being built off the request path
\* reserving  at the head of the try_reserve loop
\* swapping   loaded pending_bytes, about to compare-and-exchange
\* dropped    no room, or the payload could not be built
\* sending    bytes reserved, the POST is under way
\* answered   the answer is recorded, the bytes are still reserved
\* finished   the bytes are released
Stages == {"none", "skipped", "building", "reserving", "swapping", "dropped",
           "sending", "answered", "finished"}

Outcomes == {"success", "client_error", "failure"}

TypeOK ==
    /\ now \in 0..MaxClock
    /\ pendingBytes \in Nat
    /\ failures \in [Kinds -> Nat]
    /\ openUntil \in [Kinds -> Nat]
    /\ phase \in [Requests -> Phases]
    /\ captured \in [Requests -> BOOLEAN]
    /\ stage \in [Deliveries -> Stages]
    /\ size \in [Deliveries -> Sizes \cup {0}]
    /\ seen \in [Deliveries -> Nat]
    /\ outcome \in [Deliveries -> Outcomes \cup {"none"}]

Init ==
    /\ now = 0
    /\ pendingBytes = 0
    /\ failures = [k \in Kinds |-> 0]
    /\ openUntil = [k \in Kinds |-> Closed]
    /\ phase = [r \in Requests |-> "idle"]
    /\ captured = [r \in Requests |-> FALSE]
    /\ stage = [d \in Deliveries |-> "none"]
    /\ size = [d \in Deliveries |-> 0]
    /\ seen = [d \in Deliveries |-> 0]
    /\ outcome = [d \in Deliveries |-> "none"]

-----------------------------------------------------------------------------
(* The circuit breaker *)

IsOpen(k) == openUntil[k] # Closed /\ now < openUntil[k]

CanAttempt(k) == ~ IsOpen(k)

\* Mutant: an open breaker is closed by the next attempt, elapsed or not.
CloseAtOnce(k) ==
    IF openUntil[k] # Closed THEN /\ failures' = [failures EXCEPT ![k] = 0]
                                  /\ openUntil' = [openUntil EXCEPT ![k] = Closed]
    ELSE UNCHANGED breakerVars

\* can_attempt also closes a breaker whose cooldown has elapsed.
CloseIfElapsed(k) ==
    IF openUntil[k] # Closed /\ now >= openUntil[k]
    THEN /\ failures' = [failures EXCEPT ![k] = 0]
         /\ openUntil' = [openUntil EXCEPT ![k] = Closed]
    ELSE UNCHANGED breakerVars

RecordSuccess(k) ==
    /\ failures' = [failures EXCEPT ![k] = 0]
    /\ openUntil' = [openUntil EXCEPT ![k] = Closed]

RecordFailure(k) ==
    IF failures[k] + 1 >= FailureThreshold
    THEN /\ failures' = [failures EXCEPT ![k] = 0]
         /\ openUntil' = [openUntil EXCEPT ![k] = now + Cooldown]
    ELSE /\ failures' = [failures EXCEPT ![k] = @ + 1]
         /\ UNCHANGED openUntil

\* Mutant: every answer but a success counts as a failure.
RecordAnyRefusal(k, result) ==
    \/ result = "success" /\ RecordSuccess(k)
    \/ result # "success" /\ RecordFailure(k)

\* The effect of the answer to a POST: one that is neither a success nor a
\* server error leaves the breaker alone; a transport error or a timeout counts
\* as a failure.
RecordAnswer(k, result) ==
    \/ result = "success" /\ RecordSuccess(k)
    \/ result = "failure" /\ RecordFailure(k)
    \/ result = "client_error" /\ UNCHANGED breakerVars

-----------------------------------------------------------------------------
(* Emission, on the request's own thread *)

\* wrap_stream: a streaming response gets a capture stream; its exchange is
\* captured only if the breaker and the budget allow it at this moment.
WrapStream(r) ==
    /\ phase[r] = "idle"
    /\ phase' = [phase EXCEPT ![r] = "streaming"]
    /\ IF "exchange" \in Configured
       THEN /\ CloseIfElapsed("exchange")
            /\ captured' = [captured EXCEPT ![r] =
                    CanAttempt("exchange") /\ pendingBytes < MaxPendingBytes]
       ELSE UNCHANGED <<breakerVars, captured>>
    /\ UNCHANGED <<now, pendingBytes, deliveryVars>>

\* emit_exchange, from emit_non_stream (the whole body is at hand) or from the
\* finalization of a capture stream (only if something was captured).
EmitExchange(r) ==
    /\ phase[r] \in {"idle", "streaming"}
    /\ phase' = [phase EXCEPT ![r] = "finalizing"]
    /\ IF "exchange" \in Configured /\ (phase[r] = "idle" \/ captured[r])
       THEN /\ CloseIfElapsed("exchange")
            /\ stage' = [stage EXCEPT ![<<"exchange", r>>] =
                            IF CanAttempt("exchange") THEN "building" ELSE "skipped"]
       ELSE /\ stage' = [stage EXCEPT ![<<"exchange", r>>] = "skipped"]
            /\ UNCHANGED breakerVars
    /\ UNCHANGED <<now, pendingBytes, captured, size, seen, outcome>>

\* emit_usage: the payload is serialized here, and spawn_send tries to reserve
\* its bytes before the task that posts it exists.
EmitUsage(r) ==
    /\ phase[r] = "finalizing"
    /\ phase' = [phase EXCEPT ![r] = "done"]
    /\ IF "usage" \in Configured THEN CloseIfElapsed("usage") ELSE UNCHANGED breakerVars
    /\ IF "usage" \in Configured /\ CanAttempt("usage")
       THEN /\ stage' = [stage EXCEPT ![<<"usage", r>>] = "reserving"]
            /\ \E n \in Sizes : size' = [size EXCEPT ![<<"usage", r>>] = n]
       ELSE /\ stage' = [stage EXCEPT ![<<"usage", r>>] = "skipped"]
            /\ UNCHANGED size
    /\ UNCHANGED <<now, pendingBytes, captured, seen, outcome>>

-----------------------------------------------------------------------------
(* The delivery tasks *)

\* spawn_exchange_send: the payload is replayed and serialized on a blocking
\* thread, before any byte is reserved; building it may fail.
BuildExchange(d) ==
    /\ stage[d] = "building"
    /\ \/ /\ stage' = [stage EXCEPT ![d] = "reserving"]
          /\ \E n \in Sizes : size' = [size EXCEPT ![d] = n]
       \/ /\ stage' = [stage EXCEPT ![d] = "dropped"]
          /\ UNCHANGED size
    /\ UNCHANGED <<now, pendingBytes, breakerVars, requestVars, seen, outcome>>

\* try_reserve, first half: load the counter and give up if there is no room.
LoadPending(d) ==
    /\ stage[d] = "reserving"
    /\ IF pendingBytes + size[d] > MaxPendingBytes
       THEN /\ stage' = [stage EXCEPT ![d] = "dropped"]
            /\ size' = [size EXCEPT ![d] = 0]
            /\ UNCHANGED seen
       ELSE /\ stage' = [stage EXCEPT ![d] = "swapping"]
            /\ seen' = [seen EXCEPT ![d] = pendingBytes]
            /\ UNCHANGED size
    /\ UNCHANGED <<now, pendingBytes, breakerVars, requestVars, outcome>>

\* Mutant: a plain store instead of the compare-and-exchange.
StorePending(d) ==
    /\ stage[d] = "swapping"
    /\ pendingBytes' = seen[d] + size[d]
    /\ stage' = [stage EXCEPT ![d] = "sending"]
    /\ seen' = [seen EXCEPT ![d] = 0]
    /\ UNCHANGED <<now, breakerVars, requestVars, size, outcome>>

\* Mutant: a failed exchange is tried again with the value loaded before.
SwapPendingStale(d) ==
    /\ stage[d] = "swapping"
    /\ IF pendingBytes = seen[d]
       THEN /\ pendingBytes' = seen[d] + size[d]
            /\ stage' = [stage EXCEPT ![d] = "sending"]
       ELSE UNCHANGED <<pendingBytes, stage>>
    /\ UNCHANGED <<now, breakerVars, requestVars, size, seen, outcome>>

\* try_reserve, second half: the compare-and-exchange, and the loop back to the
\* load if another task changed the counter in between.
SwapPending(d) ==
    /\ stage[d] = "swapping"
    /\ IF pendingBytes = seen[d]
       THEN /\ pendingBytes' = seen[d] + size[d]
            /\ stage' = [stage EXCEPT ![d] = "sending"]
       ELSE /\ stage' = [stage EXCEPT ![d] = "reserving"]
            /\ UNCHANGED pendingBytes
    /\ seen' = [seen EXCEPT ![d] = 0]
    /\ UNCHANGED <<now, breakerVars, requestVars, size, outcome>>

\* send: the endpoint answers, or the request fails or times out.
Answer(d, result) ==
    /\ stage[d] = "sending"
    /\ RecordAnswer(d[1], result)
    /\ stage' = [stage EXCEPT ![d] = "answered"]
    /\ outcome' = [outcome EXCEPT ![d] = result]
    /\ UNCHANGED <<now, pendingBytes, requestVars, size, seen>>

\* send, last statement: release, a saturating subtraction.
Release(d) ==
    /\ stage[d] = "answered"
    /\ pendingBytes' = IF size[d] > pendingBytes THEN 0 ELSE pendingBytes - size[d]
    /\ stage' = [stage EXCEPT ![d] = "finished"]
    /\ size' = [size EXCEPT ![d] = 0]
    /\ UNCHANGED <<now, breakerVars, requestVars, seen, outcome>>

Tick ==
    /\ now < MaxClock
    /\ now' = now + 1
    /\ UNCHANGED <<pendingBytes, breakerVars, requestVars, deliveryVars>>

-----------------------------------------------------------------------------
RequestStep(r) == WrapStream(r) \/ EmitExchange(r) \/ EmitUsage(r)

DeliveryStep(d) ==
    \/ BuildExchange(d)
    \/ LoadPending(d)
    \/ SwapPending(d)
    \/ \E result \in Outcomes : Answer(d, result)
    \/ Release(d)

Next ==
    \/ Tick
    \/ \E r \in Requests : RequestStep(r)
    \/ \E d \in Deliveries : DeliveryStep(d)

\* A request need not ever finish, but the thread that emitted the exchange goes
\* on to the usage hook, spawned tasks are scheduled, and the HTTP client's
\* timeout makes every POST end.
Fairness ==
    /\ \A r \in Requests : WF_vars(EmitUsage(r))
    /\ \A d \in Deliveries : WF_vars(DeliveryStep(d))

Spec == Init /\ [][Next]_vars
FairSpec == Spec /\ Fairness

-----------------------------------------------------------------------------
(* Properties *)

HoldsReservation(d) == stage[d] \in {"sending", "answered"}

\* The bytes each delivery holds from the budget.
Held == [d \in Deliveries |-> IF HoldsReservation(d) THEN size[d] ELSE 0]

Budget == INSTANCE ByteBudget
            WITH Owners <- Deliveries, Limit <- MaxPendingBytes, held <- Held

\* The shared counter is exactly the bytes of the payloads in flight, and never
\* above max_pending_bytes, whatever the interleaving of the reserve loops and
\* the releases of the two senders (HookRuntime::try_reserve / release).
BudgetExact ==
    /\ pendingBytes = Budget!Total(Held)
    /\ pendingBytes <= MaxPendingBytes

\* The reserve loop and the release of all tasks together behave as a budget
\* with indivisible grants.
ImplementsBudget == Budget!Spec

\* A breaker never counts up to its threshold without tripping, and its deadline
\* is never further away than one cooldown: an endpoint that recovers is tried
\* again at most one cooldown later (record_failure, can_attempt).
BreakerBounded ==
    \A k \in Kinds :
        /\ failures[k] < FailureThreshold
        /\ openUntil[k] <= now + Cooldown

Failed(k) == {r \in Requests : outcome[<<k, r>>] = "failure"}

\* The two endpoints are isolated: a breaker is open only if at least
\* failure_threshold deliveries of its own kind have failed.
OpenNeedsOwnFailures ==
    \A k \in Kinds : IsOpen(k) => Cardinality(Failed(k)) >= FailureThreshold

\* While a breaker is open its deadline only moves forward; only a successful
\* answer of its own kind, to a POST that is out, closes it early.
OpenBreakerHolds ==
    [][\A k \in Kinds :
        IsOpen(k) =>
            \/ openUntil'[k] >= openUntil[k]
            \/ \E r \in Requests : /\ stage[<<k, r>>] = "sending"
                                   /\ outcome'[<<k, r>>] = "success"]_vars

Settled(d) == stage[d] \in {"skipped", "dropped", "finished"}

\* Every emission is settled in the end (skipped, dropped or delivered): no
\* reserve loop spins for ever and no POST is left unanswered.
EveryEmissionSettles ==
    \A r \in Requests :
        (phase[r] = "finalizing") ~> \A k \in Kinds : Settled(<<k, r>>)
=============================================================================
