------------------------- MODULE ConversationBridge -------------------------
(***************************************************************************)
(* The conversation bridge: turns of the Responses protocol whose history  *)
(* the proxy keeps itself, because the upstream speaks another protocol.   *)
(*                                                                         *)
(* A turn takes its snapshot of the runtime when it is authorized, looks   *)
(* its history up in the process-wide store, is checked against the        *)
(* snapshot's route, goes upstream and commits its own history. Turns,     *)
(* reconfigurations and rotations of the data authentication interleave.   *)
(* A turn is also the response id minted for it. Lookup and commit read    *)
(* the clock before they wait for the store's lock.                        *)
(***************************************************************************)
EXTENDS BridgeContinuation

CONSTANTS
    Turns,          \* the requests to consider; a turn names its response id too
    NoTurn,         \* a request without previous_response_id
    Namespaces,
    Credentials,    \* the provider keys of the clients
    Models,         \* resolved models
    CallIds,
    Inputs,         \* the `input` of a request to consider
    Answers,        \* the `output` of a completed response to consider
    Limits,         \* the max_bytes configurations give
    LargestLimit,   \* the largest of them
    Ttl,            \* conversation_state_bridge.ttl_seconds
    MaxClock,       \* bound on the clock
    MaxRevision,    \* bound on the admin's configurations of a namespace
    MaxGeneration   \* bound on the rotations of the data authentication

ASSUME TurnsAssumption == IsFiniteSet(Turns) /\ NoTurn \notin Turns
ASSUME ItemsAssumption == Inputs \subseteq Seq(Items(CallIds)) /\ Answers \subseteq Seq(Items(CallIds))
\* ConversationStateBridgeConfig::validate rejects zero.
ASSUME LimitsAssumption ==
    /\ LargestLimit \in Nat \ {0}
    /\ Limits \subseteq 1..LargestLimit /\ LargestLimit \in Limits
    /\ Ttl \in Nat \ {0}
ASSUME BoundsAssumption == MaxClock \in Nat /\ MaxRevision \in Nat /\ MaxGeneration \in Nat

VARIABLES
    now,            \* Instant::now()
    revision,       \* revision[n]: of the namespace's configuration
    maxBytes,       \* maxBytes[n]: conversation_state_bridge.max_bytes
    native,         \* native[n]: the upstream speaks the Responses protocol
    generation,     \* of the data authentication
    phase,          \* phase[t]: where turn t stands
    namespace,      \* what the request is: its path's namespace,
    credential,     \* its provider key,
    model,          \* its resolved model
    stream,         \* and its `stream` control
    previous,       \* previous_response_id
    seenRevision,   \* the snapshot: revision, limit, upstream format, generation
    seenLimit,
    seenNative,
    seenGeneration,
    candidate,      \* the turn will be captured
    at,             \* the clock read before the lock
    transcript,     \* input; after routing all that goes upstream; then the answer too
    told,           \* response ids the client has seen
    responses,      \* StoreInner.responses: ids with an entry
    expiresAt,
    currentBytes

configVars == <<revision, maxBytes, native, generation>>
requestVars == <<namespace, credential, model, stream>>
snapshotVars == <<previous, seenRevision, seenLimit, seenNative, seenGeneration>>
storeVars == <<responses, expiresAt, currentBytes>>
vars == <<now, configVars, phase, requestVars, snapshotVars, candidate, at, transcript, told, storeVars>>

Phases == {"idle", "lookup", "route", "upstream", "commit", "replied", "refused"}

-----------------------------------------------------------------------------
(* The store's accounting *)

\* estimate_entry_size, in items.
Size(t) == Len(transcript[t])

\* The bytes of a set of entries, one element per byte.
ByteSet(S) == {b \in S \X (1..LargestLimit) : b[2] <= Size(b[1])}
Bytes(S) == Cardinality(ByteSet(S))

TypeOK ==
    /\ now \in 0..MaxClock
    /\ revision \in [Namespaces -> 0..MaxRevision]
    /\ maxBytes \in [Namespaces -> Limits]
    /\ native \in [Namespaces -> BOOLEAN]
    /\ generation \in 0..MaxGeneration
    /\ phase \in [Turns -> Phases]
    /\ namespace \in [Turns -> Namespaces]
    /\ credential \in [Turns -> Credentials]
    /\ model \in [Turns -> Models]
    /\ stream \in [Turns -> BOOLEAN]
    /\ previous \in [Turns -> Turns \cup {NoTurn}]
    /\ seenRevision \in [Turns -> 0..MaxRevision]
    /\ seenLimit \in [Turns -> Limits]
    /\ seenNative \in [Turns -> BOOLEAN]
    /\ seenGeneration \in [Turns -> 0..MaxGeneration]
    /\ candidate \in [Turns -> BOOLEAN]
    /\ at \in [Turns -> 0..MaxClock]
    /\ transcript \in [Turns -> Seq(Items(CallIds))]
    /\ told \subseteq Turns
    /\ responses \subseteq Turns
    /\ expiresAt \in [Turns -> Nat]
    /\ currentBytes \in Nat

Init ==
    /\ now = 0
    /\ revision = [n \in Namespaces |-> 0]
    /\ maxBytes \in [Namespaces -> Limits]
    /\ native = [n \in Namespaces |-> FALSE]
    /\ generation = 0
    /\ phase = [t \in Turns |-> "idle"]
    /\ namespace \in [Turns -> Namespaces]
    /\ credential \in [Turns -> Credentials]
    /\ model \in [Turns -> Models]
    /\ stream \in [Turns -> BOOLEAN]
    /\ previous = [t \in Turns |-> NoTurn]
    /\ seenRevision = [t \in Turns |-> 0]
    /\ seenLimit = [t \in Turns |-> LargestLimit]
    /\ seenNative = [t \in Turns |-> FALSE]
    /\ seenGeneration = [t \in Turns |-> 0]
    /\ candidate = [t \in Turns |-> FALSE]
    /\ at = [t \in Turns |-> 0]
    /\ transcript = [t \in Turns |-> <<>>]
    /\ told = {}
    /\ responses = {}
    /\ expiresAt = [t \in Turns |-> 0]
    /\ currentBytes = 0

-----------------------------------------------------------------------------
(* The clock and the administrator *)

Tick ==
    /\ now < MaxClock
    /\ now' = now + 1
    /\ UNCHANGED <<configVars, phase, requestVars, snapshotVars, candidate, at,
                   transcript, told, storeVars>>

\* A namespace is configured anew: a fresh revision in any case.
Reconfigure(n, limit, responsesUpstream) ==
    /\ revision[n] < MaxRevision
    /\ revision' = [revision EXCEPT ![n] = @ + 1]
    /\ maxBytes' = [maxBytes EXCEPT ![n] = limit]
    /\ native' = [native EXCEPT ![n] = responsesUpstream]
    /\ UNCHANGED <<now, generation, phase, requestVars, snapshotVars, candidate, at,
                   transcript, told, storeVars>>

\* A new generation of the data authentication: every namespace is rebuilt under
\* its revision, and its upstreams' capabilities are discovered again.
RotateAuth ==
    /\ generation < MaxGeneration
    /\ generation' = generation + 1
    /\ native' \in [Namespaces -> BOOLEAN]
    /\ UNCHANGED <<now, revision, maxBytes, phase, requestVars, snapshotVars,
                   candidate, at, transcript, told, storeVars>>

-----------------------------------------------------------------------------
(* A turn *)

SetPhase(t, p) == phase' = [phase EXCEPT ![t] = p]

\* The request is authorized: it keeps this snapshot of the runtime to its end.
\* A local id is looked up unless the upstream speaks Responses itself.
Begin(t, prev, input, wantsStore) ==
    /\ phase[t] = "idle"
    /\ previous' = [previous EXCEPT ![t] = prev]
    /\ seenRevision' = [seenRevision EXCEPT ![t] = revision[namespace[t]]]
    /\ seenLimit' = [seenLimit EXCEPT ![t] = maxBytes[namespace[t]]]
    /\ seenNative' = [seenNative EXCEPT ![t] = native[namespace[t]]]
    /\ seenGeneration' = [seenGeneration EXCEPT ![t] = generation]
    /\ candidate' = [candidate EXCEPT ![t] = wantsStore]
    /\ transcript' = [transcript EXCEPT ![t] = input]
    /\ at' = [at EXCEPT ![t] = now]
    /\ SetPhase(t, IF prev = NoTurn \/ native[namespace[t]] THEN "route" ELSE "lookup")
    /\ UNCHANGED <<now, configVars, requestVars, told, storeVars>>

\* Mutant: the owner hash leaves the generation out.
SameKeyOwner(t, p) ==
    /\ namespace[t] = namespace[p]
    /\ credential[t] = credential[p]

\* owner_hash: namespace, generation and credential.
SameOwner(t, p) ==
    /\ namespace[t] = namespace[p]
    /\ credential[t] = credential[p]
    /\ seenGeneration[t] = seenGeneration[p]

\* Mutant: an entry expires one unit early.
ExpiredEarly(p, instant) == expiresAt[p] <= instant + 1

Expired(p, instant) == expiresAt[p] <= instant

\* Mutant: an expired entry is removed and its bytes stay counted.
LookupKeepingBytes(t) ==
    /\ phase[t] = "lookup"
    /\ LET p == previous[t]
       IN  IF p \notin responses
           THEN SetPhase(t, "refused") /\ UNCHANGED storeVars
           ELSE IF Expired(p, at[t])
           THEN /\ SetPhase(t, "refused")
                /\ responses' = responses \ {p}
                /\ UNCHANGED <<expiresAt, currentBytes>>
           ELSE /\ SetPhase(t, IF SameOwner(t, p) THEN "route" ELSE "refused")
                /\ UNCHANGED storeVars
    /\ UNCHANGED <<now, configVars, requestVars, snapshotVars, candidate, at, transcript,
                   told>>

\* ConversationStateBridgeStore::get, once the lock is held.
Lookup(t) ==
    /\ phase[t] = "lookup"
    /\ LET p == previous[t]
       IN  IF p \notin responses
           THEN SetPhase(t, "refused") /\ UNCHANGED storeVars
           ELSE IF Expired(p, at[t])
           THEN /\ SetPhase(t, "refused")
                /\ responses' = responses \ {p}
                /\ currentBytes' = currentBytes - Size(p)
                /\ UNCHANGED expiresAt
           ELSE /\ SetPhase(t, IF SameOwner(t, p) THEN "route" ELSE "refused")
                /\ UNCHANGED storeVars
    /\ UNCHANGED <<now, configVars, requestVars, snapshotVars, candidate, at, transcript,
                   told>>

\* BridgeRouteConfigFingerprint: the revision decides over the surface, and only
\* turns of upstreams that are not native are captured.
SameRoute(t, p) ==
    /\ seenRevision[t] = seenRevision[p]
    /\ model[t] = model[p]

\* A continuation is forwarded only if the id is not sent to a native upstream,
\* the route is the one it was captured on, the turn does not stream, and its
\* items answer the pending calls.
MayContinue(t, p) ==
    /\ ~ seenNative[t]
    /\ SameRoute(t, p)
    /\ ~ stream[t]
    /\ ContinuationAllowed(transcript[p], transcript[t])

\* prepare_conversation_state_bridge and the checks before it.
Route(t) ==
    /\ phase[t] = "route"
    /\ LET p == previous[t]
       IN  \/ /\ p = NoTurn
              /\ candidate' = [candidate EXCEPT ![t] =
                    /\ @
                    /\ ~ seenNative[t]
                    /\ \A i \in DOMAIN transcript[t] : ~ IsOutput(transcript[t][i])]
              /\ SetPhase(t, "upstream")
              /\ UNCHANGED transcript
           \/ /\ p # NoTurn
              /\ MayContinue(t, p)
              /\ transcript' = [transcript EXCEPT ![t] = transcript[p] \o @]
              /\ SetPhase(t, "upstream")
              /\ UNCHANGED candidate
           \/ /\ p # NoTurn
              /\ ~ MayContinue(t, p)
              /\ SetPhase(t, "refused")
              /\ UNCHANGED <<candidate, transcript>>
    /\ UNCHANGED <<now, configVars, requestVars, snapshotVars, at, told, storeVars>>

\* The client of a captured stream sees the local id before anything is stored.
StreamStarts(t) ==
    /\ phase[t] = "upstream"
    /\ stream[t] /\ candidate[t] /\ t \notin told
    /\ told' = told \cup {t}
    /\ UNCHANGED <<now, configVars, phase, requestVars, snapshotVars, candidate, at,
                   transcript, storeVars>>

\* The upstream completes the response. An entry that is too large alone is not
\* stored, nor is an empty answer that was not streamed.
Complete(t, output) ==
    /\ phase[t] = "upstream"
    /\ candidate[t]
    /\ stream[t] => t \in told
    /\ transcript' = [transcript EXCEPT ![t] = @ \o output]
    /\ at' = [at EXCEPT ![t] = now]
    /\ SetPhase(t, IF Len(transcript[t]) + Len(output) > seenLimit[t]
                       \/ (output = <<>> /\ ~ stream[t])
                   THEN "replied" ELSE "commit")
    /\ UNCHANGED <<now, configVars, requestVars, snapshotVars, candidate, told, storeVars>>

\* The turn has no candidate, its response did not complete, or it was refused
\* or lost on the way.
Finish(t) ==
    /\ phase[t] = "upstream"
    /\ SetPhase(t, "replied")
    /\ UNCHANGED <<now, configVars, requestVars, snapshotVars, candidate, at, transcript,
                   told, storeVars>>

Live(instant) == {r \in responses : ~ Expired(r, instant)}

\* ConversationStateBridgeStore::put_with_id, once the lock is held: prune with
\* the clock read before the lock, then store if the limit allows.
Commit(t) ==
    /\ phase[t] = "commit"
    /\ SetPhase(t, "replied")
    /\ LET kept == currentBytes - Bytes(responses \ Live(at[t]))
       IN  IF kept + Size(t) > seenLimit[t]
           THEN /\ responses' = Live(at[t])
                /\ currentBytes' = kept
                /\ UNCHANGED <<expiresAt, told>>
           ELSE /\ responses' = Live(at[t]) \cup {t}
                /\ currentBytes' = kept + Size(t)
                /\ expiresAt' = [expiresAt EXCEPT ![t] = at[t] + Ttl]
                /\ told' = told \cup {t}
    /\ UNCHANGED <<now, configVars, requestVars, snapshotVars, candidate, at, transcript>>

-----------------------------------------------------------------------------
TurnStep(t) ==
    \/ \E prev \in told \cup {NoTurn}, input \in Inputs, wantsStore \in BOOLEAN :
            Begin(t, prev, input, wantsStore)
    \/ Lookup(t)
    \/ Route(t)
    \/ StreamStarts(t)
    \/ \E output \in Answers : Complete(t, output)
    \/ Finish(t)
    \/ Commit(t)

Next ==
    \/ Tick
    \/ \E n \in Namespaces, limit \in Limits, responsesUpstream \in BOOLEAN :
            Reconfigure(n, limit, responsesUpstream)
    \/ RotateAuth
    \/ \E t \in Turns : TurnStep(t)

Spec == Init /\ [][Next]_vars

-----------------------------------------------------------------------------
(* Properties *)

\* current_bytes is the size of the entries in the store, although every put and
\* get adjusts it on its own and the subtractions saturate.
BytesExact == currentBytes = Bytes(responses)

\* A turn whose history was sent upstream: it continues a local response.
Continued(t) == previous[t] # NoTurn /\ phase[t] \in {"upstream", "commit", "replied"}

IsPrefixOf(s, u) == Len(s) <= Len(u) /\ \A i \in 1..Len(s) : s[i] = u[i]

\* A conversation stays with its owner and on its route: a turn that was let
\* through carries the whole history it names, and was asked by the same
\* credential, in the same namespace, under the same generation of the data
\* authentication and the same configuration as the turn it continues. In
\* particular it is never forwarded as a fresh conversation.
ReplayStaysInContext ==
    \A t \in Turns : Continued(t) =>
        LET p == previous[t]
        IN  /\ IsPrefixOf(transcript[p], transcript[t])
            /\ namespace[t] = namespace[p] /\ credential[t] = credential[p]
            /\ seenGeneration[t] = seenGeneration[p]
            /\ seenRevision[t] = seenRevision[p] /\ model[t] = model[p]

\* What goes upstream as a continuation leaves no tool call open and holds no
\* output without its call: the upstream never sees half a tool exchange.
ForwardedCallsAreAnswered ==
    \A t \in Turns : previous[t] # NoTurn /\ phase[t] = "upstream" =>
        PendingCalls(transcript[t]) = {}

\* The validation refuses exactly the continuations that are not the answers to
\* the pending calls followed by messages.
ValidationIsExact ==
    \A t \in Turns : phase[t] = "route" /\ previous[t] # NoTurn =>
        (ContinuationAllowed(transcript[previous[t]], transcript[t])
            <=> AnswersThenMessages(transcript[previous[t]], transcript[t]))

\* An entry leaves the store only when its time to live is over: neither another
\* turn's commit nor a configuration evicts a conversation.
OnlyExpiredAreForgotten ==
    [][\A r \in responses : r \notin responses' => expiresAt[r] <= now]_vars
=============================================================================
