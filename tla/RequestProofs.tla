--------------------------- MODULE RequestProofs ---------------------------
(***************************************************************************)
(* A request and the runtime that serves it. Every counter is exact and    *)
(* every outcome is the one that happened, for any number of requests,     *)
(* upstreams and recent requests of RequestPipeline. The admin API         *)
(* implements its compare-and-swap object, and a request sees one          *)
(* configuration, for every set of namespaces, writes and requests of      *)
(* RuntimeAdmin.                                                           *)
(***************************************************************************)
EXTENDS RequestPipeline, RuntimeAdmin, FiniteSetTheorems, SequenceTheorems, TLAPS

-----------------------------------------------------------------------------
(* RequestPipeline: the invariant *)

\* The phases of a handler or body that has not ended.
Running == Phases \ {"idle", "returning", "closed"}

\* Before its route is known a request has no upstream.
Unrouted == {"idle", "validate", "preload", "route"}

\* The tracker and its route follow the phase.
TrackerFollows(r) ==
    /\ phase[r] = "idle" => tracker[r] = "none"
    /\ phase[r] \in Running => tracker[r] = "running"
    /\ phase[r] = "returning" => tracker[r] # "none"
    /\ phase[r] = "closed" => tracker[r] # "running"
    /\ phase[r] \in Unrouted => via[r] = NoUpstream

\* What a response was, until the tracker, the hooks and the trace are told.
ReplyFollows(r) ==
    /\ phase[r] = "commit" => reply[r] = "success"
    /\ phase[r] = "report" => reply[r] # "none"
    /\ hook[r] # "none" => phase[r] \in {"returning", "closed"} /\ tracker[r] = hook[r]
    /\ captured[r] => \/ phase[r] = "report" /\ reply[r] = "success"
                      \/ phase[r] \in {"returning", "closed"} /\ hook[r] = "success"

-----------------------------------------------------------------------------
(* Types *)

LEMMA AdjustTyped ==
    ASSUME counts \in [Cells -> Nat], NEW up, NEW down, Adjust(up, down)
    PROVE  counts' \in [Cells -> Nat]
  BY DEF Adjust

LEMMA StartTyped ==
    ASSUME MetricsTypeOK, NEW r \in Requests, NEW s \in BOOLEAN, StartRequest(r, s)
    PROVE  MetricsTypeOK'
<1>1. counts' \in [Cells -> Nat]
  BY AdjustTyped DEF MetricsTypeOK, StartRequest
<1>2. tracker' \in [Requests -> {"none", "running"} \cup Outcomes]
  BY DEF MetricsTypeOK, StartRequest
<1>3. streams' \in [Requests -> BOOLEAN]
  BY DEF MetricsTypeOK, StartRequest
<1> QED
  BY <1>1, <1>2, <1>3 DEF MetricsTypeOK, StartRequest

LEMMA RouteTyped ==
    ASSUME MetricsTypeOK, NEW r \in Requests, NEW u \in Upstreams, SetUpstream(r, u)
    PROVE  MetricsTypeOK'
<1>1. CASE via[r] = u
  BY <1>1 DEF MetricsTypeOK, SetUpstream, metricsVars
<1>2. CASE via[r] # u
  <2>1. counts' \in [Cells -> Nat]
    BY <1>2, AdjustTyped DEF MetricsTypeOK, SetUpstream
  <2>2. via' \in [Requests -> Upstreams \cup {NoUpstream}]
    BY <1>2 DEF MetricsTypeOK, SetUpstream
  <2> QED
    BY <1>2, <2>1, <2>2 DEF MetricsTypeOK, SetUpstream
<1> QED
  BY <1>1, <1>2

\* How many of the recent requests are kept beside a new one.
Kept == IF Len(recent) < MaxRecent THEN Len(recent) + 1 ELSE MaxRecent

\* The list with a new element in front, cut to the limit.
Newest(e) == SubSeq(<<e>> \o recent, 1, Kept)

LEMMA RecentShape ==
    ASSUME recent \in Seq([request : Requests, outcome : Outcomes]),
           NEW e \in [request : Requests, outcome : Outcomes]
    PROVE  /\ Newest(e) \in Seq([request : Requests, outcome : Outcomes])
           /\ Kept \in Nat \ {0}
           /\ Kept <= Len(recent) + 1
           /\ Len(Newest(e)) = Kept
           /\ Newest(e)[1] = e
           /\ \A i \in 2..Kept : i - 1 \in 1..Len(recent) /\ Newest(e)[i] = recent[i - 1]
<1> DEFINE Entry == [request : Requests, outcome : Outcomes]
           longer == <<e>> \o recent
           s == Newest(e)
<1>1. Kept \in Nat \ {0} /\ Kept <= Len(recent) + 1 /\ Len(recent) \in Nat
  BY MetricsAssumption DEF Kept
<1>2. <<e>> \in Seq(Entry) /\ Len(<<e>>) = 1 /\ <<e>>[1] = e
  OBVIOUS
<1>3. /\ longer \in Seq(Entry)
      /\ Len(longer) = Len(recent) + 1
      /\ \A i \in 1..Len(recent) + 1 : longer[i] = IF i <= 1 THEN e ELSE recent[i - 1]
  BY <1>2, ConcatProperties
<1> HIDE DEF longer, Entry
<1>4. /\ s \in Seq(Entry)
      /\ Len(s) = Kept
      /\ \A i \in 1..Kept : s[i] = longer[i]
  <2>1. s = SubSeq(longer, 1, Kept)
    BY DEF longer, Newest
  <2> HIDE DEF Kept, s
  <2> QED
    BY <1>1, <1>3, <2>1, SubSeqProperties
<1> HIDE DEF Kept, s
<1>5. \A i \in 1..Kept : s[i] = IF i <= 1 THEN e ELSE recent[i - 1]
  BY <1>1, <1>3, <1>4
<1>6. \A i \in 2..Kept : i - 1 \in 1..Len(recent) /\ s[i] = recent[i - 1]
  BY <1>1, <1>5
<1> QED
  BY <1>1, <1>4, <1>5, <1>6 DEF Entry, s

LEMMA FinishTyped ==
    ASSUME MetricsTypeOK, NEW r \in Requests, NEW o \in Outcomes, Finish(r, o)
    PROVE  MetricsTypeOK'
<1>1. CASE tracker[r] \in Outcomes
  BY <1>1 DEF MetricsTypeOK, Finish, metricsVars
<1>2. CASE tracker[r] \notin Outcomes
  <2>1. counts' \in [Cells -> Nat]
    BY <1>2, AdjustTyped DEF MetricsTypeOK, Finish
  <2>2. tracker' \in [Requests -> {"none", "running"} \cup Outcomes]
    BY <1>2 DEF MetricsTypeOK, Finish
  <2>3. recent' \in Seq([request : Requests, outcome : Outcomes])
    <3>1. [request |-> r, outcome |-> o] \in [request : Requests, outcome : Outcomes]
      OBVIOUS
    <3> QED
      BY <1>2, <3>1, RecentShape DEF MetricsTypeOK, Finish, Kept, Newest
  <2> QED
    BY <1>2, <2>1, <2>2, <2>3 DEF MetricsTypeOK, Finish
<1> QED
  BY <1>1, <1>2

-----------------------------------------------------------------------------
(* What a step does to the metrics *)

\* The part of the inductive invariant that every property rests on.
Pipeline ==
    /\ TypeOK
    /\ \A r \in Requests : TrackerFollows(r) /\ ReplyFollows(r)

LEMMA PhaseSets ==
    /\ Running = {"preload", "send", "reading", "reading_error", "commit", "validate",
                  "route", "build", "translate", "report", "body"}
    /\ Outcomes = {"success", "error", "cancelled"}
    /\ Unrouted = {"idle", "validate", "preload", "route"}
  BY DEF Running, Phases, Awaiting, Outcomes, Unrouted

\* A handler that answers leaves its outcome with the tracker.
LEMMA AnswerEffect ==
    ASSUME Pipeline, NEW r \in Requests, phase[r] \in Running, NEW o \in Outcomes,
           Answer(r, o)
    PROVE  /\ Finish(r, o)
           /\ tracker[r] = "running"
           /\ tracker' = [tracker EXCEPT ![r] = o]
           /\ via' = via /\ streams' = streams
           /\ phase' = [phase EXCEPT ![r] = "returning"]
  BY DEF Pipeline, TrackerFollows, Answer, GoTo, Finish, Outcomes

\* A request starts once, is routed once, and finishes.
Started == \E r \in Requests : \E s \in BOOLEAN :
    tracker[r] = "none" /\ via[r] = NoUpstream /\ StartRequest(r, s)
Routed == \E r \in Requests : \E u \in Upstreams :
    tracker[r] = "running" /\ via[r] = NoUpstream /\ SetUpstream(r, u)
Finished == \E r \in Requests : \E o \in Outcomes :
    tracker[r] # "none" /\ Finish(r, o)

LEMMA MetricsStep ==
    ASSUME Pipeline, [Next]_vars
    PROVE  Started \/ Routed \/ Finished \/ UNCHANGED metricsVars
<1> USE DEF Pipeline, Reject, Continue, Cancelled
<1>1. CASE UNCHANGED vars
  BY <1>1 DEF vars
<1> SUFFICES ASSUME NEW r \in Requests,
                    \/ Arrive(r) \/ HandlerStep(r) \/ DropHandler(r) \/ GoAway(r) \/ Notice(r)
             PROVE  Started \/ Routed \/ Finished \/ UNCHANGED metricsVars
  BY <1>1 DEF Next
<1> DEFINE Ended == \E o \in Outcomes : phase[r] \in Running /\ Answer(r, o)
<1>2. Ended => Finished
  BY AnswerEffect DEF Finished
<1>3. CASE Arrive(r)
  BY <1>3 DEF Arrive, Started, TrackerFollows, Unrouted
<1>4. CASE Validate(r) \/ Preload(r) \/ Build(r)
  <2>1. Ended \/ UNCHANGED metricsVars
    BY <1>4, PhaseSets DEF Validate, Preload, Build
  <2> QED
    BY <1>2, <2>1
<1>5. CASE Route(r)
  <2>1. Ended \/ \E u \in Upstreams : SetUpstream(r, u)
    BY <1>5, PhaseSets DEF Route
  <2>2. tracker[r] = "running" /\ via[r] = NoUpstream
    BY <1>5, PhaseSets DEF Route, TrackerFollows
  <2> QED
    BY <1>2, <2>1, <2>2 DEF Routed
<1>6. CASE Send(r) \/ Read(r) \/ Translate(r) \/ Commit(r) \/ EndBody(r)
  <2>1. Ended \/ UNCHANGED metricsVars
    BY <1>6, PhaseSets DEF Send, Read, Translate, Commit, EndBody
  <2> QED
    BY <1>2, <2>1
<1>7. CASE Report(r)
  <2>1. reply[r] \in Outcomes
    BY <1>7, PhaseSets DEF Report, ReplyFollows, TypeOK
  <2>2. Ended
    BY <1>7, <2>1, PhaseSets DEF Report
  <2> QED
    BY <1>2, <2>2
<1>8. CASE Return(r)
  BY <1>8, PhaseSets DEF Return, DropTracker, Finished, TrackerFollows
<1>9. CASE DropHandler(r) \/ GoAway(r) \/ Notice(r)
  BY <1>9 DEF DropHandler, GoAway, Notice
<1> QED
  BY <1>3, <1>4, <1>5, <1>6, <1>7, <1>8, <1>9 DEF HandlerStep

LEMMA MetricsTyped ==
    ASSUME Pipeline, [Next]_vars
    PROVE  MetricsTypeOK'
<1>1. MetricsTypeOK
  BY DEF Pipeline, TypeOK
<1>2. CASE Started
  BY <1>1, <1>2, StartTyped DEF Started
<1>3. CASE Routed
  BY <1>1, <1>3, RouteTyped DEF Routed
<1>4. CASE Finished
  BY <1>1, <1>4, FinishTyped DEF Finished
<1>5. CASE UNCHANGED metricsVars
  BY <1>1, <1>5 DEF MetricsTypeOK, metricsVars
<1> QED
  BY <1>2, <1>3, <1>4, <1>5, MetricsStep

-----------------------------------------------------------------------------
(* The inductive invariant *)

LEMMA InitPipeline == Init => Pipeline
<1> SUFFICES ASSUME Init PROVE Pipeline
  OBVIOUS
<1>1. MetricsTypeOK
  BY DEF Init, MetricsInit, MetricsTypeOK, Outcomes
<1>2. TypeOK
  BY <1>1 DEF Init, TypeOK, Phases, Awaiting
<1>3. ASSUME NEW r \in Requests PROVE TrackerFollows(r) /\ ReplyFollows(r)
  BY PhaseSets DEF Init, MetricsInit, TrackerFollows, ReplyFollows
<1> QED
  BY <1>2, <1>3 DEF Pipeline

\* The variables beside the metrics keep their types.
FlowTypeOK ==
    /\ phase \in [Requests -> Phases]
    /\ kind \in [Requests -> {"generate", "resource"}]
    /\ client \in [Requests -> {"present", "gone"}]
    /\ token \in [Requests -> BOOLEAN]
    /\ expanded \in [Requests -> BOOLEAN]
    /\ candidate \in [Requests -> BOOLEAN]
    /\ raw \in [Requests -> BOOLEAN]
    /\ reply \in [Requests -> {"none", "success", "error"}]
    /\ captured \in [Requests -> BOOLEAN]
    /\ hook \in [Requests -> {"none", "success", "error"}]

\* An update at one request keeps a function of the requests.
LEMMA Updated ==
    ASSUME NEW S, NEW f \in [Requests -> S], NEW r \in Requests, NEW e \in S
    PROVE  [f EXCEPT ![r] = e] \in [Requests -> S]
  OBVIOUS

LEMMA PhaseNames ==
    Phases = {"preload", "send", "reading", "reading_error", "commit", "idle", "validate",
              "route", "build", "translate", "report", "body", "returning", "closed"}
  BY DEF Phases, Awaiting

LEMMA FlowTyped ==
    ASSUME FlowTypeOK, [Next]_vars
    PROVE  FlowTypeOK'
<1> USE DEF FlowTypeOK, Answer, Reject, Continue, Cancelled, GoTo
<1>1. CASE UNCHANGED vars
  BY <1>1 DEF vars, flowVars
<1> SUFFICES ASSUME NEW r \in Requests,
                    \/ Arrive(r) \/ HandlerStep(r) \/ DropHandler(r) \/ GoAway(r) \/ Notice(r)
             PROVE  FlowTypeOK'
  BY <1>1 DEF Next
<1>2. CASE Arrive(r)
  <2>1. phase' \in [Requests -> Phases] /\ kind' \in [Requests -> {"generate", "resource"}]
    BY <1>2, PhaseNames DEF Arrive
  <2>2. token' = token \/ token' = [token EXCEPT ![r] = TRUE]
    BY <1>2 DEF Arrive, UnreadBodyDropped
  <2>3. token' \in [Requests -> BOOLEAN]
    BY <2>2, Updated
  <2> QED
    BY <1>2, <2>1, <2>3 DEF Arrive
<1>3. CASE Validate(r) \/ Route(r) \/ Send(r) \/ Read(r) \/ EndBody(r) \/ DropHandler(r)
  BY <1>3, PhaseNames DEF Validate, Route, Send, Read, EndBody, DropHandler, flowVars
<1>4. CASE Preload(r)
  <2>1. expanded' = expanded \/ expanded' = [expanded EXCEPT ![r] = TRUE]
    BY <1>4 DEF Preload, flowVars
  <2>2. expanded' \in [Requests -> BOOLEAN]
    BY <2>1, Updated
  <2> QED
    BY <1>4, <2>2, PhaseNames DEF Preload, flowVars
<1>5. CASE Build(r)
  <2>1. /\ candidate' = candidate \/ \E b \in BOOLEAN : candidate' = [candidate EXCEPT ![r] = b]
        /\ raw' = raw \/ \E b \in BOOLEAN : raw' = [raw EXCEPT ![r] = b]
    <3>1. \A same, capture, mutates \in BOOLEAN :
              (~ TransformationRequired(same, StateBridge(r, capture), mutates)) \in BOOLEAN
      OBVIOUS
    <3> HIDE DEF FlowTypeOK
    <3> QED
      BY <1>5, <3>1 DEF Build, flowVars
  <2>2. candidate' \in [Requests -> BOOLEAN]
    <3>1. CASE candidate' = candidate
      BY <3>1
    <3>2. CASE \E b \in BOOLEAN : candidate' = [candidate EXCEPT ![r] = b]
      BY <3>2, Updated
    <3> QED
      BY <2>1, <3>1, <3>2
  <2>3. raw' \in [Requests -> BOOLEAN]
    <3>1. CASE raw' = raw
      BY <3>1
    <3>2. CASE \E b \in BOOLEAN : raw' = [raw EXCEPT ![r] = b]
      BY <3>2, Updated
    <3> QED
      BY <2>1, <3>1, <3>2
  <2>4. phase' \in [Requests -> Phases]
    BY <1>5, PhaseNames DEF Build
  <2>5. UNCHANGED <<kind, client, token, expanded, reply, captured, hook>>
    BY <1>5 DEF Build, flowVars
  <2> QED
    BY <2>2, <2>3, <2>4, <2>5
<1>6. CASE Translate(r)
  <2>1. hook' \in [Requests -> {"none", "success", "error"}]
    BY <1>6 DEF Translate, flowVars
  <2>2. reply' \in [Requests -> {"none", "success", "error"}]
    BY <1>6 DEF Translate, flowVars
  <2>3. phase' \in [Requests -> Phases]
    BY <1>6, PhaseNames DEF Translate
  <2>4. UNCHANGED <<kind, client, token, expanded, candidate, raw, captured>>
    BY <1>6 DEF Translate, flowVars
  <2> QED
    BY <2>1, <2>2, <2>3, <2>4
<1>7. CASE Commit(r)
  <2>1. \E b \in BOOLEAN : captured' = [captured EXCEPT ![r] = b]
    BY <1>7 DEF Commit
  <2>2. captured' \in [Requests -> BOOLEAN]
    BY <2>1, Updated
  <2> QED
    BY <1>7, <2>2, PhaseNames DEF Commit
<1>8. CASE Report(r)
  BY <1>8, PhaseNames DEF Report
<1>9. CASE Return(r)
  <2>1. /\ token' \in [Requests -> BOOLEAN]
        /\ expanded' \in [Requests -> BOOLEAN]
        /\ candidate' \in [Requests -> BOOLEAN]
        /\ raw' \in [Requests -> BOOLEAN]
    BY <1>9, Updated DEF Return
  <2> QED
    BY <1>9, <2>1, PhaseNames DEF Return
<1>10. CASE GoAway(r)
  BY <1>10 DEF GoAway
<1>11. CASE Notice(r)
  <2>1. token' \in [Requests -> BOOLEAN]
    BY <1>11, Updated DEF Notice
  <2> QED
    BY <1>11, <2>1 DEF Notice
<1> QED
  BY <1>2, <1>3, <1>4, <1>5, <1>6, <1>7, <1>8, <1>9, <1>10, <1>11 DEF HandlerStep

\* A step of one request leaves the others alone.
Others(r) ==
    \A q \in Requests \ {r} :
        /\ phase'[q] = phase[q] /\ tracker'[q] = tracker[q] /\ via'[q] = via[q]
        /\ reply'[q] = reply[q] /\ captured'[q] = captured[q] /\ hook'[q] = hook[q]
        /\ streams'[q] = streams[q] /\ token'[q] = token[q] /\ client'[q] = client[q]

LEMMA FinishOthers ==
    ASSUME TypeOK, NEW r \in Requests, NEW o \in Outcomes, Finish(r, o)
    PROVE  /\ \A q \in Requests \ {r} : tracker'[q] = tracker[q]
           /\ tracker[r] \in Outcomes => tracker'[r] = tracker[r]
           /\ tracker[r] \notin Outcomes => tracker'[r] = o
           /\ via' = via /\ streams' = streams
  BY DEF Finish, metricsVars, TypeOK, MetricsTypeOK

LEMMA StepOthers ==
    ASSUME Pipeline, NEW r \in Requests,
           Arrive(r) \/ HandlerStep(r) \/ DropHandler(r) \/ GoAway(r) \/ Notice(r)
    PROVE  Others(r)
<1> USE DEF Pipeline, Continue, Cancelled, Reject, GoTo
<1>1. ASSUME NEW o \in Outcomes, Answer(r, o)
      PROVE  \A q \in Requests \ {r} :
                phase'[q] = phase[q] /\ tracker'[q] = tracker[q] /\ via' = via /\ streams' = streams
  BY <1>1, FinishOthers DEF Answer, TypeOK
<1>2. CASE Arrive(r)
  BY <1>2 DEF Arrive, Others, StartRequest, UnreadBodyDropped, metricsVars, TypeOK, MetricsTypeOK
<1>3. CASE Validate(r) \/ Preload(r) \/ Build(r) \/ Send(r) \/ Read(r) \/ EndBody(r)
  BY <1>1, <1>3, PhaseSets
     DEF Validate, Preload, Build, Send, Read, EndBody, Others, metricsVars, flowVars, TypeOK
<1>4. CASE Route(r)
  <2>1. CASE Reject(r)
    BY <1>1, <2>1, PhaseSets DEF Others, flowVars
  <2>2. CASE \E u \in Upstreams : SetUpstream(r, u) /\ GoTo(r, "build") /\ UNCHANGED flowVars
    <3>1. via \in [Requests -> Upstreams \cup {NoUpstream}]
      BY DEF TypeOK, MetricsTypeOK
    <3>2. UNCHANGED <<tracker, streams>> /\ \A q \in Requests \ {r} : via'[q] = via[q]
      BY <2>2, <3>1 DEF SetUpstream, metricsVars
    <3>3. \A q \in Requests \ {r} : phase'[q] = phase[q]
      BY <2>2 DEF TypeOK
    <3> QED
      BY <2>2, <3>2, <3>3 DEF Others, flowVars
  <2> QED
    BY <1>4, <2>1, <2>2 DEF Route
<1>5. CASE Translate(r)
  BY <1>1, <1>5, PhaseSets DEF Translate, Others, metricsVars, flowVars, TypeOK
<1>6. CASE Commit(r)
  BY <1>6 DEF Commit, Others, metricsVars, TypeOK
<1>7. CASE Report(r)
  <2>1. reply[r] \in Outcomes
    BY <1>7, PhaseSets DEF Report, ReplyFollows, TypeOK
  <2> QED
    BY <1>1, <1>7, <2>1 DEF Report, Others, TypeOK
<1>8. CASE Return(r)
  BY <1>8, FinishOthers, PhaseSets DEF Return, DropTracker, Others, TypeOK
<1>9. CASE DropHandler(r) \/ GoAway(r) \/ Notice(r)
  BY <1>9 DEF DropHandler, GoAway, Notice, Others, metricsVars, flowVars, TypeOK
<1> QED
  BY <1>2, <1>3, <1>4, <1>5, <1>6, <1>7, <1>8, <1>9 DEF HandlerStep

\* An answer that tells no one but the tracker.
LEMMA AnswerFollows ==
    ASSUME Pipeline, NEW r \in Requests, phase[r] \in Running, NEW o \in Outcomes,
           Answer(r, o), UNCHANGED <<captured, hook>>, phase[r] # "report"
    PROVE  TrackerFollows(r)' /\ ReplyFollows(r)'
<1>1. tracker'[r] = o /\ phase'[r] = "returning"
  BY AnswerEffect DEF Pipeline, TypeOK, MetricsTypeOK
<1>2. hook[r] = "none" /\ captured[r] = FALSE
  BY PhaseSets DEF Pipeline, ReplyFollows, TypeOK
<1> QED
  BY <1>1, <1>2, PhaseSets DEF TrackerFollows, ReplyFollows

LEMMA StepFollows ==
    ASSUME Pipeline, NEW r \in Requests,
           Arrive(r) \/ HandlerStep(r) \/ DropHandler(r) \/ GoAway(r) \/ Notice(r)
    PROVE  TrackerFollows(r)' /\ ReplyFollows(r)'
<1>1. TypeOK /\ TrackerFollows(r) /\ ReplyFollows(r)
  BY DEF Pipeline
<1>2. /\ phase \in [Requests -> Phases]
      /\ reply \in [Requests -> {"none", "success", "error"}]
      /\ captured \in [Requests -> BOOLEAN]
      /\ hook \in [Requests -> {"none", "success", "error"}]
      /\ tracker \in [Requests -> {"none", "running"} \cup Outcomes]
      /\ via \in [Requests -> Upstreams \cup {NoUpstream}]
  BY <1>1 DEF TypeOK, MetricsTypeOK
<1> USE PhaseSets DEF Continue, GoTo, TrackerFollows, ReplyFollows, metricsVars, flowVars
<1>3. ASSUME NEW o \in Outcomes, Answer(r, o), UNCHANGED <<captured, hook>>,
             phase[r] \in Running, phase[r] # "report"
      PROVE  TrackerFollows(r)' /\ ReplyFollows(r)'
  BY <1>3, AnswerFollows
<1>4. ASSUME Reject(r) \/ Cancelled(r), phase[r] \in Running, phase[r] # "report"
      PROVE  TrackerFollows(r)' /\ ReplyFollows(r)'
  BY <1>3, <1>4 DEF Reject, Cancelled
<1>5. CASE Arrive(r)
  BY <1>1, <1>2, <1>5 DEF Arrive, StartRequest
<1>6. CASE Validate(r) \/ Preload(r)
  BY <1>1, <1>2, <1>4, <1>6 DEF Validate, Preload
<1>7. CASE Route(r)
  <2>1. CASE Reject(r)
    BY <1>4, <1>7, <2>1 DEF Route
  <2>2. CASE \E u \in Upstreams : SetUpstream(r, u) /\ GoTo(r, "build") /\ UNCHANGED flowVars
    BY <1>1, <1>2, <1>7, <2>2 DEF Route, SetUpstream
  <2> QED
    BY <1>7, <2>1, <2>2 DEF Route
<1>8. CASE Build(r)
  <2>1. CASE Reject(r)
    BY <1>4, <1>8, <2>1 DEF Build
  <2>2. CASE ~ Reject(r)
    <3>1. /\ phase[r] = "build" /\ phase' = [phase EXCEPT ![r] = "send"]
          /\ UNCHANGED <<tracker, via, reply, captured, hook>>
      BY <1>8, <2>2 DEF Build
    <3> QED
      BY <1>1, <1>2, <3>1
  <2> QED
    BY <2>1, <2>2
<1>9. CASE Send(r) \/ Read(r) \/ EndBody(r)
  BY <1>1, <1>2, <1>3, <1>4, <1>9 DEF Send, Read, EndBody
<1>10. CASE Translate(r)
  <2>1. CASE raw[r] /\ Answer(r, "success") /\ hook' \in {hook, [hook EXCEPT ![r] = "success"]}
                /\ captured' = captured
    <3>1. tracker'[r] = "success" /\ phase'[r] = "returning"
      BY <1>2, <1>10, <2>1, AnswerEffect DEF Translate
    <3>2. captured[r] = FALSE /\ hook'[r] \in {"none", "success"}
      BY <1>1, <1>2, <1>10, <2>1 DEF Translate
    <3> QED
      BY <2>1, <3>1, <3>2
  <2>2. CASE kind[r] = "resource" /\ Answer(r, "success") /\ UNCHANGED flowVars
    BY <1>3, <1>10, <2>2 DEF Translate
  <2>3. CASE Reject(r)
    BY <1>4, <1>10, <2>3 DEF Translate
  <2>4. CASE \E status \in {"success", "error"} :
                /\ reply' = [reply EXCEPT ![r] = status]
                /\ GoTo(r, IF status = "success" /\ candidate[r] THEN "commit" ELSE "report")
                /\ UNCHANGED <<tracker, via, captured, hook>>
    BY <1>1, <1>2, <1>10, <2>4 DEF Translate
  <2> QED
    BY <1>10, <2>1, <2>2, <2>3, <2>4 DEF Translate
<1>11. CASE Commit(r)
  BY <1>1, <1>2, <1>11 DEF Commit
<1>12. CASE Report(r)
  <2>1. reply[r] \in {"success", "error"} /\ Answer(r, reply[r]) /\ phase[r] = "report"
    BY <1>1, <1>2, <1>12 DEF Report
  <2>2. tracker'[r] = reply[r] /\ phase'[r] = "returning" /\ hook'[r] = reply[r]
    BY <1>2, <1>12, <2>1, AnswerEffect DEF Report
  <2> QED
    BY <1>1, <1>2, <1>12, <2>1, <2>2 DEF Report
<1>13. CASE Return(r)
  <2>1. /\ phase[r] = "returning" /\ phase'[r] = "closed"
        /\ UNCHANGED <<captured, hook>>
    BY <1>2, <1>13 DEF Return
  <2>2. tracker'[r] \in Outcomes /\ (tracker[r] \in Outcomes => tracker'[r] = tracker[r])
    BY <1>1, <1>13, FinishOthers DEF Return, DropTracker
  <2> QED
    BY <1>1, <1>2, <2>1, <2>2
<1>14. CASE DropHandler(r) \/ GoAway(r) \/ Notice(r)
  BY <1>1, <1>2, <1>14 DEF DropHandler, GoAway, Notice, Awaiting
<1> QED
  BY <1>5, <1>6, <1>7, <1>8, <1>9, <1>10, <1>11, <1>12, <1>13, <1>14 DEF HandlerStep

LEMMA NextPipeline ==
    ASSUME Pipeline, [Next]_vars
    PROVE  Pipeline'
<1>1. TypeOK'
  <2>1. FlowTypeOK /\ MetricsTypeOK
    BY DEF Pipeline, TypeOK, FlowTypeOK
  <2> QED
    BY <2>1, MetricsTyped, FlowTyped DEF TypeOK, FlowTypeOK
<1>2. CASE UNCHANGED vars
  BY <1>1, <1>2 DEF Pipeline, TrackerFollows, ReplyFollows, vars, metricsVars, flowVars
<1>3. CASE Next
  <2>1. PICK r \in Requests :
            Arrive(r) \/ HandlerStep(r) \/ DropHandler(r) \/ GoAway(r) \/ Notice(r)
    BY <1>3 DEF Next
  <2>2. TrackerFollows(r)' /\ ReplyFollows(r)'
    BY <2>1, StepFollows
  <2>3. ASSUME NEW q \in Requests \ {r} PROVE TrackerFollows(q)' /\ ReplyFollows(q)'
    BY <2>1, <2>3, StepOthers DEF Others, Pipeline, TrackerFollows, ReplyFollows
  <2> QED
    BY <1>1, <2>2, <2>3 DEF Pipeline
<1> QED
  BY <1>2, <1>3

\* The inductive invariant holds.
THEOREM PipelineHolds == Spec => []Pipeline
  BY InitPipeline, NextPipeline, PTL DEF Spec

\* Type correctness: every request keeps a phase, an outcome and a route, and the
\* list of recent requests never holds anything but finished ones.
THEOREM TypesHold == Spec => []TypeOK
<1>1. Pipeline => TypeOK
  BY DEF Pipeline
<1> QED
  BY <1>1, PipelineHolds, PTL

\* The hooks, the debug trace and the counters agree on every response that is
\* not streamed (the end of the handler in proxy.rs).
THEOREM ObserversAlwaysAgree == Spec => []ObserversAgree
<1>1. Pipeline => ObserversAgree
  BY DEF Pipeline, ReplyFollows, ObserversAgree
<1> QED
  BY <1>1, PipelineHolds, PTL

\* A captured turn was answered, reported and counted as a success, although the
\* capture awaits the store and the client may leave at that await.
THEOREM CapturesAreAnswered == Spec => []CapturedIsAnswered
<1>1. Pipeline => CapturedIsAnswered
  BY DEF Pipeline, ReplyFollows, CapturedIsAnswered
<1> QED
  BY <1>1, PipelineHolds, PTL

-----------------------------------------------------------------------------
(* Cancellations *)

\* The token is cancelled, a request counted as cancelled, or a tracker left to its
\* drop, only where the client is gone.
Attributed ==
    \A r \in Requests :
        \/ client[r] = "gone"
        \/ /\ ~ token[r]
           /\ tracker[r] # "cancelled"
           /\ ~ (phase[r] = "returning" /\ tracker[r] = "running")

\* A client that has gone does not come back.
LEMMA GoneStays ==
    ASSUME Pipeline, NEW r \in Requests, client[r] = "gone", [Next]_vars
    PROVE  client'[r] = "gone"
<1>1. client \in [Requests -> {"present", "gone"}]
  BY DEF Pipeline, TypeOK
<1>2. CASE UNCHANGED client
  BY <1>2
<1>3. ASSUME NEW q \in Requests, GoAway(q) PROVE client'[r] = "gone"
  BY <1>1, <1>3 DEF GoAway
<1>4. ASSUME NEW q \in Requests,
             \/ Arrive(q) \/ Validate(q) \/ Preload(q) \/ Route(q) \/ Build(q) \/ Send(q)
             \/ Read(q) \/ Translate(q) \/ Commit(q) \/ Report(q) \/ EndBody(q) \/ Return(q)
             \/ DropHandler(q) \/ Notice(q)
      PROVE  UNCHANGED client
  BY <1>4 DEF Arrive, Validate, Preload, Route, Build, Send, Read, Translate, Commit, Report,
     EndBody, Return, DropHandler, Notice, Reject, Cancelled, Continue, flowVars
<1> QED
  BY <1>2, <1>3, <1>4 DEF Next, HandlerStep, vars, flowVars

\* A request whose client is there: what a step of its own does to it.
LEMMA PresentStep ==
    ASSUME ~ UnreadBodies, Pipeline, NEW r \in Requests,
           client[r] = "present", ~ token[r], tracker[r] # "cancelled",
           ~ (phase[r] = "returning" /\ tracker[r] = "running"),
           Arrive(r) \/ HandlerStep(r) \/ DropHandler(r) \/ GoAway(r) \/ Notice(r)
    PROVE  \/ client'[r] = "gone"
           \/ /\ ~ token'[r]
              /\ tracker'[r] # "cancelled"
              /\ ~ (phase'[r] = "returning" /\ tracker'[r] = "running")
<1>1. TypeOK /\ TrackerFollows(r) /\ ReplyFollows(r)
  BY DEF Pipeline
<1>2. /\ phase \in [Requests -> Phases]
      /\ client \in [Requests -> {"present", "gone"}]
      /\ token \in [Requests -> BOOLEAN]
      /\ reply \in [Requests -> {"none", "success", "error"}]
      /\ tracker \in [Requests -> {"none", "running"} \cup Outcomes]
  BY <1>1 DEF TypeOK, MetricsTypeOK
<1> USE PhaseSets DEF Continue, GoTo, metricsVars, flowVars
<1>3. ASSUME NEW o \in {"success", "error"}, Answer(r, o), token' = token, phase[r] \in Running
      PROVE  /\ ~ token'[r]
             /\ tracker'[r] # "cancelled" /\ tracker'[r] # "running"
  BY <1>2, <1>3, AnswerEffect
<1>4. CASE Arrive(r)
  <2>1. token' = token
    BY <1>4 DEF Arrive, UnreadBodyDropped
  <2> QED
    BY <1>2, <1>4, <2>1 DEF Arrive, StartRequest
<1>5. CASE Validate(r) \/ Preload(r)
  BY <1>2, <1>3, <1>5 DEF Validate, Preload, Reject
<1>6. CASE Route(r)
  <2>1. CASE Reject(r)
    BY <1>3, <1>6, <2>1 DEF Route, Reject
  <2>2. CASE \E u \in Upstreams : SetUpstream(r, u) /\ GoTo(r, "build") /\ UNCHANGED flowVars
    BY <1>2, <1>6, <2>2 DEF Route, SetUpstream
  <2> QED
    BY <1>6, <2>1, <2>2 DEF Route
<1>7. CASE Build(r)
  <2>1. CASE Reject(r)
    BY <1>3, <1>7, <2>1 DEF Build, Reject
  <2>2. CASE ~ Reject(r)
    <3>1. phase' = [phase EXCEPT ![r] = "send"] /\ UNCHANGED <<tracker, token>>
      BY <1>7, <2>2 DEF Build
    <3> QED
      BY <1>2, <3>1
  <2> QED
    BY <2>1, <2>2
<1>8. CASE Send(r) \/ Read(r) \/ EndBody(r)
  BY <1>2, <1>3, <1>8 DEF Send, Read, EndBody, Reject, Cancelled
<1>9. CASE Translate(r)
  BY <1>2, <1>3, <1>9 DEF Translate, Reject
<1>10. CASE Commit(r)
  BY <1>2, <1>10 DEF Commit
<1>11. CASE Report(r)
  <2>1. reply[r] \in {"success", "error"} /\ Answer(r, reply[r])
    BY <1>1, <1>2, <1>11 DEF Report, ReplyFollows
  <2> QED
    BY <1>3, <1>11, <2>1 DEF Report
<1>12. CASE Return(r)
  <2>1. tracker[r] \in Outcomes
    BY <1>1, <1>2, <1>12 DEF Return, TrackerFollows
  <2>2. tracker'[r] = tracker[r]
    BY <1>1, <1>12, <2>1, FinishOthers DEF Return, DropTracker
  <2>3. ~ token'[r]
    BY <1>2, <1>12 DEF Return
  <2> QED
    BY <2>1, <2>2, <2>3
<1>13. CASE DropHandler(r) \/ GoAway(r) \/ Notice(r)
  BY <1>2, <1>13 DEF DropHandler, GoAway, Notice
<1> QED
  BY <1>4, <1>5, <1>6, <1>7, <1>8, <1>9, <1>10, <1>11, <1>12, <1>13 DEF HandlerStep

LEMMA NextAttributed ==
    ASSUME ~ UnreadBodies, Pipeline, Attributed, [Next]_vars
    PROVE  Attributed'
<1>1. CASE UNCHANGED vars
  BY <1>1 DEF Attributed, vars, metricsVars, flowVars
<1>2. CASE Next
  <2>1. PICK r \in Requests :
            Arrive(r) \/ HandlerStep(r) \/ DropHandler(r) \/ GoAway(r) \/ Notice(r)
    BY <1>2 DEF Next
  <2>2. client \in [Requests -> {"present", "gone"}]
    BY DEF Pipeline, TypeOK
  <2> SUFFICES ASSUME NEW q \in Requests, client'[q] # "gone"
               PROVE  /\ ~ token'[q]
                      /\ tracker'[q] # "cancelled"
                      /\ ~ (phase'[q] = "returning" /\ tracker'[q] = "running")
    BY DEF Attributed
  <2>3. client[q] = "present"
    BY <2>2, GoneStays
  <2>4. CASE q = r
    BY <2>1, <2>3, <2>4, PresentStep DEF Attributed
  <2>5. CASE q # r
    BY <2>1, <2>3, <2>5, StepOthers DEF Attributed, Others
  <2> QED
    BY <2>4, <2>5
<1> QED
  BY <1>1, <1>2

\* No early return of a handler leaves a request to be counted as cancelled while
\* its client is there, unless a client sends a body that no handler reads.
THEOREM CancellationsAreTrue == ~ UnreadBodies => (Spec => []CancelledOnlyIfGone)
<1> SUFFICES ASSUME ~ UnreadBodies PROVE Spec => []CancelledOnlyIfGone
  OBVIOUS
<1>1. Init => Attributed
  BY DEF Init, MetricsInit, Attributed
<1>2. Pipeline /\ Attributed /\ [Next]_vars => Attributed'
  BY NextAttributed
<1>3. Attributed => CancelledOnlyIfGone
  BY DEF Attributed, CancelledOnlyIfGone
<1> QED
  BY <1>1, <1>2, <1>3, PipelineHolds, PTL DEF Spec

-----------------------------------------------------------------------------
(* Counters *)

LEMMA CountedFinite == \A c \in Cells : IsFiniteSet(Counted(c))
<1> SUFFICES ASSUME NEW c \in Cells PROVE IsFiniteSet(Counted(c))
  OBVIOUS
<1>1. Counted(c) \subseteq Requests
  BY DEF Counted
<1> QED
  BY <1>1, FS_Subset, MetricsAssumption

LEMMA InCounted ==
    ASSUME NEW c \in Cells, NEW q \in Requests
    PROVE  q \in Counted(c) <=> (c[1] = All \/ via[q] = c[1]) /\ Counts(q, c[2])
  BY DEF Counted

\* The counters stay exact if each that is adjusted gains or loses the request.
LEMMA AdjustExact ==
    ASSUME CountersExact, counts \in [Cells -> Nat], NEW r \in Requests,
           NEW up, NEW down, Adjust(up, down),
           \A c \in Cells : Counted(c)' \ {r} = Counted(c) \ {r},
           \A c \in Cells :
              /\ c \in up => r \notin Counted(c) /\ r \in Counted(c)'
              /\ c \notin up /\ c \in down => r \in Counted(c) /\ r \notin Counted(c)'
              /\ c \notin up /\ c \notin down => (r \in Counted(c) <=> r \in Counted(c)')
    PROVE  CountersExact'
<1> SUFFICES ASSUME NEW c \in Cells PROVE counts'[c] = Cardinality(Counted(c)')
  BY DEF CountersExact
<1> DEFINE before == Counted(c)
           after == Counted(c)'
<1>1. IsFiniteSet(before) /\ counts[c] = Cardinality(before) /\ counts[c] \in Nat
  BY CountedFinite DEF CountersExact
<1>2. after \ {r} = before \ {r}
  OBVIOUS
<1>3. CASE c \in up
  <2>1. counts'[c] = counts[c] + 1
    BY <1>3 DEF Adjust
  <2>2. r \notin before /\ after = before \cup {r}
    BY <1>2, <1>3
  <2> HIDE DEF before, after
  <2>3. Cardinality(after) = Cardinality(before) + 1
    BY <1>1, <2>2, FS_AddElement
  <2> QED
    BY <1>1, <2>1, <2>3 DEF after
<1>4. CASE c \notin up /\ c \in down
  <2>1. r \in before /\ after = before \ {r}
    BY <1>2, <1>4
  <2> HIDE DEF before, after
  <2>2. Cardinality(after) = Cardinality(before) - 1
    BY <1>1, <2>1, FS_RemoveElement
  <2>3. counts[c] > 0
    <3>1. before # {}
      BY <2>1
    <3> QED
      BY <1>1, <3>1, FS_EmptySet
  <2>4. counts'[c] = counts[c] - 1
    BY <1>4, <2>3 DEF Adjust
  <2> QED
    BY <1>1, <2>2, <2>4 DEF after
<1>5. CASE c \notin up /\ c \notin down
  <2>1. after = before
    BY <1>2, <1>5
  <2>2. counts'[c] = counts[c]
    BY <1>5 DEF Adjust
  <2> QED
    BY <1>1, <2>1, <2>2
<1> QED
  BY <1>3, <1>4, <1>5

\* A step that leaves the trackers of the others alone.
LEMMA OneRequest ==
    ASSUME NEW r \in Requests,
           \A q \in Requests \ {r} :
              tracker'[q] = tracker[q] /\ via'[q] = via[q] /\ streams'[q] = streams[q]
    PROVE  \A c \in Cells : Counted(c)' \ {r} = Counted(c) \ {r}
<1> SUFFICES ASSUME NEW c \in Cells, NEW q \in Requests \ {r}
             PROVE  q \in Counted(c)' <=> q \in Counted(c)
  BY DEF Counted
<1>1. Counts(q, c[2])' <=> Counts(q, c[2])
  BY DEF Counts
<1> QED
  BY <1>1 DEF Counted

LEMMA CellShape ==
    \A c \in Cells : c = <<c[1], c[2]>> /\ c[1] \in {All} \cup Upstreams /\ c[2] \in Kinds
  BY DEF Cells

LEMMA StartExact ==
    ASSUME CountersExact, MetricsTypeOK, NEW r \in Requests, NEW s \in BOOLEAN,
           tracker[r] = "none", via[r] = NoUpstream, StartRequest(r, s)
    PROVE  CountersExact'
<1> DEFINE kinds == IF s THEN {"total", "active", "total_stream", "active_stream"}
                         ELSE {"total", "active"}
           up == {All} \X kinds
           down == {}
<1>1. Adjust(up, down) /\ counts \in [Cells -> Nat]
  BY DEF StartRequest, MetricsTypeOK
<1>2. tracker'[r] = "running" /\ streams'[r] = s /\ via' = via
  BY DEF StartRequest, MetricsTypeOK
<1>3. \A c \in Cells : Counted(c)' \ {r} = Counted(c) \ {r}
  BY OneRequest DEF StartRequest, MetricsTypeOK
<1>4. ASSUME NEW c \in Cells
      PROVE  r \notin Counted(c) /\ (r \in Counted(c)' <=> c \in up)
  <2>1. ~ Counts(r, c[2])
    BY CellShape DEF Counts, Kinds, Outcomes
  <2>2. Counts(r, c[2])' <=> c[2] \in kinds
    BY <1>2, CellShape DEF Counts, Kinds, Outcomes
  <2>3. via'[r] # c[1]
    BY <1>2, CellShape, MetricsAssumption
  <2>4. c \in up <=> c[1] = All /\ c[2] \in kinds
    BY CellShape
  <2>5. r \in Counted(c) <=> (c[1] = All \/ via[r] = c[1]) /\ Counts(r, c[2])
    BY InCounted
  <2>6. r \in Counted(c)' <=> (c[1] = All \/ via'[r] = c[1]) /\ Counts(r, c[2])'
    BY DEF Counted
  <2> HIDE DEF up, kinds
  <2> QED
    BY <2>1, <2>2, <2>3, <2>4, <2>5, <2>6
<1>5. \A c \in Cells : c \notin down
  OBVIOUS
<1> HIDE DEF up, down
<1> QED
  BY <1>1, <1>3, <1>4, <1>5, AdjustExact

LEMMA RouteExact ==
    ASSUME CountersExact, MetricsTypeOK, NEW r \in Requests, NEW u \in Upstreams,
           tracker[r] = "running", via[r] = NoUpstream, SetUpstream(r, u)
    PROVE  CountersExact'
<1> DEFINE kinds == IF streams[r] THEN {"total", "active", "total_stream"}
                                  ELSE {"total", "active"}
           up == {u} \X kinds
           down == {<<via[r], "active">>}
<1>1. Adjust(up, down) /\ counts \in [Cells -> Nat] /\ UNCHANGED <<tracker, streams>>
  BY MetricsAssumption DEF SetUpstream, MetricsTypeOK
<1>2. via'[r] = u /\ \A q \in Requests \ {r} : via'[q] = via[q]
  BY MetricsAssumption DEF SetUpstream, MetricsTypeOK
<1>3. \A c \in Cells : Counted(c)' \ {r} = Counted(c) \ {r}
  BY <1>1, <1>2, OneRequest
<1>4. ASSUME NEW c \in Cells
      PROVE  /\ c \notin down
             /\ c \in up => r \notin Counted(c) /\ r \in Counted(c)'
             /\ c \notin up => (r \in Counted(c) <=> r \in Counted(c)')
  <2>1. Counts(r, c[2])' <=> Counts(r, c[2])
    BY <1>1 DEF Counts
  <2>2. c[2] # "active_stream" \/ c[1] = All
    BY MetricsAssumption DEF Cells
  <2>3. c[1] # All => (Counts(r, c[2]) <=> c[2] \in kinds)
    BY <2>2, CellShape DEF Counts, Kinds, Outcomes, MetricsTypeOK
  <2>4. via[r] # c[1] /\ All # u
    BY CellShape, MetricsAssumption
  <2>5. c \in up <=> c[1] = u /\ c[2] \in kinds
    BY CellShape
  <2>6. r \in Counted(c) <=> (c[1] = All \/ via[r] = c[1]) /\ Counts(r, c[2])
    BY InCounted
  <2>7. r \in Counted(c)' <=> (c[1] = All \/ via'[r] = c[1]) /\ Counts(r, c[2])'
    BY DEF Counted
  <2>8. c \notin down
    BY <2>4, CellShape
  <2> HIDE DEF up, kinds, down
  <2> QED
    BY <1>2, <2>1, <2>3, <2>4, <2>5, <2>6, <2>7, <2>8
<1> HIDE DEF up, down
<1> QED
  BY <1>1, <1>3, <1>4, AdjustExact

LEMMA FinishExact ==
    ASSUME CountersExact, MetricsTypeOK, NEW r \in Requests, NEW o \in Outcomes,
           tracker[r] # "none", Finish(r, o)
    PROVE  CountersExact'
<1>1. CASE tracker[r] \in Outcomes
  BY <1>1 DEF Finish, metricsVars, CountersExact, Counted, Counts
<1>2. CASE tracker[r] \notin Outcomes
  <2> DEFINE up == {<<All, o>>, <<via[r], o>>}
             down == ActiveCells(r)
  <2>1. /\ Adjust(up, down) /\ counts \in [Cells -> Nat] /\ UNCHANGED <<via, streams>>
        /\ tracker[r] = "running" /\ tracker'[r] = o
        /\ \A q \in Requests \ {r} : tracker'[q] = tracker[q]
    BY <1>2 DEF Finish, MetricsTypeOK
  <2>2. \A c \in Cells : Counted(c)' \ {r} = Counted(c) \ {r}
    BY <2>1, OneRequest
  <2>3. o \in {"success", "error", "cancelled"}
    BY DEF Outcomes
  <2>4. tracker[r] = "running" /\ tracker'[r] = o /\ (streams'[r] <=> streams[r]) /\ via' = via
    BY <2>1
  <2>5. ASSUME NEW c \in Cells
        PROVE  /\ c \in up => r \notin Counted(c) /\ r \in Counted(c)'
               /\ c \notin up /\ c \in down => r \in Counted(c) /\ r \notin Counted(c)'
               /\ c \notin up /\ c \notin down => (r \in Counted(c) <=> r \in Counted(c)')
    <3> DEFINE mine == c[1] = All \/ via[r] = c[1]
    <3>1. Counts(r, c[2]) <=>
              \/ c[2] = "total"
              \/ c[2] = "active"
              \/ c[2] = "total_stream" /\ streams[r]
              \/ c[2] = "active_stream" /\ streams[r]
      <4> HIDE DEF up, down, mine
      <4> QED
        BY <2>4 DEF Counts, Outcomes
    <3>2. Counts(r, c[2])' <=>
              \/ c[2] = "total"
              \/ c[2] = o
              \/ c[2] = "total_stream" /\ streams[r]
      <4> HIDE DEF up, down, mine
      <4> QED
        BY <2>3, <2>4 DEF Counts, Outcomes
    <3>3. c[2] # "active_stream" \/ c[1] = All
      BY MetricsAssumption DEF Cells
    <3>4. c \in up <=> mine /\ c[2] = o
      BY CellShape
    <3>5. c \in down <=> mine /\ (c[2] = "active" \/ (c[2] = "active_stream" /\ streams[r]))
      <4>1. c = <<c[1], c[2]>>
        BY CellShape
      <4>2. c \in down <=>
                \/ c = <<All, "active">>
                \/ c = <<via[r], "active">>
                \/ streams[r] /\ c = <<All, "active_stream">>
        BY DEF ActiveCells
      <4> HIDE DEF down
      <4> QED
        BY <3>3, <4>1, <4>2
    <3>6. r \in Counted(c) <=> mine /\ Counts(r, c[2])
      BY InCounted
    <3>7. r \in Counted(c)' <=> mine /\ Counts(r, c[2])'
      BY <2>4 DEF Counted
    <3> HIDE DEF up, down, mine
    <3> QED
      BY <2>3, <3>1, <3>2, <3>4, <3>5, <3>6, <3>7
  <2> HIDE DEF up, down
  <2> QED
    BY <2>1, <2>2, <2>5, AdjustExact
<1> QED
  BY <1>1, <1>2

LEMMA NextCounters ==
    ASSUME Pipeline, CountersExact, [Next]_vars
    PROVE  CountersExact'
<1>1. MetricsTypeOK
  BY DEF Pipeline, TypeOK
<1>2. CASE Started
  BY <1>1, <1>2, StartExact DEF Started
<1>3. CASE Routed
  BY <1>1, <1>3, RouteExact DEF Routed
<1>4. CASE Finished
  BY <1>1, <1>4, FinishExact DEF Finished
<1>5. CASE UNCHANGED metricsVars
  BY <1>5 DEF metricsVars, CountersExact, Counted, Counts
<1> QED
  BY <1>2, <1>3, <1>4, <1>5, MetricsStep

LEMMA InitCounters == Init => CountersExact
<1> SUFFICES ASSUME Init, NEW c \in Cells PROVE counts[c] = Cardinality(Counted(c))
  BY DEF CountersExact
<1>1. \A q \in Requests : tracker[q] = "none"
  BY DEF Init, MetricsInit
<1>2. Counted(c) = {}
  BY <1>1 DEF Counted, Counts, Outcomes
<1>3. counts[c] = 0
  BY DEF Init, MetricsInit
<1> QED
  BY <1>2, <1>3, FS_EmptySet

\* Every counter of the process and of each upstream counts exactly the requests it
\* stands for, whichever of the handler, the body and the drops finishes a tracker.
THEOREM CountersAreExact == Spec => []CountersExact
  BY InitCounters, NextCounters, PipelineHolds, PTL DEF Spec

-----------------------------------------------------------------------------
(* Recent requests *)

\* RecentAgrees, with the set it counts named.
Finalized == {r \in Requests : tracker[r] \in Outcomes}

LEMMA RecentByFinalized ==
    RecentAgrees <=>
        /\ Len(recent) = IF Cardinality(Finalized) < MaxRecent THEN Cardinality(Finalized)
                                                               ELSE MaxRecent
        /\ \A i \in 1..Len(recent) : recent[i].outcome = tracker[recent[i].request]
        /\ \A i, j \in 1..Len(recent) : recent[i].request = recent[j].request => i = j
  BY DEF RecentAgrees, Finalized

\* A finish that counts puts its request in front and cuts the oldest.
LEMMA FinishRecent ==
    ASSUME RecentAgrees, MetricsTypeOK, NEW r \in Requests, NEW o \in Outcomes,
           tracker[r] \notin Outcomes, Finish(r, o)
    PROVE  RecentAgrees'
<1> DEFINE e == [request |-> r, outcome |-> o]
           n == Cardinality(Finalized)
           m == Cardinality(Finalized')
<1>1. /\ tracker' = [tracker EXCEPT ![r] = o]
      /\ recent' = Newest(e)
  BY DEF Finish, Kept, Newest
<1>2. /\ recent \in Seq([request : Requests, outcome : Outcomes])
      /\ tracker \in [Requests -> {"none", "running"} \cup Outcomes]
      /\ e \in [request : Requests, outcome : Outcomes]
      /\ e.request = r /\ e.outcome = o
  BY DEF MetricsTypeOK
<1> HIDE DEF e
<1>3. /\ Kept \in Nat \ {0}
      /\ Len(recent') = Kept
      /\ recent'[1] = e
      /\ \A i \in 2..Kept : i - 1 \in 1..Len(recent) /\ recent'[i] = recent[i - 1]
  BY <1>1, <1>2, RecentShape
<1>4. n \in Nat /\ m = n + 1
  <2>1. Finalized' = Finalized \cup {r} /\ r \notin Finalized /\ Finalized \subseteq Requests
    BY <1>1, <1>2 DEF Finalized
  <2>2. IsFiniteSet(Finalized)
    BY <2>1, FS_Subset, MetricsAssumption
  <2>3. Cardinality(Finalized) \in Nat
    BY <2>2, FS_CardinalityType
  <2> QED
    BY <2>1, <2>2, <2>3, FS_AddElement
<1>5. Len(recent) = IF n < MaxRecent THEN n ELSE MaxRecent
  BY DEF RecentAgrees, Finalized
<1> HIDE DEF n, m
<1>6. Len(recent') = IF m < MaxRecent THEN m ELSE MaxRecent
  BY <1>3, <1>4, <1>5, MetricsAssumption DEF Kept
\* Who was in the list has finished, so it is not the one that finishes now.
<1>7. \A i \in 1..Len(recent) : recent[i].request \in Requests /\ recent[i].request # r
  <2> SUFFICES ASSUME NEW i \in 1..Len(recent)
               PROVE  recent[i].request \in Requests /\ recent[i].request # r
    OBVIOUS
  <2>1. recent[i] \in [request : Requests, outcome : Outcomes]
    BY <1>2, ElementOfSeq
  <2>2. recent[i].outcome = tracker[recent[i].request]
    BY DEF RecentAgrees
  <2> QED
    BY <2>1, <2>2
<1>8. ASSUME NEW i \in 1..Len(recent')
      PROVE  recent'[i].outcome = tracker'[recent'[i].request]
  <2>1. CASE i = 1
    BY <1>1, <1>2, <1>3, <2>1
  <2>2. CASE i # 1
    <3>1. i - 1 \in 1..Len(recent) /\ recent'[i] = recent[i - 1]
      BY <1>3, <2>2
    <3>2. recent[i - 1].outcome = tracker[recent[i - 1].request]
      BY <3>1 DEF RecentAgrees
    <3> QED
      BY <1>1, <1>2, <1>7, <3>1, <3>2
  <2> QED
    BY <2>1, <2>2
<1>9. ASSUME NEW i \in 1..Len(recent'), NEW j \in 1..Len(recent'),
             recent'[i].request = recent'[j].request
      PROVE  i = j
  <2>1. ASSUME NEW k \in 1..Len(recent'), k # 1
        PROVE  k - 1 \in 1..Len(recent) /\ recent'[k] = recent[k - 1] /\ recent'[k].request # r
    <3>1. k \in 2..Kept
      BY <1>3, <2>1
    <3>2. k - 1 \in 1..Len(recent) /\ recent'[k] = recent[k - 1]
      BY <1>3, <3>1
    <3> QED
      BY <1>7, <3>2
  <2>2. CASE i = 1 \/ j = 1
    BY <1>2, <1>3, <1>9, <2>1, <2>2
  <2>3. CASE i # 1 /\ j # 1
    <3>1. i - 1 = j - 1
      BY <1>9, <2>1, <2>3 DEF RecentAgrees
    <3> QED
      BY <1>3, <3>1
  <2> QED
    BY <2>2, <2>3
<1> QED
  BY <1>6, <1>8, <1>9 DEF RecentAgrees, Finalized, m

LEMMA NextRecent ==
    ASSUME Pipeline, RecentAgrees, [Next]_vars
    PROVE  RecentAgrees'
<1>1. MetricsTypeOK
  BY DEF Pipeline, TypeOK
<1>2. ASSUME UNCHANGED recent, Finalized' = Finalized,
             \A q \in Finalized : tracker'[q] = tracker[q]
      PROVE  RecentAgrees'
  <2>1. ASSUME NEW i \in 1..Len(recent) PROVE recent[i].request \in Finalized
    <3>1. recent[i] \in [request : Requests, outcome : Outcomes]
      BY <1>1, ElementOfSeq DEF MetricsTypeOK
    <3>2. recent[i].outcome = tracker[recent[i].request]
      BY DEF RecentAgrees
    <3> QED
      BY <3>1, <3>2 DEF Finalized
  <2> QED
    BY <1>2, <2>1 DEF RecentAgrees, Finalized
<1>3. CASE Started
  <2>1. PICK r \in Requests : tracker[r] = "none" /\ \E s \in BOOLEAN : StartRequest(r, s)
    BY <1>3 DEF Started
  <2>2. tracker' = [tracker EXCEPT ![r] = "running"] /\ UNCHANGED recent
    BY <2>1 DEF StartRequest
  <2>3. Finalized' = Finalized /\ \A q \in Finalized : tracker'[q] = tracker[q]
    BY <1>1, <2>1, <2>2 DEF Finalized, MetricsTypeOK, Outcomes
  <2> QED
    BY <1>2, <2>2, <2>3
<1>4. CASE Routed
  <2>1. UNCHANGED <<tracker, recent>>
    BY <1>4, MetricsAssumption DEF Routed, SetUpstream
  <2> QED
    BY <1>2, <2>1 DEF Finalized
<1>5. CASE Finished
  <2>1. PICK r \in Requests : \E o \in Outcomes : Finish(r, o)
    BY <1>5 DEF Finished
  <2>2. CASE tracker[r] \in Outcomes
    <3>1. UNCHANGED <<tracker, recent>>
      BY <2>1, <2>2 DEF Finish, metricsVars
    <3> QED
      BY <1>2, <3>1 DEF Finalized
  <2>3. CASE tracker[r] \notin Outcomes
    BY <1>1, <2>1, <2>3, FinishRecent
  <2> QED
    BY <2>2, <2>3
<1>6. CASE UNCHANGED metricsVars
  BY <1>2, <1>6 DEF metricsVars, Finalized
<1> QED
  BY <1>3, <1>4, <1>5, <1>6, MetricsStep

LEMMA InitRecent == Init => RecentAgrees
<1> SUFFICES ASSUME Init PROVE RecentAgrees
  OBVIOUS
<1>1. Finalized = {}
  BY DEF Init, MetricsInit, Finalized, Outcomes
<1>2. recent = <<>> /\ Len(recent) = 0
  BY DEF Init, MetricsInit
<1>3. Cardinality(Finalized) = 0
  BY <1>1, FS_EmptySet
<1> QED
  BY <1>2, <1>3, RecentByFinalized, MetricsAssumption

\* The dashboard's recent requests are the last ones that finished, each once and
\* with the outcome it was counted with, up to MAX_RECENT_REQUESTS of them.
THEOREM RecentRequestsAgree == Spec => []RecentAgrees
  BY InitRecent, NextRecent, PipelineHolds, PTL DEF Spec

-----------------------------------------------------------------------------
(* RuntimeAdmin: the invariant *)

\* The admin mutex is held by the write between its phases, the runtime's write
\* lock by the one that is about to commit a data authentication.
Locks ==
    \A w \in Writes : /\ (adminLock = w) <=> writePhase[w] \in Locked
                      /\ (runtimeLock = w) <=> writePhase[w] = "apply"

\* What was submitted is of the kind its target asks for.
Payloads ==
    \A w \in Writes : writePhase[w] # "idle" =>
        IF target[w] = DataAuth THEN payload[w] \in Cas!Modes
                                ELSE payload[w] \in Cas!Configs

\* What a write of a namespace read is still so while it holds the mutex.
NamespaceWriteFresh(w) ==
    target[w] # DataAuth =>
        /\ writePhase[w] \in {"runtime", "build", "commit"} =>
                seenAuth[w] = current[DataAuth] /\ payload[w] \in Allowed(mode)
        /\ writePhase[w] # "apply"

\* And what a write of the data authentication copied.
DataAuthWriteFresh(w) ==
    target[w] = DataAuth =>
        /\ writePhase[w] \in {"build", "commit", "apply"} =>
                seenCurrent[w] = current /\ seenConfig[w] = config
        /\ writePhase[w] \in {"commit", "apply"} =>
                \A n \in Loaded : config[n] \in Allowed(payload[w])

\* The namespaces that are loaded were resolved under the data authentication
\* there is, and its mode allows them.
OneConfiguration ==
    /\ current[DataAuth] # NoRevision
    /\ \A n \in Loaded : builtUnder[n] = current[DataAuth] /\ config[n] \in Allowed(mode)

\* The inductive invariant.
Admin ==
    /\ AdminTypeOK
    /\ Locks
    /\ Payloads
    /\ \A w \in Writes : NamespaceWriteFresh(w) /\ DataAuthWriteFresh(w)
    /\ OneConfiguration
    /\ ContextIsOneConfiguration

USE DEF Cas!Targets, Cas!Revisions

\* Only configurations are allowed.
LEMMA AllowedConfigs == \A m \in Cas!Modes : Allowed(m) \subseteq Cas!Configs
  BY DEF Allowed, Cas!Allowed, Cas!Modes, Cas!Configs

LEMMA InitAdmin == AdminInit => Admin
<1> SUFFICES ASSUME AdminInit PROVE Admin
  OBVIOUS
<1>1. AdminTypeOK
  BY DEF AdminInit, AdminTypeOK, WritePhases, Cas!Init, Cas!Modes
<1>2. OneConfiguration
  BY NamesAssumption DEF AdminInit, OneConfiguration, Loaded, Allowed, Cas!Init, Cas!Loaded
<1> QED
  BY <1>1, <1>2, NamesAssumption
  DEF AdminInit, Admin, Locks, Locked, Payloads, NamespaceWriteFresh, DataAuthWriteFresh,
      ContextIsOneConfiguration

-----------------------------------------------------------------------------
(* RuntimeAdmin: steps *)

\* What every part of the invariant needs of a step that commits nothing.
LEMMA NoCommit ==
    ASSUME Admin, AdminTypeOK', Locks', Payloads', UNCHANGED liveVars,
           \A w \in Writes : NamespaceWriteFresh(w)' /\ DataAuthWriteFresh(w)',
           ContextIsOneConfiguration'
    PROVE  Admin'
  BY DEF Admin, OneConfiguration, liveVars, Loaded, Allowed, Cas!Loaded, Cas!Allowed

\* The first steps of a write, and its end without a commit.
LEMMA WriteWaits ==
    ASSUME Admin, NEW w \in Writes,
           Submit(w) \/ TakeAdminLock(w) \/ ReadAccess(w) \/ ReadRuntime(w) \/ BuildUpstreams(w)
             \/ TakeRuntimeLock(w) \/ Abandon(w)
    PROVE  Admin'
<1>1. UNCHANGED <<liveVars, reader, ctxVars>>
  BY DEF Submit, TakeAdminLock, ReadAccess, ReadRuntime, BuildUpstreams, TakeRuntimeLock, Abandon
<1>2. ContextIsOneConfiguration'
  BY <1>1 DEF Admin, ContextIsOneConfiguration, ctxVars, Allowed, Cas!Allowed
<1>3. /\ mode' = mode /\ current' = current /\ config' = config /\ Loaded' = Loaded
      /\ \A m : Allowed(m)' = Allowed(m)
  BY <1>1 DEF liveVars, Loaded, Cas!Loaded, Allowed, Cas!Allowed
<1> USE NamesAssumption DEF Admin
<1>4. CASE Submit(w)
  <2>1. AdminTypeOK'
    <3>1. writePhase' \in [Writes -> WritePhases]
      BY <1>4 DEF AdminTypeOK, Submit, WriteGoesTo, WritePhases
    <3>2. /\ target' \in [Writes -> Cas!Targets]
          /\ expected' \in [Writes -> Cas!Revisions \cup {NoRevision}]
          /\ payload' \in [Writes -> Cas!Configs \cup Cas!Modes]
      <4>1. PICK what \in Cas!Targets :
                /\ target' = [target EXCEPT ![w] = what]
                /\ \E ifRevision \in {NoRevision, current[what]} :
                      expected' = [expected EXCEPT ![w] = ifRevision]
                /\ \E new \in Cas!Configs \cup Cas!Modes : payload' = [payload EXCEPT ![w] = new]
        BY <1>4 DEF Submit
      <4>2. current[what] \in Cas!Revisions \cup {NoRevision}
        BY <4>1 DEF AdminTypeOK
      <4>. QED BY <4>1, <4>2 DEF AdminTypeOK
    <3>3. UNCHANGED <<liveVars, lockVars, seenVars, reader, ctxVars>>
      BY <1>4 DEF Submit
    <3>. QED BY <3>1, <3>2, <3>3 DEF AdminTypeOK, liveVars, lockVars, seenVars, ctxVars
  <2>2. Locks'
    BY <1>4 DEF AdminTypeOK, Locks, Locked, Submit, WriteGoesTo, lockVars
  <2>3. Payloads'
    BY <1>4 DEF AdminTypeOK, Payloads, Submit, WriteGoesTo
  <2>4. \A v \in Writes : NamespaceWriteFresh(v)' /\ DataAuthWriteFresh(v)'
    BY <1>3, <1>4 DEF AdminTypeOK, NamespaceWriteFresh, DataAuthWriteFresh, Submit, WriteGoesTo, seenVars
  <2> QED
    BY <1>1, <1>2, <2>1, <2>2, <2>3, <2>4, NoCommit
<1>5. CASE TakeAdminLock(w)
  <2>1. AdminTypeOK'
    BY <1>5 DEF AdminTypeOK, TakeAdminLock, WriteGoesTo, WritePhases, liveVars, writeVars, seenVars, ctxVars
  <2>2. Locks'
    BY <1>5 DEF AdminTypeOK, Locks, Locked, TakeAdminLock, WriteGoesTo
  <2>3. Payloads'
    BY <1>5 DEF AdminTypeOK, Payloads, TakeAdminLock, WriteGoesTo, writeVars
  <2>4. \A v \in Writes : NamespaceWriteFresh(v)' /\ DataAuthWriteFresh(v)'
    BY <1>3, <1>5
    DEF AdminTypeOK, NamespaceWriteFresh, DataAuthWriteFresh, TakeAdminLock, WriteGoesTo, seenVars, writeVars
  <2> QED
    BY <1>1, <1>2, <2>1, <2>2, <2>3, <2>4, NoCommit
<1>6. CASE Leave(w, "refused") /\ writePhase[w] # "idle" /\ UNCHANGED writeVars
           /\ seenAuth' \in [Writes -> Cas!Revisions \cup {NoRevision}]
           /\ seenCurrent' \in [Writes -> [Cas!Targets -> Cas!Revisions \cup {NoRevision}]]
           /\ seenConfig' \in [Writes -> [Namespaces -> Cas!Configs]]
           /\ \A v \in Writes \ {w} : /\ seenAuth'[v] = seenAuth[v] /\ seenConfig'[v] = seenConfig[v]
                                      /\ seenCurrent'[v] = seenCurrent[v]
  <2>1. AdminTypeOK'
    BY <1>1, <1>6 DEF AdminTypeOK, Leave, WriteGoesTo, WritePhases, liveVars, writeVars, ctxVars
  <2>2. Locks'
    BY <1>6 DEF AdminTypeOK, Locks, Locked, Leave, WriteGoesTo
  <2>3. Payloads'
    BY <1>6 DEF AdminTypeOK, Payloads, Leave, WriteGoesTo, writeVars
  <2>4. \A v \in Writes : NamespaceWriteFresh(v)' /\ DataAuthWriteFresh(v)'
    BY <1>3, <1>6 DEF AdminTypeOK, NamespaceWriteFresh, DataAuthWriteFresh, Leave, WriteGoesTo, writeVars
  <2> QED
    BY <1>1, <1>2, <2>1, <2>2, <2>3, <2>4, NoCommit
<1>7. CASE ReadAccess(w)
  <2>1. CASE Leave(w, "refused")
    BY <1>6, <1>7, <2>1 DEF ReadAccess, AdminTypeOK
  <2>2. CASE WriteGoesTo(w, "runtime") /\ UNCHANGED lockVars
             /\ (target[w] # DataAuth => payload[w] \in Allowed(mode))
    <3>1. AdminTypeOK'
      BY <1>7, <2>2 DEF AdminTypeOK, ReadAccess, WriteGoesTo, WritePhases, liveVars, lockVars, writeVars, ctxVars
    <3>2. Locks'
      BY <1>7, <2>2 DEF AdminTypeOK, Locks, Locked, ReadAccess, WriteGoesTo, lockVars
    <3>3. Payloads'
      BY <1>7, <2>2 DEF AdminTypeOK, Payloads, ReadAccess, WriteGoesTo, writeVars
    <3>4. \A v \in Writes : NamespaceWriteFresh(v)' /\ DataAuthWriteFresh(v)'
      BY <1>3, <1>7, <2>2
      DEF AdminTypeOK, NamespaceWriteFresh, DataAuthWriteFresh, ReadAccess, WriteGoesTo, writeVars
    <3> QED
      BY <1>1, <1>2, <3>1, <3>2, <3>3, <3>4, NoCommit
  <2> QED
    BY <1>7, <2>1, <2>2 DEF ReadAccess
<1>8. CASE ReadRuntime(w)
  <2>1. CASE Leave(w, "refused")
    BY <1>6, <1>8, <2>1 DEF ReadRuntime, AdminTypeOK
  <2>2. CASE WriteGoesTo(w, "build") /\ UNCHANGED lockVars
    <3>1. AdminTypeOK'
      BY <1>8, <2>2 DEF AdminTypeOK, ReadRuntime, WriteGoesTo, WritePhases, liveVars, lockVars, writeVars, ctxVars
    <3>2. Locks'
      BY <1>8, <2>2 DEF AdminTypeOK, Locks, Locked, ReadRuntime, WriteGoesTo, lockVars
    <3>3. Payloads'
      BY <1>8, <2>2 DEF AdminTypeOK, Payloads, ReadRuntime, WriteGoesTo, writeVars
    <3>4. \A v \in Writes : NamespaceWriteFresh(v)' /\ DataAuthWriteFresh(v)'
      BY <1>3, <1>8, <2>2
      DEF AdminTypeOK, NamespaceWriteFresh, DataAuthWriteFresh, ReadRuntime, WriteGoesTo, writeVars
    <3> QED
      BY <1>1, <1>2, <3>1, <3>2, <3>3, <3>4, NoCommit
  <2> QED
    BY <1>8, <2>1, <2>2 DEF ReadRuntime
<1>9. CASE BuildUpstreams(w)
  <2>1. CASE Leave(w, "refused")
    BY <1>6, <1>9, <2>1 DEF BuildUpstreams, seenVars, AdminTypeOK
  <2>2. CASE /\ WriteGoesTo(w, "commit") /\ UNCHANGED lockVars
             /\ target[w] = DataAuth => \A n \in Copied(w) : seenConfig[w][n] \in Allowed(payload[w])
    <3>1. AdminTypeOK'
      BY <1>9, <2>2 DEF AdminTypeOK, BuildUpstreams, WriteGoesTo, WritePhases, liveVars, lockVars, writeVars, seenVars, ctxVars
    <3>2. Locks'
      BY <1>9, <2>2 DEF AdminTypeOK, Locks, Locked, BuildUpstreams, WriteGoesTo, lockVars
    <3>3. Payloads'
      BY <1>9, <2>2 DEF AdminTypeOK, Payloads, BuildUpstreams, WriteGoesTo, writeVars
    <3>4. target[w] = DataAuth => \A n \in Loaded : config[n] \in Allowed(payload[w])
      BY <1>9, <2>2 DEF DataAuthWriteFresh, BuildUpstreams, Copied, Loaded, Cas!Loaded
    <3>5. \A v \in Writes : NamespaceWriteFresh(v)' /\ DataAuthWriteFresh(v)'
      BY <1>3, <1>9, <2>2, <3>4
      DEF AdminTypeOK, NamespaceWriteFresh, DataAuthWriteFresh, BuildUpstreams, WriteGoesTo, writeVars, seenVars
    <3> QED
      BY <1>1, <1>2, <3>1, <3>2, <3>3, <3>5, NoCommit
  <2> QED
    BY <1>9, <2>1, <2>2 DEF BuildUpstreams
<1>10. CASE TakeRuntimeLock(w)
  <2>1. AdminTypeOK'
    BY <1>10 DEF AdminTypeOK, TakeRuntimeLock, WriteGoesTo, WritePhases, liveVars, writeVars, seenVars, ctxVars
  <2>2. Locks'
    BY <1>10 DEF AdminTypeOK, Locks, Locked, TakeRuntimeLock, Readable, WriteGoesTo
  <2>3. Payloads'
    BY <1>10 DEF AdminTypeOK, Payloads, TakeRuntimeLock, WriteGoesTo, writeVars
  <2>4. \A v \in Writes : NamespaceWriteFresh(v)' /\ DataAuthWriteFresh(v)'
    BY <1>3, <1>10
    DEF AdminTypeOK, NamespaceWriteFresh, DataAuthWriteFresh, TakeRuntimeLock, WriteGoesTo, seenVars, writeVars
  <2> QED
    BY <1>1, <1>2, <2>1, <2>2, <2>3, <2>4, NoCommit
<1>11. CASE Abandon(w)
  BY <1>6, <1>11 DEF Abandon, Locked, seenVars, AdminTypeOK
<1> QED
  BY <1>4, <1>5, <1>7, <1>8, <1>9, <1>10, <1>11

\* The writes that do not hold the mutex have read nothing yet, or are over.
LEMMA OnlyOneLocked ==
    ASSUME Admin, NEW w \in Writes, writePhase[w] \in Locked
    PROVE  \A v \in Writes \ {w} : writePhase[v] \notin Locked
  BY DEF Admin, Locks

\* A commit: nobody else has read what changes, and what is loaded afterwards was
\* resolved and allowed under the data authentication there is then.
LEMMA Commits ==
    ASSUME Admin, NEW w \in Writes, writePhase[w] \in Locked, Leave(w, "applied"),
           UNCHANGED <<writeVars, seenVars, reader, ctxVars>>,
           mode' \in Cas!Modes,
           current' \in [Cas!Targets -> Cas!Revisions \cup {NoRevision}],
           config' \in [Namespaces -> Cas!Configs],
           builtUnder' \in [Namespaces -> Cas!Revisions],
           OneConfiguration'
    PROVE  Admin'
<1> USE NamesAssumption DEF Admin
<1>1. AdminTypeOK'
  BY DEF AdminTypeOK, Leave, WriteGoesTo, WritePhases, writeVars, seenVars, ctxVars
<1>2. Locks'
  BY DEF AdminTypeOK, Locks, Locked, Leave, WriteGoesTo
<1>3. Payloads'
  BY DEF AdminTypeOK, Payloads, Leave, WriteGoesTo, Locked, writeVars
<1>4. \A v \in Writes : writePhase'[v] \notin Locked
  BY OnlyOneLocked DEF AdminTypeOK, Leave, WriteGoesTo, Locked
<1>5. \A v \in Writes : NamespaceWriteFresh(v)' /\ DataAuthWriteFresh(v)'
  BY <1>4 DEF NamespaceWriteFresh, DataAuthWriteFresh, Locked
<1>6. ContextIsOneConfiguration'
  BY DEF ContextIsOneConfiguration, ctxVars, Allowed, Cas!Allowed
<1> QED
  BY <1>1, <1>2, <1>3, <1>5, <1>6

\* A precondition that fails under the lock leaves everything alone.
LEMMA CommitRefused ==
    ASSUME Admin, NEW w \in Writes, writePhase[w] \in Locked, Leave(w, "refused"),
           UNCHANGED <<liveVars, writeVars, seenVars, reader, ctxVars>>
    PROVE  Admin'
  BY WriteWaits DEF Abandon

LEMMA NamespaceCommits ==
    ASSUME Admin, NEW w \in Writes, CommitNamespace(w)
    PROVE  Admin'
<1> USE NamesAssumption DEF Admin
<1>1. writePhase[w] \in Locked
  BY DEF CommitNamespace, Locked
<1>2. CASE Leave(w, "refused") /\ UNCHANGED <<current, config, builtUnder>>
  BY <1>1, <1>2, CommitRefused DEF CommitNamespace, liveVars
<1>3. CASE /\ Leave(w, "applied")
           /\ current' = [current EXCEPT ![target[w]] = w]
           /\ config' = [config EXCEPT ![target[w]] = payload[w]]
           /\ builtUnder' = [builtUnder EXCEPT ![target[w]] = seenAuth[w]]
  <2> DEFINE n == target[w]
  <2>1. /\ n \in Namespaces /\ n # DataAuth /\ writePhase[w] = "commit" /\ mode' = mode
        /\ payload[w] \in Cas!Configs /\ payload[w] \in Allowed(mode)
        /\ seenAuth[w] = current[DataAuth]
    BY DEF AdminTypeOK, CommitNamespace, Payloads, NamespaceWriteFresh
  <2>2. current[DataAuth] \in Cas!Revisions
    BY DEF AdminTypeOK, OneConfiguration
  <2>3. /\ current' \in [Cas!Targets -> Cas!Revisions \cup {NoRevision}]
        /\ config' \in [Namespaces -> Cas!Configs]
        /\ builtUnder' \in [Namespaces -> Cas!Revisions]
    BY <1>3, <2>1, <2>2 DEF AdminTypeOK
  <2>4. OneConfiguration'
    BY <1>3, <2>1 DEF AdminTypeOK, OneConfiguration, Loaded, Cas!Loaded, Allowed, Cas!Allowed
  <2> QED
    BY <1>1, <1>3, <2>1, <2>3, <2>4, Commits DEF CommitNamespace, AdminTypeOK
<1> QED
  BY <1>2, <1>3 DEF CommitNamespace

LEMMA DataAuthCommits ==
    ASSUME Admin, NEW w \in Writes, CommitDataAuth(w)
    PROVE  Admin'
<1> USE NamesAssumption DEF Admin
<1>1. writePhase[w] \in Locked
  BY DEF CommitDataAuth, Locked
<1>2. CASE Leave(w, "refused") /\ UNCHANGED liveVars
  BY <1>1, <1>2, CommitRefused DEF CommitDataAuth
<1>3. CASE /\ Leave(w, "applied")
           /\ current' = [seenCurrent[w] EXCEPT ![DataAuth] = w]
           /\ config' = seenConfig[w]
           /\ builtUnder' = [n \in Namespaces |-> w]
           /\ mode' = payload[w]
  <2>1. target[w] = DataAuth /\ writePhase[w] = "apply"
    BY DEF CommitDataAuth, NamespaceWriteFresh
  <2>2. /\ seenCurrent[w] = current /\ seenConfig[w] = config
        /\ payload[w] \in Cas!Modes
        /\ \A n \in Loaded : config[n] \in Allowed(payload[w])
    BY <2>1 DEF DataAuthWriteFresh, Payloads
  <2>3. /\ current' \in [Cas!Targets -> Cas!Revisions \cup {NoRevision}]
        /\ builtUnder' \in [Namespaces -> Cas!Revisions]
    BY <1>3, <2>2 DEF AdminTypeOK
  <2>4. Loaded' = Loaded
    BY <1>3, <2>2 DEF AdminTypeOK, Loaded, Cas!Loaded
  <2>5. OneConfiguration'
    BY <1>3, <2>2, <2>4 DEF AdminTypeOK, OneConfiguration, Loaded, Cas!Loaded, Allowed, Cas!Allowed
  <2> QED
    BY <1>1, <1>3, <2>2, <2>3, <2>5, Commits DEF CommitDataAuth, AdminTypeOK
<1> QED
  BY <1>2, <1>3 DEF CommitDataAuth

\* A request copies what is current under both locks.
LEMMA RequestSteps ==
    ASSUME Admin, NEW r \in Readers,
           StartAuthorization(r) \/ Authorize(r) \/ AbandonRequest(r)
    PROVE  Admin'
<1> USE DEF Admin
<1>1. UNCHANGED <<liveVars, lockVars, writePhase, writeVars, seenVars>>
  BY DEF StartAuthorization, Authorize, AbandonRequest
<1>2. AdminTypeOK'
  <2>1. reader' \in [Readers -> {"idle", "runtime", "authorized", "rejected"}]
    BY DEF AdminTypeOK, StartAuthorization, Authorize, AbandonRequest
  <2>2. CASE UNCHANGED ctxVars
    BY <1>1, <2>1, <2>2 DEF AdminTypeOK, liveVars, lockVars, writeVars, seenVars, ctxVars
  <2>3. CASE ~ UNCHANGED ctxVars
    <3>1. /\ ctxMode' \in [Readers -> Cas!Modes]
          /\ ctxAuth' \in [Readers -> Cas!Revisions \cup {NoRevision}]
          /\ ctxConfig' \in [Readers -> [Namespaces -> Cas!Configs]]
          /\ ctxBuilt' \in [Readers -> [Namespaces -> Cas!Revisions]]
      <4>1. /\ ctxMode' = [ctxMode EXCEPT ![r] = mode]
            /\ ctxAuth' = [ctxAuth EXCEPT ![r] = current[DataAuth]]
            /\ ctxConfig' = [ctxConfig EXCEPT ![r] = config]
            /\ ctxBuilt' = [ctxBuilt EXCEPT ![r] = builtUnder]
        BY <2>3 DEF StartAuthorization, Authorize, AbandonRequest
      <4> QED
        BY <4>1 DEF AdminTypeOK
    <3>2. ctxLoaded' \in [Readers -> SUBSET Namespaces]
      BY <2>3 DEF AdminTypeOK, StartAuthorization, Authorize, AbandonRequest, Loaded, Cas!Loaded
    <3> QED
      BY <1>1, <2>1, <3>1, <3>2 DEF AdminTypeOK, liveVars, lockVars, writeVars, seenVars
  <2> QED
    BY <2>2, <2>3
<1>3. Locks' /\ Payloads'
  BY <1>1 DEF Locks, Payloads, lockVars, writeVars
<1>4. \A v \in Writes : NamespaceWriteFresh(v)' /\ DataAuthWriteFresh(v)'
  BY <1>1 DEF NamespaceWriteFresh, DataAuthWriteFresh, writeVars, seenVars, liveVars,
              Loaded, Allowed, Cas!Loaded, Cas!Allowed
<1>5. ContextIsOneConfiguration'
  <2>1. CASE ctxVars' = ctxVars /\ \A q \in Readers : reader'[q] = "authorized" => reader[q] = "authorized"
    BY <2>1 DEF ContextIsOneConfiguration, ctxVars, Allowed, Cas!Allowed
  <2>2. CASE /\ ctxMode' = [ctxMode EXCEPT ![r] = mode]
             /\ ctxAuth' = [ctxAuth EXCEPT ![r] = current[DataAuth]]
             /\ ctxLoaded' = [ctxLoaded EXCEPT ![r] = Loaded]
             /\ ctxConfig' = [ctxConfig EXCEPT ![r] = config]
             /\ ctxBuilt' = [ctxBuilt EXCEPT ![r] = builtUnder]
             /\ reader' = [reader EXCEPT ![r] = "authorized"]
    <3> SUFFICES ASSUME NEW q \in Readers, reader'[q] = "authorized", NEW n \in ctxLoaded'[q]
                 PROVE  ctxBuilt'[q][n] = ctxAuth'[q] /\ ctxConfig'[q][n] \in Allowed(ctxMode'[q])
      BY DEF ContextIsOneConfiguration, Allowed, Cas!Allowed
    <3>1. CASE q = r
      <4>1. /\ ctxLoaded'[q] = Loaded /\ ctxBuilt'[q] = builtUnder /\ ctxConfig'[q] = config
            /\ ctxMode'[q] = mode /\ ctxAuth'[q] = current[DataAuth]
        BY <2>2, <3>1 DEF AdminTypeOK
      <4> QED
        BY <4>1 DEF OneConfiguration
    <3>2. CASE q # r
      <4>1. /\ ctxLoaded'[q] = ctxLoaded[q] /\ ctxBuilt'[q] = ctxBuilt[q]
            /\ ctxConfig'[q] = ctxConfig[q] /\ ctxMode'[q] = ctxMode[q]
            /\ ctxAuth'[q] = ctxAuth[q] /\ reader[q] = "authorized"
        BY <2>2, <3>2 DEF AdminTypeOK
      <4> QED
        BY <4>1 DEF ContextIsOneConfiguration
    <3> QED
      BY <3>1, <3>2
  <2> QED
    BY <2>1, <2>2 DEF AdminTypeOK, StartAuthorization, Authorize, AbandonRequest
<1> QED
  BY <1>1, <1>2, <1>3, <1>4, <1>5, NoCommit

LEMMA NextAdmin == Admin /\ [AdminNext]_adminVars => Admin'
<1> SUFFICES ASSUME Admin, [AdminNext]_adminVars PROVE Admin'
  OBVIOUS
<1>1. CASE UNCHANGED adminVars
  BY <1>1 DEF adminVars, liveVars, lockVars, writeVars, seenVars, ctxVars, Admin, AdminTypeOK, Locks,
      Payloads, NamespaceWriteFresh, DataAuthWriteFresh, OneConfiguration,
      ContextIsOneConfiguration, Loaded, Allowed, Cas!Loaded, Cas!Allowed
<1>2. ASSUME NEW w \in Writes, Submit(w) \/ WriteStep(w) \/ Abandon(w) PROVE Admin'
  BY <1>2, WriteWaits, NamespaceCommits, DataAuthCommits DEF WriteStep
<1> QED
  BY <1>1, <1>2, RequestSteps DEF AdminNext

LEMMA AdminInvariant == AdminSpec => []Admin
<1> QED
  BY InitAdmin, NextAdmin, PTL DEF AdminSpec

\* Every variable of the admin handlers and of the request contexts keeps its type.
THEOREM AdminTypesHold == AdminSpec => []AdminTypeOK
<1>1. Admin => AdminTypeOK
  BY DEF Admin
<1> QED
  BY <1>1, AdminInvariant, PTL

\* Every request is served from one configuration, however many writes and
\* requests there are and wherever they are interrupted.
THEOREM RequestsSeeOneConfiguration == AdminSpec => []ContextIsOneConfiguration
<1>1. Admin => ContextIsOneConfiguration
  BY DEF Admin
<1> QED
  BY <1>1, AdminInvariant, PTL

-----------------------------------------------------------------------------
(* RuntimeAdmin: one winner *)

\* Revisions an administrator can have read: those of startup and of the writes
\* that were applied. The revision an applied write replaced never comes back.
Known == {Initial, NoRevision} \cup {w \in Writes : writePhase[w] = "applied"}

Winners ==
    /\ \A x \in Cas!Targets : current[x] \in Known
    /\ \A w \in Writes : writePhase[w] # "idle" => expected[w] \in Known
    /\ \A w \in Writes : writePhase[w] = "applied" => expected[w] # current[target[w]]
    /\ OneWinner

LEMMA InitWinners == AdminInit => Winners
  BY DEF AdminInit, Cas!Init, Winners, Known, OneWinner

\* A step that applies no write.
LEMMA WinnersStay ==
    ASSUME Admin, Winners, UNCHANGED current,
           \A w \in Writes : writePhase'[w] = "applied" <=> writePhase[w] = "applied",
           \A w \in Writes : writePhase[w] = "applied" =>
                expected'[w] = expected[w] /\ target'[w] = target[w],
           \A w \in Writes : writePhase'[w] # "idle" => expected'[w] \in Known
    PROVE  Winners'
  BY DEF Winners, Known, OneWinner

\* A step that applies one on the revision it names.
LEMMA WinnersAfterApply ==
    ASSUME Admin, Winners, NEW w \in Writes, writePhase[w] \in Locked, target[w] \in Cas!Targets,
           writePhase' = [writePhase EXCEPT ![w] = "applied"], UNCHANGED writeVars,
           expected[w] = current[target[w]],
           current' = [current EXCEPT ![target[w]] = w]
    PROVE  Winners'
<1>1. writePhase \in [Writes -> WritePhases] /\ current \in [Cas!Targets -> Cas!Revisions \cup {NoRevision}]
  BY DEF Admin, AdminTypeOK
<1>2. writePhase[w] # "applied" /\ writePhase[w] # "idle"
  BY DEF Locked
<1>3. Known' = Known \cup {w} /\ w \notin Known
  BY <1>1, <1>2, NamesAssumption DEF Known
<1>4. UNCHANGED <<expected, target>>
  BY DEF writeVars
<1>5. \A x \in Cas!Targets : current'[x] \in Known'
  BY <1>1, <1>3 DEF Winners
<1>6. \A v \in Writes : writePhase'[v] # "idle" => expected'[v] \in Known'
  BY <1>1, <1>2, <1>3, <1>4 DEF Winners
<1>7. \A v \in Writes : writePhase'[v] = "applied" => expected'[v] # current'[target'[v]]
  BY <1>1, <1>2, <1>3, <1>4 DEF Winners, Admin, AdminTypeOK
<1>8. OneWinner'
  BY <1>1, <1>2, <1>4 DEF Winners, OneWinner
<1> QED
  BY <1>5, <1>6, <1>7, <1>8 DEF Winners

\* The commit of a write of the data authentication changes its revision alone:
\* what it copied is still what there is.
LEMMA DataAuthCopiesCurrent ==
    ASSUME Admin, NEW w \in Writes, CommitDataAuth(w)
    PROVE  target[w] = DataAuth /\ seenCurrent[w] = current /\ seenConfig[w] = config
  BY DEF Admin, CommitDataAuth, NamespaceWriteFresh, DataAuthWriteFresh

LEMMA NextWinners == Admin /\ Winners /\ [AdminNext]_adminVars => Winners'
<1> SUFFICES ASSUME Admin, Winners, [AdminNext]_adminVars PROVE Winners'
  OBVIOUS
<1> USE DEF WriteGoesTo, Leave, liveVars, writeVars, adminVars
<1>0. writePhase \in [Writes -> WritePhases] /\ expected \in [Writes -> Cas!Revisions \cup {NoRevision}]
      /\ target \in [Writes -> Cas!Targets]
  BY DEF Admin, AdminTypeOK
<1>1. CASE UNCHANGED <<current, writePhase, writeVars>>
  BY <1>1, WinnersStay DEF Winners
<1>2. ASSUME NEW w \in Writes, Submit(w) PROVE Winners'
  <2>1. /\ UNCHANGED current /\ writePhase[w] = "idle" /\ writePhase' = [writePhase EXCEPT ![w] = "lock"]
        /\ \E what \in Cas!Targets : \E ifRevision \in {NoRevision, current[what]} :
              /\ target' = [target EXCEPT ![w] = what]
              /\ expected' = [expected EXCEPT ![w] = ifRevision]
    BY <1>2 DEF Submit
  <2>2. \A v \in Writes : writePhase'[v] # "idle" => expected'[v] \in Known
    BY <1>0, <2>1 DEF Winners, Known
  <2>3. \A v \in Writes : writePhase[v] = "applied" => expected'[v] = expected[v] /\ target'[v] = target[v]
    BY <1>0, <2>1
  <2>4. \A v \in Writes : writePhase'[v] = "applied" <=> writePhase[v] = "applied"
    BY <1>0, <2>1
  <2> QED
    BY <2>1, <2>2, <2>3, <2>4, WinnersStay
<1>3. ASSUME NEW w \in Writes, writePhase[w] \in Locked \cup {"lock"}, NEW p \in WritePhases \ {"idle", "applied"},
             writePhase' = [writePhase EXCEPT ![w] = p], UNCHANGED <<current, writeVars>>
      PROVE  Winners'
  <2>1. \A v \in Writes : writePhase'[v] = "applied" <=> writePhase[v] = "applied"
    BY <1>0, <1>3 DEF Locked
  <2>2. \A v \in Writes : writePhase'[v] # "idle" => expected'[v] \in Known
    BY <1>0, <1>3 DEF Locked, Winners
  <2> QED
    BY <1>3, <2>1, <2>2, WinnersStay
<1>4. ASSUME NEW w \in Writes,
             TakeAdminLock(w) \/ ReadAccess(w) \/ ReadRuntime(w) \/ BuildUpstreams(w) \/ TakeRuntimeLock(w)
               \/ Abandon(w)
      PROVE  Winners'
  BY <1>3, <1>4 DEF TakeAdminLock, ReadAccess, ReadRuntime, BuildUpstreams, TakeRuntimeLock, Abandon,
                    WritePhases, Locked
<1>5. ASSUME NEW w \in Writes, CommitNamespace(w) PROVE Winners'
  <2>1. CASE Leave(w, "refused") /\ UNCHANGED current
    BY <1>3, <1>5, <2>1 DEF CommitNamespace, WritePhases, Locked
  <2>2. CASE /\ current[target[w]] = expected[w] /\ Leave(w, "applied")
             /\ current' = [current EXCEPT ![target[w]] = w]
    BY <1>0, <1>5, <2>2, WinnersAfterApply DEF CommitNamespace, Locked
  <2> QED
    BY <1>5, <2>1, <2>2 DEF CommitNamespace, Precondition
<1>6. ASSUME NEW w \in Writes, CommitDataAuth(w) PROVE Winners'
  <2>1. CASE Leave(w, "refused") /\ UNCHANGED current
    BY <1>3, <1>6, <2>1 DEF CommitDataAuth, WritePhases, Locked
  <2>2. CASE /\ current[DataAuth] = expected[w] /\ Leave(w, "applied")
             /\ current' = [seenCurrent[w] EXCEPT ![DataAuth] = w]
    BY <1>0, <1>6, <2>2, WinnersAfterApply, DataAuthCopiesCurrent DEF CommitDataAuth, Locked
  <2> QED
    BY <1>6, <2>1, <2>2 DEF CommitDataAuth, Precondition
<1> QED
  BY <1>1, <1>2, <1>4, <1>5, <1>6
  DEF AdminNext, WriteStep, StartAuthorization, Authorize, AbandonRequest

\* Of all writes of a target that name one revision at most one is applied, for
\* every number of concurrent writes.
THEOREM AtMostOneWinner == AdminSpec => []OneWinner
<1>1. AdminInit => Winners
  BY InitWinners
<1>2. Winners => OneWinner
  BY DEF Winners
<1> QED
  BY <1>1, <1>2, AdminInvariant, NextWinners, PTL DEF AdminSpec

-----------------------------------------------------------------------------
(* RuntimeAdmin: the compare-and-swap object *)

outcomes == [w \in Writes |-> Outcome(writePhase[w])]

\* The outcome of a write that moves is that of the phase it moves to.
LEMMA OutcomesFollow ==
    ASSUME Admin, NEW w \in Writes, NEW p, WriteGoesTo(w, p)
    PROVE  outcomes' = [outcomes EXCEPT ![w] = Outcome(p)]
  BY DEF Admin, AdminTypeOK, WriteGoesTo, outcomes

\* A write that moves on without a commit leaves the object as it is.
LEMMA MoveStutters ==
    ASSUME Admin, NEW w \in Writes, NEW p \in Locked \cup {"lock"}, WriteGoesTo(w, p),
           writePhase[w] \in Locked \cup {"lock"}, UNCHANGED <<liveVars, writeVars>>
    PROVE  UNCHANGED Cas!vars
<1>1. Outcome(p) = Outcome(writePhase[w])
  BY DEF Outcome, Locked
<1>2. outcomes' = outcomes
  BY <1>1, OutcomesFollow DEF outcomes
<1> QED
  BY <1>2 DEF Cas!vars, Cas!state, Cas!writes, liveVars, writeVars, outcomes

\* One that leaves without a commit is refused.
LEMMA LeavingRefuses ==
    ASSUME Admin, NEW w \in Writes, Leave(w, "refused"),
           writePhase[w] \in Locked \cup {"lock"}, UNCHANGED <<liveVars, writeVars>>
    PROVE  Cas!Refuse(w)
<1>1. outcomes' = [outcomes EXCEPT ![w] = "refused"]
  BY OutcomesFollow DEF Leave, Outcome
<1>2. outcomes[w] = "pending"
  BY DEF outcomes, Outcome, Locked
<1> QED
  BY <1>1, <1>2 DEF Cas!Refuse, Cas!state, Cas!writes, liveVars, writeVars, outcomes

\* The step in which a commit takes effect.
LEMMA CommitApplies ==
    ASSUME Admin, NEW w \in Writes, Leave(w, "applied"), writePhase[w] \in Locked,
           expected[w] = current[target[w]],
           current' = [current EXCEPT ![target[w]] = w],
           UNCHANGED writeVars,
           IF target[w] = DataAuth
           THEN /\ \A n \in Loaded : config[n] \in Allowed(payload[w])
                /\ mode' = payload[w]
                /\ UNCHANGED config
           ELSE /\ payload[w] \in Allowed(mode)
                /\ config' = [config EXCEPT ![target[w]] = payload[w]]
                /\ UNCHANGED mode
    PROVE  Cas!Apply(w)
<1>1. outcomes' = [outcomes EXCEPT ![w] = "applied"]
  BY OutcomesFollow DEF Leave, Outcome
<1>2. outcomes[w] = "pending"
  BY DEF outcomes, Outcome, Locked
<1> QED
  BY <1>1, <1>2 DEF Cas!Apply, Cas!writes, writeVars, outcomes, Loaded, Allowed

LEMMA CasStep == Admin /\ [AdminNext]_adminVars => [Cas!Next]_Cas!vars
<1> SUFFICES ASSUME Admin, [AdminNext]_adminVars PROVE [Cas!Next]_Cas!vars
  OBVIOUS
<1>1. CASE UNCHANGED <<liveVars, writePhase, writeVars>>
  BY <1>1 DEF Cas!vars, Cas!state, Cas!writes, liveVars, writeVars
<1>2. ASSUME NEW w \in Writes, Submit(w) PROVE Cas!Submit(w)
  <2>1. outcomes' = [outcomes EXCEPT ![w] = "pending"] /\ outcomes[w] = "idle"
    BY <1>2, OutcomesFollow DEF Submit, Outcome, outcomes
  <2>2. UNCHANGED <<mode, current, config>>
    BY <1>2 DEF Submit, liveVars
  <2>3. \E what \in Cas!Targets : \E ifRevision \in Cas!Revisions \cup {NoRevision} :
            \E new \in Cas!Configs \cup Cas!Modes :
              /\ target' = [target EXCEPT ![w] = what]
              /\ expected' = [expected EXCEPT ![w] = ifRevision]
              /\ payload' = [payload EXCEPT ![w] = new]
    <3>1. PICK what \in Cas!Targets :
            /\ target' = [target EXCEPT ![w] = what]
            /\ \E ifRevision \in {NoRevision, current[what]} :
                  expected' = [expected EXCEPT ![w] = ifRevision]
            /\ \E new \in Cas!Configs \cup Cas!Modes : payload' = [payload EXCEPT ![w] = new]
      BY <1>2 DEF Submit
    <3>2. current[what] \in Cas!Revisions \cup {NoRevision}
      BY <3>1 DEF Admin, AdminTypeOK
    <3> QED
      BY <3>1, <3>2
  <2> QED
    BY <2>1, <2>2, <2>3 DEF Cas!Submit, Cas!state, outcomes
<1>3. ASSUME NEW w \in Writes,
             TakeAdminLock(w) \/ ReadAccess(w) \/ ReadRuntime(w) \/ BuildUpstreams(w) \/ TakeRuntimeLock(w)
               \/ Abandon(w)
      PROVE  Cas!Refuse(w) \/ UNCHANGED Cas!vars
  <2>1. UNCHANGED <<liveVars, writeVars>> /\ writePhase[w] \in Locked \cup {"lock"}
    BY <1>3 DEF TakeAdminLock, ReadAccess, ReadRuntime, BuildUpstreams, TakeRuntimeLock, Abandon, Locked
  <2>2. Leave(w, "refused") \/ \E p \in Locked \cup {"lock"} : WriteGoesTo(w, p)
    BY <1>3 DEF TakeAdminLock, ReadAccess, ReadRuntime, BuildUpstreams, TakeRuntimeLock, Abandon, Locked
  <2> QED
    BY <2>1, <2>2, LeavingRefuses, MoveStutters
<1>4. ASSUME NEW w \in Writes, CommitNamespace(w) PROVE Cas!Refuse(w) \/ Cas!Apply(w)
  <2>1. /\ target[w] # DataAuth /\ writePhase[w] \in Locked /\ UNCHANGED <<mode, writeVars>>
        /\ payload[w] \in Allowed(mode)
    BY <1>4 DEF CommitNamespace, Locked, Admin, NamespaceWriteFresh
  <2>2. CASE Leave(w, "refused") /\ UNCHANGED <<current, config, builtUnder>>
    BY <2>1, <2>2, LeavingRefuses DEF liveVars
  <2>3. CASE /\ Leave(w, "applied") /\ expected[w] = current[target[w]]
             /\ current' = [current EXCEPT ![target[w]] = w]
             /\ config' = [config EXCEPT ![target[w]] = payload[w]]
    BY <2>1, <2>3, CommitApplies
  <2> QED
    BY <1>4, <2>2, <2>3 DEF CommitNamespace, Precondition
<1>5. ASSUME NEW w \in Writes, CommitDataAuth(w) PROVE Cas!Refuse(w) \/ Cas!Apply(w)
  <2>1. /\ target[w] = DataAuth /\ writePhase[w] \in Locked /\ UNCHANGED writeVars
        /\ seenCurrent[w] = current /\ seenConfig[w] = config
        /\ \A n \in Loaded : config[n] \in Allowed(payload[w])
    BY <1>5, DataAuthCopiesCurrent DEF CommitDataAuth, Locked, Admin, DataAuthWriteFresh
  <2>2. CASE Leave(w, "refused") /\ UNCHANGED liveVars
    BY <2>1, <2>2, LeavingRefuses
  <2>3. CASE /\ Leave(w, "applied") /\ expected[w] = current[DataAuth]
             /\ current' = [seenCurrent[w] EXCEPT ![DataAuth] = w]
             /\ config' = seenConfig[w]
             /\ mode' = payload[w]
    BY <2>1, <2>3, CommitApplies
  <2> QED
    BY <1>5, <2>2, <2>3 DEF CommitDataAuth, Precondition
<1> QED
  BY <1>1, <1>2, <1>3, <1>4, <1>5
  DEF AdminNext, WriteStep, StartAuthorization, Authorize, AbandonRequest, adminVars, Cas!Next

\* The handlers of the admin API, with their locks, awaits and lost connections,
\* implement the compare-and-swap object.
THEOREM AdminImplementsCas == AdminSpec => ImplementsCas
<1>1. AdminInit => Cas!Init
  BY DEF AdminInit
<1> QED
  BY <1>1, AdminInvariant, CasStep, PTL DEF AdminSpec, ImplementsCas, Cas!Spec
=============================================================================
