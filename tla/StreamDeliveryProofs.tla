------------------------ MODULE StreamDeliveryProofs ------------------------
(***************************************************************************)
(* What the three observers of a streaming body report, what a translated  *)
(* stream tells its client and what the bridge keeps of it, proved for     *)
(* every upstream, every limit and every clock of StreamDelivery: the      *)
(* agreement and finality of the reports, types, the finality of           *)
(* `response.failed`, that what completed, and nothing else, can be        *)
(* replayed, and that a clean end left nothing out.                        *)
(***************************************************************************)
EXTENDS StreamDelivery, SequenceTheorems, TLAPS

\* Before the body ends nobody has reported anything.
Unreported == tracker = "open" /\ hook = "open" /\ trace = "open" /\ ~ TimedOutOutside

\* The body ended: every wrapper saw the end, only the outermost one saw the
\* cancellation, or only the timers of the raw chain ended it.
EndReported ==
    /\ tracker \in {"success", "cancelled"}
    /\ \/ tracker = "success" /\ hook = "eof" /\ ~ TimedOutOutside
       \/ tracker = "success" /\ hook = "open" /\ TimedOutOutside
       \/ tracker = "cancelled" /\ hook = "open" /\ client = "gone" /\ ~ TimedOutOutside

DropReported ==
    \/ <<tracker, hook>> \in {<<"success", "eof">>, <<"error", "stream_error">>} /\ ~ TimedOutOutside
    \/ /\ <<tracker, hook>> = <<"cancelled", "client_disconnected">>
       /\ client = "gone" /\ ~ TimedOutOutside
    \/ <<tracker, hook>> = <<"success", "client_disconnected">> /\ TimedOutOutside

\* The inductive invariant: what was reported at each point of the body's life,
\* and that a token cancelled before the body was dropped means a lost client.
Reports ==
    /\ pc \in {"parked", "commit", "stream", "drain", "ended", "failed", "dropped"}
    /\ trace = hook
    /\ pc \notin {"ended", "failed", "dropped"} => Unreported
    /\ pc = "ended" => EndReported
    /\ pc = "failed" => tracker = "error" /\ hook = "stream_error" /\ ~ TimedOutOutside
    /\ pc = "dropped" => DropReported
    /\ cancelled /\ pc # "dropped" => client = "gone"

-----------------------------------------------------------------------------
\* The chain is built before anything is reported.
LEMMA InitReports == Init => Reports
  BY DEF Init, Reports, Unreported, TimedOutOutside

\* The upstream and the clock touch no observer; a client that went away stays
\* away, and the watcher cancels only then.
LEMMA OutsideReports == Reports /\ Outside => Reports'
  <1> SUFFICES ASSUME Reports, Outside PROVE Reports'
    OBVIOUS
  <1>1. ASSUME NEW chunk \in Chunks, Arrive(chunk) PROVE Reports'
    BY <1>1 DEF Arrive, Reports, Unreported, EndReported, DropReported, TimedOutOutside,
                outcomeVars, translatorVars
  <1>2. ASSUME NEW how \in {"eof", "error"}, UpstreamEnds(how) PROVE Reports'
    BY <1>2 DEF UpstreamEnds, Reports, Unreported, EndReported, DropReported, TimedOutOutside,
                outcomeVars, translatorVars
  <1>3. CASE Tick
    BY <1>3 DEF Tick, Reports, Unreported, EndReported, DropReported, TimedOutOutside,
                outcomeVars, translatorVars, outsideVars
  <1>4. CASE Disconnect
    BY <1>4 DEF Disconnect, Reports, Unreported, EndReported, DropReported, TimedOutOutside,
                outcomeVars, translatorVars
  <1>5. CASE WatcherCancels
    BY <1>5 DEF WatcherCancels, Reports, Unreported, EndReported, DropReported,
                TimedOutOutside, outcomeVars, translatorVars, outsideVars
  <1>. QED BY <1>1, <1>2, <1>3, <1>4, <1>5 DEF Outside

\* What a wrapper reports first is what it has reported.
LEMMA EndAndError ==
    ASSUME Reports, pc \notin {"ended", "failed", "dropped"},
           UNCHANGED <<pipeline, limit, client, cancelled>>, EndOfStream \/ ErrorOfStream
    PROVE  Reports'
  BY DEF Reports, Unreported, EndReported, DropReported, TimedOutOutside, EndOfStream,
         ErrorOfStream, FirstOf

\* Steps inside the chain that end nothing report nothing.
LEMMA QuietStep ==
    ASSUME Reports, pc \notin {"ended", "failed", "dropped"},
           pc' \in {"parked", "commit", "stream", "drain"},
           UNCHANGED <<pipeline, client, cancelled>>, UNCHANGED outcomeVars,
           limit' = limit \/ pipeline # "raw" \/ limit' \notin {"idle", "duration"}
    PROVE  Reports'
  BY DEF Reports, Unreported, EndReported, DropReported, TimedOutOutside, outcomeVars

\* A poll of the body keeps Reports: only a cancelled token ends it, and only a
\* lost client cancelled it.
LEMMA PollReports == Reports /\ PollBody => Reports'
  BY DEF PollBody, Reports, Unreported, EndReported, DropReported, TimedOutOutside,
         FirstOf, outsideVars, translatorVars

\* Dropping the body finalizes whoever did not report.
LEMMA DropReports == Reports /\ DropBody => Reports'
  BY DEF DropBody, Reports, Unreported, EndReported, DropReported, TimedOutOutside,
         FirstOf, outsideVars, translatorVars

\* Every step of the connection task keeps Reports.
LEMMA ChainReports == Reports /\ ChainStep => Reports'
  <1> SUFFICES ASSUME Reports, ChainStep PROVE Reports'
    OBVIOUS
  <1>1. CASE PollBody
    BY <1>1, PollReports
  <1>2. CASE PopOutput
    <2>1. pc = "stream" /\ pc' \in {"commit", "parked"}
      BY <1>2 DEF PopOutput
    <2>2. UNCHANGED <<pipeline, limit, client, cancelled>> /\ UNCHANGED outcomeVars
      BY <1>2 DEF PopOutput, outsideVars
    <2>. QED BY <2>1, <2>2, QuietStep
  <1>3. CASE CloseAfterOutput
    BY <1>3, EndAndError DEF CloseAfterOutput, outsideVars, translatorVars
  <1>4. CASE TimerExpires
    <2>1. CASE pipeline = "raw"
      <3>1. TimerLimit \in {"idle", "duration"}
        BY DEF TimerLimit
      <3>. QED BY <1>4, <2>1, <3>1 DEF TimerExpires, ReadyToRead, Reports, Unreported,
                  EndReported, TimedOutOutside, FirstOf, outsideVars
    <2>2. CASE pipeline # "raw"
      <3>1. pc = "stream" /\ pc' = pc
        BY <1>4, <2>2 DEF TimerExpires, ReadyToRead
      <3>2. UNCHANGED <<pipeline, client, cancelled>> /\ UNCHANGED outcomeVars
        BY <1>4, <2>2 DEF TimerExpires, outsideVars
      <3>. QED BY <2>2, <3>1, <3>2, QuietStep
    <2>. QED BY <2>1, <2>2
  <1>5. CASE ReadChunk
    <2>1. pc = "stream" /\ pc' \in {"drain", "parked"}
      BY <1>5 DEF ReadChunk, ReadyToRead
    <2>2. UNCHANGED <<pipeline, limit, client, cancelled>> /\ UNCHANGED outcomeVars
      BY <1>5 DEF ReadChunk
    <2>. QED BY <2>1, <2>2, QuietStep
  <1>6. CASE ReadNothing
    <2>1. pc = "stream" /\ UNCHANGED <<pipeline, limit, client, cancelled>>
      BY <1>6 DEF ReadNothing, ReadyToRead, outsideVars, translatorVars
    <2>2. CASE pc' = "parked" /\ UNCHANGED outcomeVars
      BY <2>1, <2>2, QuietStep
    <2>3. CASE EndOfStream \/ ErrorOfStream
      BY <2>1, <2>3, EndAndError
    <2>. QED BY <1>6, <2>2, <2>3 DEF ReadNothing
  <1>7. CASE DrainFrame
    <2>1. pc = "drain" /\ pc' = pc
      BY <1>7 DEF DrainFrame
    <2>2. UNCHANGED <<pipeline, client, cancelled>> /\ UNCHANGED outcomeVars
      BY <1>7 DEF DrainFrame, outsideVars
    <2>3. limit' = limit \/ limit' \in {"frame", "events", "state"}
      BY <1>7 DEF DrainFrame, RejectLimit, GuardFrame, TranslateFrame, FailFrame, SkipFrame
    <2>. QED BY <2>1, <2>2, <2>3, QuietStep
  <1>8. CASE DrainDone
    BY <1>8, QuietStep DEF DrainDone, outsideVars, translatorVars
  <1>9. CASE DropBody
    BY <1>9, DropReports
  <1>. QED BY <1>1, <1>2, <1>3, <1>4, <1>5, <1>6, <1>7, <1>8, <1>9 DEF ChainStep

\* The invariant survives every step.
LEMMA NextReports == Reports /\ [Next]_vars => Reports'
  <1> SUFFICES ASSUME Reports, [Next]_vars PROVE Reports'
    OBVIOUS
  <1>1. CASE Outside
    BY <1>1, OutsideReports
  <1>2. CASE ChainStep
    BY <1>2, ChainReports
  <1>3. ASSUME NEW result \in {"stored", "refused"}, ResolveCommit(result) PROVE Reports'
    BY <1>3, QuietStep DEF ResolveCommit, outsideVars, translatorVars
  <1>4. CASE CommitPending
    BY <1>4, QuietStep DEF CommitPending, outsideVars, translatorVars
  <1>5. CASE UNCHANGED vars
    BY <1>5 DEF vars, Reports, Unreported, EndReported, DropReported, TimedOutOutside,
                outcomeVars, outsideVars, translatorVars
  <1>. QED BY <1>1, <1>2, <1>3, <1>4, <1>5 DEF Next

\* What was reported at each point of a body's life, in every behaviour.
THEOREM ReportsHold == Spec => []Reports
  BY InitReports, NextReports, PTL DEF Spec

-----------------------------------------------------------------------------
\* Once the body is dropped, tracker, hook and trace all have an outcome.
THEOREM EveryObserverFinalized == Spec => []DroppedIsFinal
  <1>1. Reports => DroppedIsFinal
    BY DEF Reports, DropReported, DroppedIsFinal
  <1>. QED BY <1>1, ReportsHold, PTL

\* The three observers agree on the outcome, in all chains, unless a timer ended the raw
\* one from the outside: then the tracker, and only it, counts a success.
THEOREM ObserversReportTheSame == Spec => []ObserversAgree
  <1>1. Reports => ObserversAgree
    BY DEF Reports, DropReported, ObserversAgree, SameOutcome
  <1>. QED BY <1>1, ReportsHold, PTL

\* Unless a timer ended the raw chain from the outside, a stream is reported as
\* cancelled by the client only if the client went away.
THEOREM CancelsAreTrue == Spec => []CancelReportsAreTrue
  <1>1. Reports => CancelReportsAreTrue
    BY DEF Reports, DropReported, EndReported, Unreported, CancelReportsAreTrue
  <1>. QED BY <1>1, ReportsHold, PTL

-----------------------------------------------------------------------------
\* The step of OutcomesAreStable.
Stable ==
    /\ tracker # "open" => tracker' = tracker
    /\ hook # "open" => hook' = hook
    /\ trace # "open" => trace' = trace
    /\ pc = "dropped" => sent' = sent

\* A wrapper that has reported finds its state taken (FirstOf), and nothing is
\* polled once the body is dropped.
LEMMA StepIsStable == Next => Stable
  <1>1. Outside => Stable
    BY DEF Outside, Arrive, UpstreamEnds, Tick, Disconnect, WatcherCancels, Stable,
           outcomeVars
  <1>2. EndOfStream \/ ErrorOfStream =>
            /\ tracker # "open" => tracker' = tracker
            /\ hook # "open" => hook' = hook
            /\ trace # "open" => trace' = trace
    BY DEF EndOfStream, ErrorOfStream, FirstOf
  <1>3. PollBody \/ PopOutput \/ TimerExpires \/ ReadChunk \/ DropBody => Stable
    BY DEF PollBody, PopOutput, TimerExpires, ReadyToRead, ReadChunk, DropBody, FirstOf,
           Stable, outcomeVars
  <1>4. CloseAfterOutput \/ ReadNothing \/ DrainFrame \/ DrainDone => Stable
    BY <1>2 DEF CloseAfterOutput, ReadNothing, DrainFrame, DrainDone, Stable, outcomeVars
  <1>5. ASSUME NEW result \in {"stored", "refused"}, ResolveCommit(result) PROVE Stable
    BY <1>5 DEF ResolveCommit, Stable, outcomeVars
  <1>6. CommitPending => Stable
    BY DEF CommitPending, Stable, outcomeVars
  <1>. QED BY <1>1, <1>3, <1>4, <1>5, <1>6 DEF Next, ChainStep

\* An outcome once reported is final, and a dropped body hands over nothing.
THEOREM ReportedOutcomesAreStable == Spec => OutcomesAreStable
  <1>1. [Next]_vars => [Stable]_vars
    BY StepIsStable
  <1>. QED BY <1>1, PTL DEF Spec, OutcomesAreStable, Stable

-----------------------------------------------------------------------------
(* The order of the stream *)

\* One part of a client's stream: nothing follows a failure, and the response
\* completes once.
Calm(s) ==
    \A i, j \in DOMAIN s :
        i < j => s[i] # "failed" /\ ~ (s[i] = "completed" /\ s[j] = "completed")

\* The same across two parts of which t follows s.
Chained(s, t) ==
    /\ Has(s, "failed") => t = <<>>
    /\ ~ (Has(s, "completed") /\ Has(t, "completed"))

\* What the client has, what the bridge holds back and what is queued read as one
\* well-formed stream, which fails only when it closes.
StreamInOrder ==
    pipeline = "translated" =>
        /\ Calm(sent) /\ Calm(held) /\ Calm(queue)
        /\ Chained(sent, held) /\ Chained(sent, queue) /\ Chained(held, queue)
        /\ ~ closing => \A s \in {sent, held, queue} : ~ Has(s, "failed")
        /\ ~ terminalSent => \A s \in {sent, held, queue} : ~ Has(s, "completed")
        /\ closing => buffer = <<>>

\* Where a capture candidate may stand: only a translated chain has one, only a
\* pending commit holds a frame back, and it is awaited before anything is read.
CaptureStands ==
    /\ pipeline # "translated" => capture = "off"
    /\ capture # "committing" => held = <<>>
    /\ capture = "committing" => \E x \in Frames : held = <<x>>
    /\ pc \in {"stream", "drain"} => capture # "committing"
    /\ pc = "commit" => capture = "committing"

\* The completion a candidate waits for is queued exactly when it was translated,
\* a commit is about a completion that is held or queued, and what was stored
\* completed.
CaptureIsOfCompletion ==
    /\ capture = "armed" /\ ~ disqualified =>
          /\ ~ Has(sent, "completed")
          /\ response <=> Has(queue, "completed")
    /\ capture = "committing" => Has(held, "completed") \/ Has(queue, "completed")
    /\ capture = "stored" =>
          Has(sent, "completed") \/ (pc # "drain" /\ Has(queue, "completed"))

Order == StreamInOrder /\ CaptureStands /\ CaptureIsOfCompletion

-----------------------------------------------------------------------------
(* Frames in sequences *)

\* A frame is in an extended stream if it was there or was added.
LEMMA HasAppend ==
    ASSUME NEW s \in Seq(Frames), NEW x \in Frames, NEW f
    PROVE  Has(Append(s, x), f) <=> Has(s, f) \/ x = f
  <1>1. /\ DOMAIN Append(s, x) = 1..(Len(s) + 1)
        /\ DOMAIN s = 1..Len(s)
        /\ Len(s) \in Nat
    OBVIOUS
  <1>2. /\ Append(s, x)[Len(s) + 1] = x
        /\ \A i \in 1..Len(s) : Append(s, x)[i] = s[i]
    OBVIOUS
  <1>3. 1..(Len(s) + 1) = (1..Len(s)) \cup {Len(s) + 1}
    BY <1>1
  <1>. QED BY <1>1, <1>2, <1>3 DEF Has

\* A frame is in a stream if it comes first or is in the rest.
LEMMA HasTail ==
    ASSUME NEW s \in Seq(Frames), s # <<>>, NEW f
    PROVE  Has(s, f) <=> Head(s) = f \/ Has(Tail(s), f)
  <1>1. /\ Len(s) \in Nat /\ Len(s) > 0
        /\ DOMAIN s = 1..Len(s)
        /\ DOMAIN Tail(s) = 1..(Len(s) - 1)
    OBVIOUS
  <1>2. /\ Head(s) = s[1]
        /\ \A i \in 1..(Len(s) - 1) : Tail(s)[i] = s[i + 1]
    OBVIOUS
  <1>3. \A i \in 1..Len(s) : i = 1 \/ i - 1 \in 1..(Len(s) - 1)
    BY <1>1
  <1>4. 1 \in 1..Len(s) /\ \A i \in 1..(Len(s) - 1) : i + 1 \in 1..Len(s)
    BY <1>1
  <1>5. ASSUME Has(s, f) PROVE Head(s) = f \/ Has(Tail(s), f)
    <2>1. PICK i \in 1..Len(s) : s[i] = f
      BY <1>1, <1>5 DEF Has
    <2>2. CASE i = 1
      BY <1>2, <2>1, <2>2
    <2>3. CASE i - 1 \in 1..(Len(s) - 1)
      <3>1. Tail(s)[i - 1] = s[i]
        BY <1>1, <1>2, <2>1, <2>3
      <3>. QED BY <1>1, <2>1, <2>3, <3>1 DEF Has
    <2>. QED BY <1>3, <2>1, <2>2, <2>3
  <1>6. Head(s) = f \/ Has(Tail(s), f) => Has(s, f)
    BY <1>1, <1>2, <1>4 DEF Has
  <1>. QED BY <1>5, <1>6

\* Extending a stream that has not failed, and completes at most once, keeps it calm.
LEMMA CalmAppend ==
    ASSUME NEW s \in Seq(Frames), NEW x \in Frames, Calm(s), ~ Has(s, "failed"),
           ~ (x = "completed" /\ Has(s, "completed"))
    PROVE  Calm(Append(s, x))
  <1>1. /\ DOMAIN Append(s, x) = 1..(Len(s) + 1)
        /\ DOMAIN s = 1..Len(s)
        /\ Len(s) \in Nat
    OBVIOUS
  <1>2. /\ Append(s, x)[Len(s) + 1] = x
        /\ \A i \in 1..Len(s) : Append(s, x)[i] = s[i]
    OBVIOUS
  <1>3. SUFFICES ASSUME NEW i \in 1..(Len(s) + 1), NEW j \in 1..(Len(s) + 1), i < j
                 PROVE  /\ Append(s, x)[i] # "failed"
                        /\ ~ (Append(s, x)[i] = "completed" /\ Append(s, x)[j] = "completed")
    BY <1>1 DEF Calm
  <1>4. i \in 1..Len(s) /\ (j \in 1..Len(s) \/ j = Len(s) + 1)
    BY <1>1, <1>3
  <1>5. Append(s, x)[i] = s[i] /\ s[i] # "failed"
    BY <1>1, <1>2, <1>4 DEF Has
  <1>6. CASE j \in 1..Len(s)
    BY <1>1, <1>2, <1>3, <1>4, <1>5, <1>6 DEF Calm
  <1>7. CASE j = Len(s) + 1
    BY <1>1, <1>2, <1>4, <1>5, <1>7 DEF Has
  <1>. QED BY <1>4, <1>6, <1>7

\* Taking the first frame leaves a calm stream that follows it calmly.
LEMMA CalmTail ==
    ASSUME NEW s \in Seq(Frames), s # <<>>, Calm(s)
    PROVE  /\ Calm(Tail(s))
           /\ Head(s) = "failed" => Tail(s) = <<>>
           /\ ~ (Head(s) = "completed" /\ Has(Tail(s), "completed"))
  <1>1. /\ Len(s) \in Nat /\ Len(s) > 0
        /\ DOMAIN s = 1..Len(s)
        /\ DOMAIN Tail(s) = 1..(Len(s) - 1)
        /\ Tail(s) \in Seq(Frames)
        /\ Len(Tail(s)) = Len(s) - 1
    OBVIOUS
  <1>2. /\ Head(s) = s[1]
        /\ \A i \in 1..(Len(s) - 1) : Tail(s)[i] = s[i + 1]
    OBVIOUS
  <1>3. \A i \in 1..(Len(s) - 1) : i + 1 \in 1..Len(s) /\ 1 < i + 1
    BY <1>1
  <1>4. 1 \in 1..Len(s)
    BY <1>1
  <1>5. Calm(Tail(s))
    <2>1. SUFFICES ASSUME NEW i \in 1..(Len(s) - 1), NEW j \in 1..(Len(s) - 1), i < j
                   PROVE  /\ s[i + 1] # "failed"
                          /\ ~ (s[i + 1] = "completed" /\ s[j + 1] = "completed")
      BY <1>1, <1>2 DEF Calm
    <2>2. i + 1 < j + 1
      BY <2>1
    <2>. QED BY <1>1, <1>3, <2>1, <2>2 DEF Calm
  <1>6. Head(s) = "failed" => Tail(s) = <<>>
    <2>1. SUFFICES ASSUME s[1] = "failed", Tail(s) # <<>> PROVE FALSE
      BY <1>2
    <2>2. Len(s) - 1 > 0
      BY <1>1, <2>1
    <2>3. 1 \in 1..(Len(s) - 1)
      BY <1>1, <2>2
    <2>. QED BY <1>1, <1>3, <1>4, <2>1, <2>3 DEF Calm
  <1>7. ~ (Head(s) = "completed" /\ Has(Tail(s), "completed"))
    <2>1. SUFFICES ASSUME s[1] = "completed", NEW i \in 1..(Len(s) - 1),
                          s[i + 1] = "completed"
                   PROVE  FALSE
      BY <1>1, <1>2 DEF Has
    <2>. QED BY <1>1, <1>3, <1>4, <2>1 DEF Calm
  <1>. QED BY <1>5, <1>6, <1>7

\* Nothing is in an empty stream, and it is calm.
LEMMA EmptyStream ==
    /\ Calm(<<>>)
    /\ \A f : ~ Has(<<>>, f)
  BY DEF Calm, Has

-----------------------------------------------------------------------------
(* Types *)

\* A chunk is a sequence of frames the upstream may send, all of them known.
LEMMA ChunkIsFrames ==
    ASSUME pipeline \in Pipelines
    PROVE  /\ FrameKinds[pipeline] \subseteq AllFrames
           /\ \A chunk \in Chunks : chunk \in Seq(FrameKinds[pipeline])
  <1>1. FrameKinds[pipeline] \subseteq AllFrames
    BY FrameKindsAssumption
  <1>2. ASSUME NEW K, NEW a \in K, NEW b \in K PROVE <<a>> \in Seq(K) /\ <<a, b>> \in Seq(K)
    OBVIOUS
  <1>3. ASSUME NEW chunk \in Chunks PROVE chunk \in Seq(FrameKinds[pipeline])
    <2>1. CASE \E f \in FrameKinds[pipeline] : chunk = <<f>>
      BY <1>2, <2>1
    <2>2. CASE \E a, b \in FrameKinds[pipeline] : chunk = <<a, b>>
      BY <1>2, <2>2
    <2>. QED BY <1>3, <2>1, <2>2 DEF Chunks
  <1>. QED BY <1>1, <1>3

\* A frame passed on unchanged is a frame of the client's protocol.
LEMMA UnchangedType == \A f \in AllFrames : Unchanged(f) \in Frames
  <1> SUFFICES ASSUME NEW f \in AllFrames PROVE Unchanged(f) \in Frames
    OBVIOUS
  <1>1. CASE f \in {"finish", "error"}
    BY <1>1 DEF Unchanged, Frames
  <1>2. CASE f \in {"reject", "huge"}
    BY <1>2 DEF Unchanged, Frames
  <1>3. CASE f \in {"delta", "incomplete", "odd"}
    BY <1>3 DEF Unchanged, Frames
  <1>. QED BY <1>1, <1>2, <1>3 DEF AllFrames

\* So is a whole chunk of them.
LEMMA RenderedType ==
    ASSUME NEW frames \in Seq(AllFrames)
    PROVE  Rendered(frames) \in Seq(Frames)
  <1>1. Len(frames) \in Nat /\ DOMAIN frames = 1..Len(frames)
    OBVIOUS
  <1>2. \A i \in 1..Len(frames) : Unchanged(frames[i]) \in Frames
    BY <1>1, UnchangedType
  <1>3. Rendered(frames) \in [1..Len(frames) -> Frames]
    BY <1>1, <1>2 DEF Rendered
  <1>. QED BY <1>1, <1>3, SeqDef

\* A response starts with every variable in its type.
LEMMA InitTypes == Init => TypeOK
  <1> SUFFICES ASSUME Init PROVE TypeOK
    OBVIOUS
  <1>1. MaxClock \in Nat /\ MaxEvents \in Nat /\ IdleTimeout \in Nat
    BY BoundsAssumption, LimitsAssumption
  <1>2. capture \in {"off", "armed"}
    BY DEF Init
  <1>3. \A K : <<>> \in Seq(K)
    OBVIOUS
  <1>4. /\ arrived \in Seq(Chunks)
        /\ produced \in Seq(FrameKinds[pipeline])
        /\ buffer \in Seq(FrameKinds[pipeline])
        /\ queue \in Seq(Frames) /\ held \in Seq(Frames) /\ sent \in Seq(Frames)
    BY <1>3 DEF Init
  <1>5. now \in 0..MaxClock /\ eventsSeen \in 0..MaxEvents /\ idleAt \in Nat /\ stateBytes \in Nat
    BY <1>1 DEF Init
  <1>. QED BY <1>2, <1>4, <1>5 DEF Init, TypeOK

\* The upstream sends known frames, and time stays within its bound.
LEMMA OutsideTypes == TypeOK /\ Outside => TypeOK'
  <1> SUFFICES ASSUME TypeOK, Outside PROVE TypeOK'
    OBVIOUS
  <1>1. ASSUME NEW chunk \in Chunks, Arrive(chunk) PROVE TypeOK'
    <2>1. Chunks' = Chunks /\ pipeline' = pipeline
      BY <1>1 DEF Arrive, Chunks
    <2>2. arrived' \in Seq(Chunks)
      BY <1>1 DEF Arrive, TypeOK
    <2>3. chunk \in Seq(FrameKinds[pipeline])
      BY <1>1, ChunkIsFrames DEF TypeOK
    <2>4. produced' \in Seq(FrameKinds[pipeline])
      BY <1>1, <2>3 DEF Arrive, TypeOK
    <2>. QED BY <1>1, <2>1, <2>2, <2>4 DEF Arrive, TypeOK, translatorVars, captureVars, outcomeVars
  <1>2. ASSUME NEW how \in {"eof", "error"}, UpstreamEnds(how) PROVE TypeOK'
    BY <1>2 DEF UpstreamEnds, TypeOK, Chunks, translatorVars, captureVars, outcomeVars
  <1>3. CASE Tick
    <2>1. now' \in 0..MaxClock
      BY <1>3, BoundsAssumption DEF Tick, TypeOK
    <2>. QED BY <1>3, <2>1 DEF Tick, TypeOK, Chunks, outsideVars, translatorVars, captureVars, outcomeVars
  <1>4. CASE Disconnect
    BY <1>4 DEF Disconnect, TypeOK, Chunks, translatorVars, captureVars, outcomeVars
  <1>5. CASE WatcherCancels
    BY <1>5 DEF WatcherCancels, TypeOK, Chunks, outsideVars, translatorVars, captureVars, outcomeVars
  <1>. QED BY <1>1, <1>2, <1>3, <1>4, <1>5 DEF Outside

\* What the wrappers report at the end of a stream, and the candidate they forget.
LEMMA EndTypes ==
    ASSUME TypeOK, EndOfStream \/ ErrorOfStream,
           UNCHANGED <<pipeline, now, outsideVars, cancelled, translatorVars, sent>>
    PROVE  TypeOK'
  <1>1. /\ pc' \in {"ended", "failed"}
        /\ tracker' \in {"open", "success", "error", "cancelled"}
        /\ hook' \in Outcomes \cup {"open"}
        /\ trace' \in Outcomes \cup {"open"}
    BY DEF TypeOK, EndOfStream, ErrorOfStream, FirstOf, Outcomes
  <1>2. held' = <<>> /\ capture' \in {"off", "armed", "committing", "stored", "refused", "released"}
    BY DEF TypeOK, EndOfStream, ErrorOfStream, ReleaseCandidate
  <1>. QED BY <1>1, <1>2 DEF TypeOK, Chunks, outsideVars, translatorVars

\* What a frame is translated to: content, and the terminal of a turn that ended.
LEMMA TranslatedType ==
    /\ Translated("delta") = <<"delta">>
    /\ Translated("finish") = <<"delta", "completed">>
    /\ Translated("incomplete") = <<"delta", "incomplete">>
    /\ \A f \in {"delta", "finish", "incomplete"} : Translated(f) \in Seq(Frames)
    /\ <<>> \in Seq(Frames)
  <1>1. /\ Translated("delta") = <<"delta">>
        /\ Translated("finish") = <<"delta", "completed">>
        /\ Translated("incomplete") = <<"delta", "incomplete">>
    BY DEF Translated
  <1>2. {"delta", "completed", "incomplete"} \subseteq Frames
    BY DEF Frames
  <1>3. <<"delta">> \in Seq(Frames)
    BY <1>2
  <1>4. <<"delta", "completed">> \in Seq(Frames)
    BY <1>2
  <1>5. <<"delta", "incomplete">> \in Seq(Frames)
    BY <1>2
  <1>6. <<>> \in Seq(Frames)
    OBVIOUS
  <1>. QED BY <1>1, <1>3, <1>4, <1>5, <1>6

\* A frame of the translated or guarded chain becomes frames of the client's protocol.
LEMMA DrainTypes == TypeOK /\ DrainFrame => TypeOK'
  <1> SUFFICES ASSUME TypeOK, DrainFrame PROVE TypeOK'
    OBVIOUS
  <1> DEFINE f == Head(buffer)
             Rest == /\ buffer' \in Seq(FrameKinds[pipeline])
                     /\ queue' \in Seq(Frames)
                     /\ terminalSent' \in BOOLEAN
                     /\ response' \in BOOLEAN
                     /\ disqualified' \in BOOLEAN
                     /\ closing' \in BOOLEAN
                     /\ limit' \in Limits \cup {"none"}
  <1>1. /\ f \in FrameKinds[pipeline]
        /\ Tail(buffer) \in Seq(FrameKinds[pipeline])
        /\ <<>> \in Seq(FrameKinds[pipeline])
    BY DEF DrainFrame, TypeOK
  <1>2. f \in AllFrames
    BY <1>1, ChunkIsFrames DEF TypeOK
  <1>3. /\ \A x \in Frames : Append(queue, x) \in Seq(Frames)
        /\ Append(<<>>, "failed") \in Seq(Frames)
        /\ queue \in Seq(Frames)
    BY DEF TypeOK, Frames
  <1> HIDE DEF f
  <1>4. ASSUME NEW which \in Limits, NEW output \in {queue, <<>>}, RejectLimit(which, output)
        PROVE  buffer' \in Seq(FrameKinds[pipeline]) /\ queue' \in Seq(Frames)
               /\ terminalSent' \in BOOLEAN /\ disqualified' \in BOOLEAN
               /\ closing' \in BOOLEAN /\ limit' \in Limits \cup {"none"}
    BY <1>1, <1>3, <1>4 DEF RejectLimit, Frames
  <1>5. ASSUME RejectLimit("frame", queue) \/ RejectLimit("events", queue),
               UNCHANGED <<eventsSeen, stateBytes, response>>
        PROVE  Rest /\ eventsSeen' \in 0..MaxEvents /\ stateBytes' \in Nat
    <2>1. "frame" \in Limits /\ "events" \in Limits
      BY DEF Limits
    <2>. QED BY <1>4, <1>5, <2>1 DEF TypeOK
  <1>6. ASSUME GuardFrame(f) PROVE Rest /\ stateBytes' \in Nat
    <2>1. Unchanged(f) \in Frames /\ "failed" \in Frames
      BY <1>2, UnchangedType DEF Frames
    <2>2. queue' \in Seq(Frames) /\ buffer' \in Seq(FrameKinds[pipeline])
      BY <1>1, <1>3, <1>6, <2>1 DEF GuardFrame, f
    <2>. QED BY <1>6, <2>2 DEF GuardFrame, TypeOK
  <1>7. ASSUME TranslateFrame(f) PROVE Rest /\ stateBytes' \in Nat
    <2>1. stateBytes' \in Nat /\ response' \in BOOLEAN
      BY <1>7 DEF TranslateFrame, TypeOK
    <2>2. CASE RejectLimit("state", <<>>)
      BY <1>4, <2>1, <2>2 DEF Limits
    <2>3. CASE /\ queue' = queue \o (IF terminalSent THEN <<>> ELSE Translated(f))
               /\ terminalSent' = (terminalSent \/ f # "delta")
               /\ buffer' = Tail(buffer)
               /\ UNCHANGED <<disqualified, closing, limit>>
      <3>1. f \in {"delta", "finish", "incomplete"}
        BY <1>7 DEF TranslateFrame
      <3>2. Translated(f) \in Seq(Frames) /\ <<>> \in Seq(Frames)
        BY <3>1, TranslatedType
      <3>3. queue' \in Seq(Frames)
        BY <1>3, <2>3, <3>2
      <3>. QED BY <1>1, <2>1, <2>3, <3>3 DEF TypeOK
    <2>. QED BY <1>7, <2>2, <2>3 DEF TranslateFrame
  <1>8. ASSUME FailFrame(f) PROVE Rest /\ stateBytes' \in Nat
    <2>1. queue' \in Seq(Frames)
      BY <1>3, <1>8 DEF FailFrame, Frames
    <2>. QED BY <1>1, <1>8, <2>1 DEF FailFrame, TypeOK
  <1>9. ASSUME SkipFrame(f) PROVE Rest /\ stateBytes' \in Nat
    BY <1>1, <1>9 DEF SkipFrame, TypeOK
  <1>10. ASSUME ~ EventLimitReached, eventsSeen' = eventsSeen + 1
         PROVE  eventsSeen' \in 0..MaxEvents
    BY <1>10, LimitsAssumption DEF EventLimitReached, TypeOK
  <1>11. Rest /\ eventsSeen' \in 0..MaxEvents /\ stateBytes' \in Nat
    BY <1>5, <1>6, <1>7, <1>8, <1>9, <1>10 DEF DrainFrame, f
  <1> HIDE DEF f
  <1>. QED BY <1>11 DEF DrainFrame, TypeOK, Chunks, outsideVars, captureVars, outcomeVars

\* Every step of the connection task keeps the types.
LEMMA ChainTypes == TypeOK /\ ChainStep => TypeOK'
  <1> SUFFICES ASSUME TypeOK, ChainStep PROVE TypeOK'
    OBVIOUS
  <1>1. CASE PollBody
    BY <1>1 DEF PollBody, FirstOf, TypeOK, Chunks, outsideVars, translatorVars, captureVars
  <1>2. CASE PopOutput
    <2>1. /\ queue' \in Seq(Frames) /\ held' \in Seq(Frames) /\ sent' \in Seq(Frames)
      <3>1. queue \in Seq(Frames) /\ queue # <<>> /\ held \in Seq(Frames) /\ sent \in Seq(Frames)
        BY <1>2 DEF PopOutput, TypeOK
      <3>2. Head(queue) \in Frames /\ Tail(queue) \in Seq(Frames)
        BY <3>1
      <3>3. <<Head(queue)>> \in Seq(Frames) /\ Append(sent, Head(queue)) \in Seq(Frames)
        BY <3>1, <3>2
      <3>. QED BY <1>2, <3>1, <3>2, <3>3 DEF PopOutput, captureVars
    <2>2. /\ pc' \in {"commit", "parked"}
          /\ capture' \in {"committing", capture}
          /\ response' \in BOOLEAN
      BY <1>2 DEF PopOutput, TypeOK, captureVars
    <2>. QED BY <1>2, <2>1, <2>2 DEF PopOutput, TypeOK, Chunks, outsideVars, outcomeVars
  <1>3. CASE CloseAfterOutput
    BY <1>3, EndTypes DEF CloseAfterOutput
  <1>4. CASE TimerExpires
    <2>1. CASE pipeline = "raw"
      <3>1. limit' \in Limits \cup {"none"}
        BY <1>4, <2>1 DEF TimerExpires, TimerLimit, Limits
      <3>. QED BY <1>4, <2>1, <3>1 DEF TimerExpires, FirstOf, TypeOK, Chunks, outsideVars, captureVars
    <2>2. CASE pipeline # "raw"
      <3>1. queue' = Append(queue, "failed") /\ buffer' = <<>> /\ limit' \in {"duration", "idle"}
        BY <1>4, <2>2 DEF TimerExpires, TimerLimit, RejectLimit
      <3>2. queue' \in Seq(Frames) /\ buffer' \in Seq(FrameKinds[pipeline])
        BY <3>1 DEF TypeOK, Frames
      <3>3. limit' \in Limits \cup {"none"}
        BY <3>1 DEF Limits
      <3>. QED BY <1>4, <2>2, <3>2, <3>3 DEF TimerExpires, RejectLimit, TypeOK, Chunks,
                  outsideVars, captureVars, outcomeVars
    <2>. QED BY <2>1, <2>2
  <1>5. CASE ReadChunk
    <2>1. /\ arrived' \in Seq(Chunks)
          /\ Head(arrived) \in Chunks
      BY <1>5 DEF ReadChunk, TypeOK
    <2>2. Head(arrived) \in Seq(FrameKinds[pipeline])
      BY <2>1, ChunkIsFrames DEF TypeOK
    <2>3. Rendered(Head(arrived)) \in Seq(Frames)
      <3>1. Head(arrived) \in Seq(AllFrames)
        BY <2>2, ChunkIsFrames DEF TypeOK
      <3>. QED BY <3>1, RenderedType
    <2>4. sent' \in Seq(Frames) /\ buffer' \in Seq(FrameKinds[pipeline])
      <3>1. sent \o Rendered(Head(arrived)) \in Seq(Frames)
        BY <2>3 DEF TypeOK
      <3>. QED BY <1>5, <2>2, <3>1 DEF ReadChunk, TypeOK
    <2>5. idleAt' \in Nat
      BY <1>5, LimitsAssumption DEF ReadChunk, TypeOK
    <2>. QED BY <1>5, <2>1, <2>4, <2>5 DEF ReadChunk, TypeOK, Chunks, captureVars, outcomeVars
  <1>6. CASE ReadNothing
    <2>1. CASE EndOfStream \/ ErrorOfStream
      BY <1>6, <2>1, EndTypes DEF ReadNothing
    <2>2. CASE pc' = "parked" /\ UNCHANGED <<captureVars, outcomeVars>>
      BY <1>6, <2>2 DEF ReadNothing, TypeOK, Chunks, outsideVars, translatorVars, captureVars, outcomeVars
    <2>. QED BY <1>6, <2>1, <2>2 DEF ReadNothing
  <1>7. CASE DrainFrame
    BY <1>7, DrainTypes
  <1>8. CASE DrainDone
    BY <1>8 DEF DrainDone, TypeOK, Chunks, outsideVars, translatorVars, captureVars, outcomeVars
  <1>9. CASE DropBody
    <2>1. /\ held' = <<>>
          /\ capture' \in {capture, "released"}
          /\ cancelled' \in BOOLEAN
      BY <1>9 DEF DropBody, ReleaseCandidate, TypeOK
    <2>. QED BY <1>9, <2>1 DEF DropBody, FirstOf, TypeOK, Chunks, Outcomes, outsideVars, translatorVars
  <1>. QED BY <1>1, <1>2, <1>3, <1>4, <1>5, <1>6, <1>7, <1>8, <1>9 DEF ChainStep

\* Every step keeps the types.
LEMMA NextTypes == TypeOK /\ [Next]_vars => TypeOK'
  <1> SUFFICES ASSUME TypeOK, [Next]_vars PROVE TypeOK'
    OBVIOUS
  <1>1. ASSUME NEW result \in {"stored", "refused"}, ResolveCommit(result) PROVE TypeOK'
    <2>1. sent' \in Seq(Frames) /\ held' \in Seq(Frames)
      BY <1>1 DEF ResolveCommit, TypeOK
    <2>. QED BY <1>1, <2>1 DEF ResolveCommit, TypeOK, Chunks, outsideVars, translatorVars, outcomeVars
  <1>2. CASE CommitPending
    BY <1>2 DEF CommitPending, TypeOK, Chunks, outsideVars, translatorVars, captureVars, outcomeVars
  <1>3. CASE UNCHANGED vars
    BY <1>3 DEF vars, TypeOK, Chunks, outsideVars, translatorVars, captureVars, outcomeVars
  <1>. QED BY <1>1, <1>2, <1>3, OutsideTypes, ChainTypes DEF Next

\* The chain's variables keep their types, whatever the upstream sends.
THEOREM StreamTypes == Spec => []TypeOK
  BY InitTypes, NextTypes, PTL DEF Spec

-----------------------------------------------------------------------------
(* The order of the client's stream and the candidate's commit *)

\* Nothing was sent, queued or held when the chain is built.
LEMMA InitOrder == Init => Order
  <1> SUFFICES ASSUME Init PROVE Order
    OBVIOUS
  <1>1. \A f : ~ Has(sent, f) /\ ~ Has(held, f) /\ ~ Has(queue, f)
    BY EmptyStream DEF Init
  <1>2. Calm(sent) /\ Calm(held) /\ Calm(queue)
    BY EmptyStream DEF Init
  <1>3. StreamInOrder
    BY <1>1, <1>2 DEF Init, StreamInOrder, Chained
  <1>4. CaptureStands /\ CaptureIsOfCompletion
    BY <1>1 DEF Init, CaptureStands, CaptureIsOfCompletion
  <1>. QED BY <1>3, <1>4 DEF Order

\* What no frame and no candidate is touched by keeps the order.
LEMMA QuietOrder ==
    ASSUME Order,
           UNCHANGED <<pipeline, buffer, terminalSent, response, disqualified, queue,
                       closing, capture, held, sent>>,
           pc' \in {"stream", "drain"} => pc = pc' \/ capture # "committing",
           pc' = "drain" => pc = "drain",
           pc' = "commit" => capture = "committing"
    PROVE  Order'
  <1>1. StreamInOrder'
    BY DEF Order, StreamInOrder, Chained, Calm, Has
  <1>2. CaptureStands'
    BY DEF Order, CaptureStands
  <1>3. CaptureIsOfCompletion'
    BY DEF Order, CaptureIsOfCompletion, Has
  <1>. QED BY <1>1, <1>2, <1>3 DEF Order

\* Ending or dropping the stream forgets a candidate and what it held back.
LEMMA ReleaseOrder ==
    ASSUME Order, ReleaseCandidate, pc' \in {"ended", "failed", "dropped"},
           UNCHANGED <<pipeline, translatorVars, sent>>
    PROVE  Order'
  <1>1. held' = <<>> /\ Calm(held') /\ \A f : ~ Has(held', f)
    BY EmptyStream DEF ReleaseCandidate
  <1>2. StreamInOrder'
    <2>1. SUFFICES ASSUME pipeline = "translated" PROVE StreamInOrder'
      BY DEF StreamInOrder, translatorVars
    <2>2. Calm(sent) /\ Calm(queue) /\ Chained(sent, queue) /\ StreamInOrder
      BY <2>1 DEF Order, StreamInOrder
    <2>3. Chained(sent', held') /\ Chained(held', queue') /\ Chained(sent', queue')
      BY <1>1, <2>2 DEF Chained, translatorVars
    <2>. QED BY <1>1, <2>1, <2>2, <2>3 DEF StreamInOrder, translatorVars
  <1>3. CaptureStands'
    BY DEF Order, CaptureStands, ReleaseCandidate
  <1>4. CaptureIsOfCompletion'
    BY DEF Order, CaptureIsOfCompletion, CaptureStands, ReleaseCandidate, translatorVars
  <1>. QED BY <1>2, <1>3, <1>4 DEF Order

\* A queued frame goes out, or is held for the commit of its response.
LEMMA PopOrder == TypeOK /\ Order /\ PopOutput => Order'
  <1> SUFFICES ASSUME TypeOK, Order, PopOutput PROVE Order'
    OBVIOUS
  <1> DEFINE x == Head(queue)
             rest == Tail(queue)
  <1>1. queue \in Seq(Frames) /\ sent \in Seq(Frames) /\ queue # <<>> /\ x \in Frames
        /\ rest \in Seq(Frames) /\ queue' = rest
    BY DEF TypeOK, PopOutput
  <1>2. \A f : Has(queue, f) <=> x = f \/ Has(rest, f)
    BY <1>1, HasTail
  <1>3. \A f : Has(Append(sent, x), f) <=> Has(sent, f) \/ x = f
    BY <1>1, HasAppend
  <1>4. \A f : Has(<<x>>, f) <=> x = f
    BY DEF Has
  <1>5. Calm(<<x>>)
    BY DEF Calm
  <1>6. held = <<>> /\ capture # "committing"
    BY DEF Order, CaptureStands, PopOutput
  <1>7. ASSUME Calm(queue)
        PROVE  /\ Calm(rest)
               /\ x = "failed" => rest = <<>>
               /\ ~ (x = "completed" /\ Has(rest, "completed"))
    BY <1>1, <1>7, CalmTail
  <1>8. ASSUME Calm(sent), ~ Has(sent, "failed"),
               ~ (x = "completed" /\ Has(sent, "completed"))
        PROVE  Calm(Append(sent, x))
    BY <1>1, <1>8, CalmAppend
  <1>9. \A f : ~ Has(<<>>, f)
    BY EmptyStream
  <1> HIDE DEF x, rest
  <1>10. CASE capture = "armed" /\ response /\ ~ disqualified
    <2>1. /\ pc' = "commit" /\ capture' = "committing" /\ held' = <<x>> /\ sent' = sent
          /\ response' = FALSE
      BY <1>10 DEF PopOutput, x
    <2>2. StreamInOrder'
      <3>1. SUFFICES ASSUME pipeline = "translated" PROVE StreamInOrder'
        BY DEF StreamInOrder, PopOutput
      <3>2. /\ Calm(sent) /\ Calm(queue) /\ Chained(sent, queue)
            /\ ~ closing => ~ Has(sent, "failed") /\ ~ Has(queue, "failed")
            /\ ~ terminalSent => ~ Has(sent, "completed") /\ ~ Has(queue, "completed")
            /\ closing => buffer = <<>>
        BY <3>1 DEF Order, StreamInOrder
      <3>3. Chained(sent, <<x>>) /\ Chained(sent, rest) /\ Chained(<<x>>, rest)
        BY <1>1, <1>2, <1>4, <1>7, <3>2 DEF Chained
      <3>. QED BY <1>1, <1>2, <1>4, <1>5, <1>7, <2>1, <3>2, <3>3 DEF StreamInOrder, PopOutput
    <2>3. Has(queue, "completed")
      BY <1>10 DEF Order, CaptureIsOfCompletion
    <2>4. Has(<<x>>, "completed") \/ Has(rest, "completed")
      BY <1>2, <1>4, <2>3
    <2>5. CaptureIsOfCompletion'
      BY <1>1, <2>1, <2>4 DEF CaptureIsOfCompletion
    <2>6. CaptureStands'
      <3>1. pipeline' = pipeline /\ (pipeline # "translated" => capture = "off")
        BY DEF Order, CaptureStands, PopOutput
      <3>. QED BY <1>1, <1>10, <2>1, <3>1 DEF CaptureStands
    <2>. QED BY <2>2, <2>5, <2>6 DEF Order
  <1>11. CASE ~ (capture = "armed" /\ response /\ ~ disqualified)
    <2>1. /\ pc' = "parked" /\ capture' = capture /\ held' = held /\ sent' = Append(sent, x)
          /\ response' = (response /\ capture # "armed")
      BY <1>11 DEF PopOutput, captureVars, x
    <2>2. StreamInOrder'
      <3>1. SUFFICES ASSUME pipeline = "translated" PROVE StreamInOrder'
        BY DEF StreamInOrder, PopOutput
      <3>2. /\ Calm(sent) /\ Calm(held) /\ Calm(queue) /\ Chained(sent, queue)
            /\ ~ closing => ~ Has(sent, "failed") /\ ~ Has(queue, "failed")
            /\ ~ terminalSent => ~ Has(sent, "completed") /\ ~ Has(queue, "completed")
            /\ closing => buffer = <<>>
        BY <3>1 DEF Order, StreamInOrder
      <3>3. ~ Has(sent, "failed") /\ ~ (x = "completed" /\ Has(sent, "completed"))
        BY <1>1, <1>2, <3>2 DEF Chained
      <3>4. Calm(Append(sent, x))
        BY <1>8, <3>2, <3>3
      <3>5. Chained(Append(sent, x), rest) /\ Chained(Append(sent, x), held) /\ Chained(held, rest)
        BY <1>1, <1>2, <1>3, <1>6, <1>7, <1>9, <3>2, <3>3 DEF Chained
      <3>6. \A f : ~ Has(held, f)
        BY <1>6, <1>9
      <3>. QED BY <1>1, <1>2, <1>3, <1>7, <2>1, <3>2, <3>4, <3>5, <3>6 DEF StreamInOrder, PopOutput
    <2>3. CaptureIsOfCompletion'
      BY <1>1, <1>2, <1>3, <1>6, <1>11, <2>1 DEF Order, CaptureIsOfCompletion, PopOutput
    <2>4. CaptureStands'
      BY <1>6, <2>1 DEF Order, CaptureStands, PopOutput
    <2>. QED BY <2>2, <2>3, <2>4 DEF Order
  <1>. QED BY <1>10, <1>11

\* The commit is over: the held frame follows what was sent.
LEMMA CommitOrder ==
    ASSUME TypeOK, Order, NEW result \in {"stored", "refused"}, ResolveCommit(result)
    PROVE  Order'
  <1>1. pc = "commit" /\ capture = "committing"
    BY DEF ResolveCommit, Order, CaptureStands
  <1>2. PICK x \in Frames : held = <<x>>
    BY <1>1 DEF Order, CaptureStands
  <1>3. /\ pc' = "parked" /\ capture' = result /\ held' = <<>>
        /\ sent' = Append(sent, x) /\ sent \in Seq(Frames)
        /\ UNCHANGED <<pipeline, translatorVars>>
    BY <1>2 DEF ResolveCommit, TypeOK
  <1>4. \A f : Has(sent', f) <=> Has(sent, f) \/ x = f
    BY <1>3, HasAppend
  <1>5. \A f : Has(held, f) <=> x = f
    BY <1>2 DEF Has
  <1>6. \A f : ~ Has(held', f)
    BY <1>3, EmptyStream
  <1>7. StreamInOrder'
    <2>1. SUFFICES ASSUME pipeline = "translated" PROVE StreamInOrder'
      BY <1>3 DEF StreamInOrder
    <2>2. /\ Calm(sent) /\ Calm(queue)
          /\ Chained(sent, held) /\ Chained(sent, queue) /\ Chained(held, queue)
          /\ ~ closing => \A s \in {sent, held, queue} : ~ Has(s, "failed")
          /\ ~ terminalSent => \A s \in {sent, held, queue} : ~ Has(s, "completed")
          /\ closing => buffer = <<>>
      BY <2>1 DEF Order, StreamInOrder
    <2>3. ~ Has(sent, "failed") /\ ~ (x = "completed" /\ Has(sent, "completed"))
      BY <1>2, <1>5, <2>2 DEF Chained
    <2>4. Calm(sent') /\ Calm(held')
      BY <1>3, <2>2, <2>3, CalmAppend, EmptyStream
    <2>5. Chained(sent', held') /\ Chained(sent', queue) /\ Chained(held', queue)
      BY <1>3, <1>4, <1>5, <1>6, <2>2, <2>3 DEF Chained
    <2>. QED BY <1>3, <1>4, <1>5, <1>6, <2>2, <2>4, <2>5 DEF StreamInOrder, translatorVars
  <1>8. CaptureStands'
    BY <1>1, <1>3 DEF Order, CaptureStands
  <1>9. CaptureIsOfCompletion'
    BY <1>1, <1>3, <1>4, <1>5 DEF Order, CaptureIsOfCompletion, translatorVars
  <1>. QED BY <1>7, <1>8, <1>9 DEF Order

\* What a failure appended to the queue of an open stream does to it: the stream
\* closes, and cannot be replayed.
LEMMA FailOrder ==
    ASSUME TypeOK, Order, ~ closing, closing', disqualified', buffer' = <<>>,
           capture # "committing",
           terminalSent',
           NEW output \in {queue, <<>>}, queue' = Append(output, "failed"),
           capture = "stored" => Has(sent, "completed") \/ output = queue,
           UNCHANGED <<pipeline, pc, captureVars, sent>>
    PROVE  Order'
  <1>1. queue \in Seq(Frames) /\ output \in Seq(Frames) /\ "failed" \in Frames
    BY TranslatedType DEF TypeOK, Frames
  <1>2. \A f : Has(queue', f) <=> Has(output, f) \/ f = "failed"
    BY <1>1, HasAppend
  <1>3. \A f : ~ Has(<<>>, f)
    BY EmptyStream
  <1>4. \A f : Has(output, f) => Has(queue, f)
    BY <1>3
  <1>5. held = <<>> /\ held' = <<>> /\ capture' = capture
    BY DEF Order, CaptureStands, captureVars
  <1>6. StreamInOrder'
    <2>1. SUFFICES ASSUME pipeline = "translated" PROVE StreamInOrder'
      BY DEF StreamInOrder
    <2>2. /\ Calm(sent) /\ Calm(queue) /\ Chained(sent, queue)
          /\ ~ Has(sent, "failed") /\ ~ Has(queue, "failed")
      BY <2>1 DEF Order, StreamInOrder
    <2>3. Calm(output) /\ Calm(held)
      BY <1>5, <2>2, EmptyStream
    <2>4. Calm(queue')
      BY <1>1, <1>4, <2>2, <2>3, CalmAppend
    <2>5. Chained(sent, queue') /\ Chained(sent, held) /\ Chained(held, queue')
      BY <1>2, <1>3, <1>4, <1>5, <2>2 DEF Chained
    <2>. QED BY <1>5, <2>2, <2>3, <2>4, <2>5 DEF StreamInOrder
  <1>7. CaptureStands'
    BY <1>5 DEF Order, CaptureStands
  <1>8. CaptureIsOfCompletion'
    BY <1>2, <1>5 DEF Order, CaptureIsOfCompletion
  <1>. QED BY <1>6, <1>7, <1>8 DEF Order

\* A frame that is translated adds the content, and the terminal of a turn that
\* ended, to a stream that has no terminal yet.
LEMMA TranslateOrder ==
    ASSUME TypeOK, Order, pc = "drain", pipeline = "translated", ~ closing,
           NEW f \in {"delta", "finish", "incomplete"},
           response' = (response \/ (f = "finish" /\ ~ terminalSent)),
           queue' = queue \o (IF terminalSent THEN <<>> ELSE Translated(f)),
           terminalSent' = (terminalSent \/ f # "delta"),
           UNCHANGED <<disqualified, closing, pipeline, pc, captureVars, sent>>
    PROVE  Order'
  <1>1. capture # "committing" /\ held = <<>> /\ capture' = capture /\ held' = <<>>
    BY DEF Order, CaptureStands, captureVars
  <1>2. queue \in Seq(Frames) /\ sent \in Seq(Frames)
    BY DEF TypeOK
  <1>3. /\ Calm(sent) /\ Calm(queue) /\ Calm(held) /\ Chained(sent, queue)
        /\ ~ Has(sent, "failed") /\ ~ Has(held, "failed") /\ ~ Has(queue, "failed")
        /\ ~ terminalSent => ~ Has(sent, "completed") /\ ~ Has(queue, "completed")
    BY DEF Order, StreamInOrder
  <1>4. \A g : ~ Has(<<>>, g)
    BY EmptyStream
  <1>5. CaptureStands'
    BY <1>1 DEF Order, CaptureStands
  <1>6. CASE terminalSent
    <2>1. queue' = queue \o <<>> /\ terminalSent' /\ (response' <=> response)
      BY <1>6
    <2>2. queue' = queue
      BY <1>2, <2>1
    <2>3. StreamInOrder'
      BY <1>1, <1>3, <1>4, <2>2, <2>1 DEF StreamInOrder, Chained
    <2>4. CaptureIsOfCompletion'
      BY <1>1, <1>3, <2>2, <2>1 DEF Order, CaptureIsOfCompletion
    <2>. QED BY <1>5, <2>3, <2>4 DEF Order
  <1>7. CASE ~ terminalSent
    <2>1. /\ {"delta", "completed", "incomplete"} \subseteq Frames
          /\ Append(queue, "delta") \in Seq(Frames)
      BY <1>2 DEF Frames
    <2>2. queue' = queue \o Translated(f)
      BY <1>7
    <2>3. /\ f = "delta" => queue' = Append(queue, "delta")
          /\ f = "finish" => queue' = Append(Append(queue, "delta"), "completed")
          /\ f = "incomplete" => queue' = Append(Append(queue, "delta"), "incomplete")
      <3>1. \A x, y \in Frames :
                /\ queue \o <<x>> = Append(queue, x)
                /\ queue \o <<x, y>> = Append(Append(queue, x), y)
        BY <1>2
      <3>2. CASE f = "delta"
        BY <2>1, <2>2, <3>1, <3>2, TranslatedType
      <3>3. CASE f = "finish"
        BY <2>1, <2>2, <3>1, <3>3, TranslatedType
      <3>4. CASE f = "incomplete"
        BY <2>1, <2>2, <3>1, <3>4, TranslatedType
      <3>. QED BY <3>2, <3>3, <3>4
    <2>4. Calm(Append(queue, "delta"))
      BY <1>2, <1>3, <2>1, CalmAppend
    <2>5. \A g : Has(Append(queue, "delta"), g) <=> Has(queue, g) \/ g = "delta"
      BY <1>2, <2>1, HasAppend
    <2>6. \A x \in {"completed", "incomplete"} :
              /\ Calm(Append(Append(queue, "delta"), x))
              /\ \A g : Has(Append(Append(queue, "delta"), x), g)
                          <=> Has(Append(queue, "delta"), g) \/ g = x
      <3>1. SUFFICES ASSUME NEW x \in {"completed", "incomplete"}
                     PROVE  /\ Calm(Append(Append(queue, "delta"), x))
                            /\ \A g : Has(Append(Append(queue, "delta"), x), g)
                                        <=> Has(Append(queue, "delta"), g) \/ g = x
        OBVIOUS
      <3>2. x \in Frames
        BY <2>1
      <3>3. ~ Has(Append(queue, "delta"), "failed") /\ ~ Has(Append(queue, "delta"), "completed")
        BY <1>3, <1>7, <2>5
      <3>4. Calm(Append(Append(queue, "delta"), x))
        BY <2>1, <2>4, <3>2, <3>3, CalmAppend
      <3>5. ASSUME NEW g
            PROVE  Has(Append(Append(queue, "delta"), x), g)
                     <=> Has(Append(queue, "delta"), g) \/ g = x
        BY <2>1, <3>2, HasAppend
      <3>. QED BY <3>4, <3>5
    <2>7. /\ Calm(queue') /\ ~ Has(queue', "failed")
          /\ Has(queue', "completed") <=> f = "finish"
      BY <1>3, <1>7, <2>3, <2>4, <2>5, <2>6
    <2>8. StreamInOrder'
      BY <1>1, <1>3, <1>4, <1>7, <2>7 DEF StreamInOrder, Chained
    <2>9. CaptureIsOfCompletion'
      <3>1. response' <=> response \/ f = "finish"
        BY <1>7
      <3>. QED BY <1>1, <1>3, <1>7, <2>7, <3>1 DEF Order, CaptureIsOfCompletion
    <2>. QED BY <1>5, <2>8, <2>9 DEF Order
  <1>. QED BY <1>6, <1>7

\* A frame that is drained fails the stream, is skipped, or is translated in order.
LEMMA DrainOrder == TypeOK /\ Order /\ DrainFrame => Order'
  <1> SUFFICES ASSUME TypeOK, Order, DrainFrame PROVE Order'
    OBVIOUS
  <1> DEFINE f == Head(buffer)
  <1>1. /\ pc = "drain" /\ buffer # <<>> /\ capture # "committing" /\ held = <<>>
        /\ UNCHANGED <<pipeline, pc, captureVars, sent>>
    BY DEF Order, CaptureStands, DrainFrame
  <1>2. capture = "stored" => Has(sent, "completed")
    BY <1>1 DEF Order, CaptureIsOfCompletion
  <1>3. queue \in Seq(Frames) /\ sent \in Seq(Frames)
    BY DEF TypeOK
  <1>4. ASSUME pipeline # "translated" PROVE Order'
    <2>1. capture = "off" /\ capture' = "off" /\ held' = <<>>
      BY <1>1, <1>4 DEF Order, CaptureStands, captureVars
    <2>. QED BY <1>1, <1>4, <2>1 DEF Order, StreamInOrder, CaptureStands, CaptureIsOfCompletion
  <1>5. ASSUME pipeline = "translated" PROVE Order'
    <2>1. ~ closing
      BY <1>1, <1>5 DEF Order, StreamInOrder
    <2>2. ASSUME NEW which, NEW output \in {queue, <<>>}, RejectLimit(which, output)
          PROVE  Order'
      BY <1>1, <1>2, <2>1, <2>2, FailOrder DEF RejectLimit
    <2>3. ASSUME SkipFrame(f) PROVE Order'
      <3>1. /\ UNCHANGED <<stateBytes, terminalSent, response, queue, closing, limit>>
            /\ disqualified'
        BY <2>3 DEF SkipFrame
      <3>2. StreamInOrder'
        BY <1>1, <2>1, <3>1 DEF Order, StreamInOrder, captureVars, Calm, Chained, Has
      <3>3. CaptureStands' /\ CaptureIsOfCompletion'
        BY <1>1, <3>1 DEF Order, CaptureStands, CaptureIsOfCompletion, captureVars, Has
      <3>. QED BY <3>2, <3>3 DEF Order
    <2>4. ASSUME FailFrame(f) PROVE Order'
      <3>1. CASE queue' = Append(queue, "failed")
        BY <1>1, <1>2, <2>1, <2>4, <3>1, FailOrder DEF FailFrame
      <3>2. CASE queue' = queue
        <4>1. StreamInOrder'
          BY <1>1, <2>4, <3>2 DEF FailFrame, Order, StreamInOrder, captureVars, Calm, Chained, Has
        <4>2. CaptureStands' /\ CaptureIsOfCompletion'
          BY <1>1, <2>4, <3>2 DEF FailFrame, Order, CaptureStands, CaptureIsOfCompletion,
                                  captureVars, Has
        <4>. QED BY <4>1, <4>2 DEF Order
      <3>. QED BY <2>4, <3>1, <3>2 DEF FailFrame
    <2>5. ASSUME TranslateFrame(f) PROVE Order'
      <3>1. f \in {"delta", "finish", "incomplete"}
        BY <2>5 DEF TranslateFrame
      <3>2. CASE RejectLimit("state", <<>>)
        BY <2>2, <3>2
      <3>3. CASE /\ queue' = queue \o (IF terminalSent THEN <<>> ELSE Translated(f))
                 /\ terminalSent' = (terminalSent \/ f # "delta")
                 /\ buffer' = Tail(buffer)
                 /\ UNCHANGED <<disqualified, closing, limit>>
        BY <1>1, <1>5, <2>1, <2>5, <3>1, <3>3, TranslateOrder DEF TranslateFrame
      <3>. QED BY <2>5, <3>2, <3>3 DEF TranslateFrame
    <2>. QED BY <1>5, <2>2, <2>3, <2>4, <2>5 DEF DrainFrame
  <1>. QED BY <1>4, <1>5

\* A timer that is over fails an open stream that has nothing queued.
LEMMA TimerOrder == TypeOK /\ Order /\ TimerExpires => Order'
  <1> SUFFICES ASSUME TypeOK, Order, TimerExpires PROVE Order'
    OBVIOUS
  <1>1. pc = "stream" /\ ~ closing /\ capture # "committing" /\ queue = <<>>
    BY DEF TimerExpires, ReadyToRead, Order, CaptureStands
  <1>2. CASE pipeline = "raw"
    BY <1>1, <1>2, QuietOrder DEF TimerExpires, translatorVars, captureVars
  <1>3. CASE pipeline # "raw"
    <2>1. PICK which : RejectLimit(which, queue)
      BY <1>3 DEF TimerExpires
    <2>2. UNCHANGED <<pipeline, pc, captureVars, sent>>
      BY <1>3 DEF TimerExpires
    <2>. QED BY <1>1, <2>1, <2>2, FailOrder DEF RejectLimit
  <1>. QED BY <1>2, <1>3

\* Every step of the connection task keeps the order.
LEMMA ChainOrder == TypeOK /\ Order /\ ChainStep => Order'
  <1> SUFFICES ASSUME TypeOK, Order, ChainStep PROVE Order'
    OBVIOUS
  <1>1. CASE PollBody
    BY <1>1, QuietOrder DEF PollBody, translatorVars, captureVars
  <1>2. CASE PopOutput
    BY <1>2, PopOrder
  <1>3. CASE CloseAfterOutput
    BY <1>3, ReleaseOrder DEF CloseAfterOutput, EndOfStream
  <1>4. CASE TimerExpires
    BY <1>4, TimerOrder
  <1>5. CASE ReadChunk
    <2>1. /\ pc = "stream" /\ queue = <<>> /\ ~ closing /\ capture # "committing"
          /\ UNCHANGED <<pipeline, terminalSent, response, disqualified, queue, closing,
                         capture, held>>
      BY <1>5 DEF ReadChunk, ReadyToRead, Order, CaptureStands, captureVars
    <2>2. CASE pipeline = "raw"
      <3>1. pc' = "parked" /\ capture = "off" /\ held = <<>>
        BY <1>5, <2>2 DEF ReadChunk, Order, CaptureStands
      <3>. QED BY <2>1, <2>2, <3>1 DEF Order, StreamInOrder, CaptureStands, CaptureIsOfCompletion
    <2>3. CASE pipeline # "raw"
      <3>1. pc' = "drain" /\ sent' = sent
        BY <1>5, <2>3 DEF ReadChunk
      <3>2. StreamInOrder'
        BY <2>1, <3>1 DEF Order, StreamInOrder, Calm, Chained, Has
      <3>3. CaptureStands'
        BY <2>1, <3>1 DEF Order, CaptureStands
      <3>4. ~ Has(queue, "completed")
        BY <2>1, EmptyStream
      <3>5. CaptureIsOfCompletion'
        BY <2>1, <3>1, <3>4 DEF Order, CaptureIsOfCompletion
      <3>. QED BY <3>2, <3>3, <3>5 DEF Order
    <2>. QED BY <2>2, <2>3
  <1>6. CASE ReadNothing
    <2>1. CASE pc' = "parked" /\ UNCHANGED <<captureVars, outcomeVars>>
      BY <1>6, <2>1, QuietOrder DEF ReadNothing, translatorVars, captureVars
    <2>2. CASE EndOfStream \/ ErrorOfStream
      BY <1>6, <2>2, ReleaseOrder DEF ReadNothing, EndOfStream, ErrorOfStream
    <2>. QED BY <1>6, <2>1, <2>2 DEF ReadNothing
  <1>7. CASE DrainFrame
    BY <1>7, DrainOrder
  <1>8. CASE DrainDone
    <2>1. capture # "committing"
      BY <1>8 DEF DrainDone, Order, CaptureStands
    <2>. QED BY <1>8, <2>1, QuietOrder DEF DrainDone, translatorVars, captureVars
  <1>9. CASE DropBody
    BY <1>9, ReleaseOrder DEF DropBody
  <1>. QED BY <1>1, <1>2, <1>3, <1>4, <1>5, <1>6, <1>7, <1>8, <1>9 DEF ChainStep

\* Every step keeps the order.
LEMMA NextOrder == TypeOK /\ Order /\ [Next]_vars => Order'
  <1> SUFFICES ASSUME TypeOK, Order, [Next]_vars PROVE Order'
    OBVIOUS
  <1>1. CASE Outside
    <2>1. UNCHANGED <<pipeline, pc>> /\ UNCHANGED translatorVars /\ UNCHANGED captureVars
          /\ UNCHANGED sent
      BY <1>1 DEF Outside, Arrive, UpstreamEnds, Tick, Disconnect, WatcherCancels
    <2>. QED BY <2>1, QuietOrder DEF Order, CaptureStands, translatorVars, captureVars
  <1>2. ASSUME NEW result \in {"stored", "refused"}, ResolveCommit(result) PROVE Order'
    BY <1>2, CommitOrder
  <1>3. CASE CommitPending
    BY <1>3, QuietOrder DEF CommitPending, translatorVars, captureVars
  <1>4. CASE UNCHANGED vars
    <2>1. UNCHANGED <<pipeline, pc>> /\ UNCHANGED translatorVars /\ UNCHANGED captureVars
          /\ UNCHANGED sent
      BY <1>4 DEF vars
    <2>. QED BY <2>1, QuietOrder DEF Order, CaptureStands, translatorVars, captureVars
  <1>. QED BY <1>1, <1>2, <1>3, <1>4, ChainOrder DEF Next

\* The order of the stream and of its capture, in every behaviour.
THEOREM OrderHolds == Spec => []Order
  BY InitOrder, NextOrder, StreamTypes, PTL DEF Spec

-----------------------------------------------------------------------------
\* A translated client hears nothing after `response.failed` and is told at most
\* once that its response completed.
THEOREM NothingFollowsFailure == Spec => []FailedIsFinal
  <1>1. TypeOK /\ Order => FailedIsFinal
    <2> SUFFICES ASSUME TypeOK, Order, pipeline = "translated"
                 PROVE  /\ \A i, j \in DOMAIN sent : i < j =>
                              sent[i] # "failed" /\ {sent[i], sent[j]} # {"completed"}
                        /\ Has(sent, "failed") => queue = <<>> /\ held = <<>>
      BY DEF FailedIsFinal
    <2>1. Calm(sent) /\ Chained(sent, held) /\ Chained(sent, queue)
      BY DEF Order, StreamInOrder
    <2>2. \A a, b : {a, b} = {"completed"} => a = "completed" /\ b = "completed"
      OBVIOUS
    <2>. QED BY <2>1, <2>2 DEF Calm, Chained
  <1>. QED BY <1>1, OrderHolds, StreamTypes, PTL

\* What a client was told is complete was committed, or refused, first, and only
\* what completed is stored.
THEOREM CompletionsAreCommitted == Spec => []CompletedIsReplayable
  <1>1. Order => CompletedIsReplayable
    BY DEF Order, CaptureIsOfCompletion, CompletedIsReplayable, CommitBeforeCompleted,
           StoredOnlyIfCompleted
  <1>. QED BY <1>1, OrderHolds, PTL

-----------------------------------------------------------------------------
(* What the chain has taken of what the upstream sent *)

\* The frames of b are those of p that come after the first n, unchanged.
Follows(b, p, n) ==
    /\ n + Len(b) <= Len(p)
    /\ \A i \in 1..Len(b) : b[i] = p[n + i]

\* The frames of s are what those of p after the first n read like to a client.
Passed(s, p, n) ==
    /\ n + Len(s) <= Len(p)
    /\ \A i \in 1..Len(s) : s[i] = Unchanged(p[n + i])

\* The chunks hold, in order, all of p that comes after the first n frames: off
\* says where in p each chunk starts.
Behind(chunks, p, n) ==
    \E off \in [1..(Len(chunks) + 1) -> Nat] :
        /\ off[1] = n
        /\ off[Len(chunks) + 1] = Len(p)
        /\ \A k \in 1..Len(chunks) :
              off[k + 1] = off[k] + Len(chunks[k]) /\ Follows(chunks[k], p, off[k])

\* What follows in a stream follows in a longer one.
LEMMA LongerStream ==
    ASSUME NEW S, NEW T, NEW p \in Seq(S), NEW c \in Seq(S), NEW s \in Seq(T), NEW n \in Nat
    PROVE  /\ Follows(s, p, n) => Follows(s, p \o c, n)
           /\ Passed(s, p, n) => Passed(s, p \o c, n)
  <1>1. /\ Len(p) \in Nat /\ Len(c) \in Nat /\ Len(s) \in Nat
        /\ Len(p \o c) = Len(p) + Len(c)
        /\ \A i \in 1..Len(p) : (p \o c)[i] = p[i]
    OBVIOUS
  <1>2. n + Len(s) <= Len(p) => \A i \in 1..Len(s) : n + i \in 1..Len(p)
    BY <1>1
  <1>3. n + Len(s) <= Len(p) => n + Len(s) <= Len(p \o c)
    BY <1>1
  <1>. QED BY <1>1, <1>2, <1>3 DEF Follows, Passed

\* A chunk that arrives is behind all others.
LEMMA BehindAppend ==
    ASSUME NEW S, NEW p \in Seq(S), NEW chunks \in Seq(Seq(S)), NEW c \in Seq(S), NEW n \in Nat,
           Behind(chunks, p, n)
    PROVE  Behind(Append(chunks, c), p \o c, n)
  <1> DEFINE m == Len(chunks)
  <1>1. PICK off \in [1..(m + 1) -> Nat] :
            /\ off[1] = n
            /\ off[m + 1] = Len(p)
            /\ \A k \in 1..m : off[k + 1] = off[k] + Len(chunks[k]) /\ Follows(chunks[k], p, off[k])
    BY DEF Behind
  <1>2. /\ m \in Nat /\ Len(p) \in Nat /\ Len(c) \in Nat
        /\ Len(p \o c) = Len(p) + Len(c)
        /\ \A i \in 1..Len(c) : (p \o c)[Len(p) + i] = c[i]
        /\ Append(chunks, c) \in Seq(Seq(S))
        /\ Len(Append(chunks, c)) = m + 1
        /\ Append(chunks, c)[m + 1] = c
        /\ \A k \in 1..m : Append(chunks, c)[k] = chunks[k] /\ chunks[k] \in Seq(S)
    OBVIOUS
  <1> HIDE DEF m
  <1> DEFINE new == [k \in 1..(m + 2) |-> IF k = m + 2 THEN Len(p) + Len(c) ELSE off[k]]
  <1>3. \A k \in 1..(m + 1) : new[k] = off[k] /\ off[k] \in Nat
    BY <1>1, <1>2
  <1>4. new[m + 2] = Len(p) + Len(c)
    BY <1>2
  <1>5. new \in [1..(m + 2) -> Nat]
    BY <1>1, <1>2
  <1> HIDE DEF new
  <1>6. \A k \in 1..m : /\ new[k + 1] = new[k] + Len(chunks[k])
                        /\ Follows(chunks[k], p \o c, new[k])
    <2>1. SUFFICES ASSUME NEW k \in 1..m
                   PROVE  /\ new[k + 1] = new[k] + Len(chunks[k])
                          /\ Follows(chunks[k], p \o c, new[k])
      OBVIOUS
    <2>2. k \in 1..(m + 1) /\ k + 1 \in 1..(m + 1)
      BY <1>2
    <2>3. chunks[k] \in Seq(S) /\ off[k] \in Nat
      BY <1>2, <1>3, <2>2
    <2>4. Follows(chunks[k], p \o c, off[k])
      BY <1>1, <2>3, LongerStream
    <2>. QED BY <1>1, <1>3, <2>2, <2>4
  <1>7. m + 1 \in 1..(m + 1) /\ 1 \in 1..(m + 1) /\ (m + 1) + 1 = m + 2
    BY <1>2
  <1>8. new[m + 1] = Len(p) /\ new[1] = n
    BY <1>1, <1>3, <1>7
  <1>9. Follows(c, p \o c, Len(p))
    BY <1>2 DEF Follows
  <1>10. \A k \in 1..(m + 1) : k \in 1..m \/ k = m + 1
    BY <1>2
  <1>11. \A k \in 1..(m + 1) :
            /\ new[k + 1] = new[k] + Len(Append(chunks, c)[k])
            /\ Follows(Append(chunks, c)[k], p \o c, new[k])
    <2>1. SUFFICES ASSUME NEW k \in 1..(m + 1)
                   PROVE  /\ new[k + 1] = new[k] + Len(Append(chunks, c)[k])
                          /\ Follows(Append(chunks, c)[k], p \o c, new[k])
      OBVIOUS
    <2>2. CASE k \in 1..m
      BY <1>2, <1>6, <2>2
    <2>3. CASE k = m + 1
      BY <1>2, <1>4, <1>7, <1>8, <1>9, <2>3
    <2>. QED BY <1>10, <2>2, <2>3
  <1>12. \E o \in [1..((m + 1) + 1) -> Nat] :
            /\ o[1] = n
            /\ o[(m + 1) + 1] = Len(p \o c)
            /\ \A k \in 1..(m + 1) :
                  /\ o[k + 1] = o[k] + Len(Append(chunks, c)[k])
                  /\ Follows(Append(chunks, c)[k], p \o c, o[k])
    <2>1. new \in [1..((m + 1) + 1) -> Nat] /\ new[(m + 1) + 1] = Len(p \o c)
      BY <1>2, <1>4, <1>5, <1>7
    <2> USE <2>1
    <2>2. WITNESS new \in [1..((m + 1) + 1) -> Nat]
    <2>. QED BY <1>8, <1>11, <2>1
  <1>. QED BY <1>2, <1>12 DEF Behind

\* The first of the chunks is what follows next, and the others are behind it.
LEMMA BehindTail ==
    ASSUME NEW S, NEW p \in Seq(S), NEW chunks \in Seq(Seq(S)), NEW n \in Nat,
           chunks # <<>>, Behind(chunks, p, n)
    PROVE  /\ Follows(Head(chunks), p, n)
           /\ Behind(Tail(chunks), p, n + Len(Head(chunks)))
  <1> DEFINE m == Len(chunks)
  <1>1. PICK off \in [1..(m + 1) -> Nat] :
            /\ off[1] = n
            /\ off[m + 1] = Len(p)
            /\ \A k \in 1..m : off[k + 1] = off[k] + Len(chunks[k]) /\ Follows(chunks[k], p, off[k])
    BY DEF Behind
  <1>2. /\ m \in Nat /\ m > 0
        /\ Head(chunks) = chunks[1]
        /\ Len(Tail(chunks)) = m - 1
        /\ \A k \in 1..(m - 1) : Tail(chunks)[k] = chunks[k + 1]
    OBVIOUS
  <1> HIDE DEF m
  <1>3. 1 \in 1..m /\ 1 \in 1..(m + 1) /\ 1 + 1 = 2 /\ (m - 1) + 1 = m
    BY <1>2
  <1> DEFINE new == [k \in 1..m |-> off[k + 1]]
  <1>4. \A k \in 1..m : k + 1 \in 1..(m + 1)
    BY <1>2
  <1>5. new \in [1..m -> Nat] /\ \A k \in 1..m : new[k] = off[k + 1]
    BY <1>1, <1>4
  <1> HIDE DEF new
  <1>6. Follows(Head(chunks), p, n) /\ off[2] = n + Len(Head(chunks))
    BY <1>1, <1>2, <1>3
  <1>7. new[1] = n + Len(Head(chunks)) /\ new[m] = Len(p)
    <2>1. m \in 1..m
      BY <1>2
    <2>. QED BY <1>1, <1>3, <1>5, <1>6, <2>1
  <1>8. ASSUME NEW k \in 1..(m - 1)
        PROVE  /\ new[k + 1] = new[k] + Len(Tail(chunks)[k])
               /\ Follows(Tail(chunks)[k], p, new[k])
    <2>1. k \in 1..m /\ k + 1 \in 1..m
      BY <1>2
    <2>2. Tail(chunks)[k] = chunks[k + 1] /\ new[k] = off[k + 1] /\ new[k + 1] = off[(k + 1) + 1]
      BY <1>2, <1>5, <2>1
    <2>. QED BY <1>1, <2>1, <2>2
  <1>9. Behind(Tail(chunks), p, n + Len(Head(chunks)))
    <2>1. \E o \in [1..((m - 1) + 1) -> Nat] :
            /\ o[1] = n + Len(Head(chunks))
            /\ o[(m - 1) + 1] = Len(p)
            /\ \A k \in 1..(m - 1) :
                  /\ o[k + 1] = o[k] + Len(Tail(chunks)[k])
                  /\ Follows(Tail(chunks)[k], p, o[k])
      <3>1. new \in [1..((m - 1) + 1) -> Nat] /\ new[(m - 1) + 1] = Len(p)
        BY <1>3, <1>5, <1>7
      <3> USE <3>1
      <3>2. WITNESS new \in [1..((m - 1) + 1) -> Nat]
      <3>. QED BY <1>7, <1>8, <3>1
    <2>. QED BY <1>2, <2>1 DEF Behind
  <1>. QED BY <1>6, <1>9

\* With no chunk left there is nothing left to take.
LEMMA BehindNone ==
    ASSUME NEW p, NEW n
    PROVE  /\ Behind(<<>>, p, n) => Len(p) = n
           /\ Len(p) = n /\ n \in Nat => Behind(<<>>, p, n)
  <1>1. Len(<<>>) = 0 /\ 1..0 = {}
    OBVIOUS
  <1>2. Behind(<<>>, p, n) => Len(p) = n
    BY <1>1 DEF Behind
  <1>3. ASSUME Len(p) = n, n \in Nat PROVE Behind(<<>>, p, n)
    <2> DEFINE off == [k \in 1..(0 + 1) |-> n]
    <2>1. off \in [1..(0 + 1) -> Nat] /\ off[1] = n /\ off[0 + 1] = n
      BY <1>3
    <2> HIDE DEF off
    <2>. QED BY <1>1, <1>3, <2>1 DEF Behind
  <1>. QED BY <1>2, <1>3

\* A frame that is passed on extends what was passed.
LEMMA PassedAppend ==
    ASSUME NEW S, NEW s \in Seq(S), NEW p, Len(p) \in Nat, NEW n \in Nat, NEW x \in S,
           Passed(s, p, n), n + Len(s) + 1 <= Len(p), x = Unchanged(p[n + Len(s) + 1])
    PROVE  Passed(Append(s, x), p, n)
  <1>1. /\ Len(s) \in Nat
        /\ Len(Append(s, x)) = Len(s) + 1
        /\ Append(s, x)[Len(s) + 1] = x
        /\ \A i \in 1..Len(s) : Append(s, x)[i] = s[i]
    OBVIOUS
  <1>2. \A i \in 1..(Len(s) + 1) : i \in 1..Len(s) \/ i = Len(s) + 1
    BY <1>1
  <1>3. n + (Len(s) + 1) = n + Len(s) + 1
    BY <1>1
  <1>4. \A i \in 1..(Len(s) + 1) : Append(s, x)[i] = Unchanged(p[n + i])
    BY <1>1, <1>2, <1>3 DEF Passed
  <1>. QED BY <1>1, <1>3, <1>4 DEF Passed

\* A whole chunk that is passed on does, too.
LEMMA PassedConcat ==
    ASSUME NEW s \in Seq(Frames), NEW c \in Seq(AllFrames), NEW p, Len(p) \in Nat,
           Passed(s, p, 0), Follows(c, p, Len(s))
    PROVE  /\ Passed(s \o Rendered(c), p, 0)
           /\ Len(s \o Rendered(c)) = Len(s) + Len(c)
  <1>1. /\ Rendered(c) \in Seq(Frames)
        /\ DOMAIN Rendered(c) = 1..Len(c)
        /\ \A i \in 1..Len(c) : Rendered(c)[i] = Unchanged(c[i])
    BY RenderedType DEF Rendered
  <1>2. Len(Rendered(c)) = Len(c)
    BY <1>1
  <1>3. /\ Len(s) \in Nat /\ Len(c) \in Nat
        /\ Len(s \o Rendered(c)) = Len(s) + Len(c)
        /\ \A i \in 1..Len(s) : (s \o Rendered(c))[i] = s[i]
        /\ \A i \in 1..Len(c) : (s \o Rendered(c))[Len(s) + i] = Rendered(c)[i]
    BY <1>1, <1>2
  <1>4. ASSUME NEW i \in 1..(Len(s) + Len(c))
        PROVE  (s \o Rendered(c))[i] = Unchanged(p[0 + i])
    <2>1. CASE i \in 1..Len(s)
      BY <1>3, <2>1 DEF Passed
    <2>2. CASE i \notin 1..Len(s)
      <3>1. PICK j \in 1..Len(c) : i = Len(s) + j
        <4>1. i - Len(s) \in 1..Len(c) /\ i = Len(s) + (i - Len(s))
          BY <1>3, <2>2
        <4>. QED BY <4>1
      <3>2. 0 + i = Len(s) + j
        BY <1>3, <3>1
      <3>. QED BY <1>1, <1>3, <3>1, <3>2 DEF Follows
    <2>. QED BY <2>1, <2>2
  <1>5. 0 + (Len(s) + Len(c)) <= Len(p)
    BY <1>3 DEF Follows
  <1>. QED BY <1>3, <1>4, <1>5 DEF Passed

\* Taking the first frame of what follows leaves the rest to follow it.
LEMMA FollowsTail ==
    ASSUME NEW S, NEW b \in Seq(S), b # <<>>, NEW p, Len(p) \in Nat, NEW n \in Nat
    PROVE  /\ Follows(b, p, n) => /\ Head(b) = p[n + 1] /\ n + 1 <= Len(p)
                                  /\ Follows(Tail(b), p, n + 1)
           /\ Passed(b, p, n) => /\ Head(b) = Unchanged(p[n + 1]) /\ n + 1 <= Len(p)
                                 /\ Passed(Tail(b), p, n + 1)
           /\ Len(Tail(b)) = Len(b) - 1
  <1>1. /\ Len(b) \in Nat /\ Len(b) > 0
        /\ Head(b) = b[1]
        /\ Len(Tail(b)) = Len(b) - 1
        /\ \A i \in 1..(Len(b) - 1) : Tail(b)[i] = b[i + 1]
    OBVIOUS
  <1>2. 1 \in 1..Len(b) /\ \A i \in 1..(Len(b) - 1) : i + 1 \in 1..Len(b) /\ n + (i + 1) = (n + 1) + i
    BY <1>1
  <1>3. n + Len(b) <= Len(p) => n + 1 <= Len(p) /\ (n + 1) + (Len(b) - 1) <= Len(p)
    BY <1>1
  <1>. QED BY <1>1, <1>2, <1>3 DEF Follows, Passed

-----------------------------------------------------------------------------
(* A clean end *)

InChunks(chunks, f) == \E k \in 1..Len(chunks) : Has(chunks[k], f)

\* A turn that ended has its terminal on the way, unless its end is still unread.
EndingIsTold ==
    pipeline = "translated" /\ ~ closing /\ pc # "dropped" =>
        /\ \A f \in {"finish", "incomplete"} :
              Has(produced, f) => terminalSent \/ Has(buffer, f) \/ InChunks(arrived, f)
        /\ terminalSent => \E t \in {"completed", "incomplete"} :
              Has(sent, t) \/ Has(held, t) \/ Has(queue, t)

\* The other chains hand over what the upstream sent, one frame for one.
NothingSkipped ==
    pipeline # "translated" /\ ~ closing =>
        /\ Passed(sent, produced, 0)
        /\ Passed(queue, produced, Len(sent))
        /\ Follows(buffer, produced, Len(sent) + Len(queue))
        /\ Behind(arrived, produced, Len(sent) + Len(queue) + Len(buffer))

\* A stream that ended as a success without a limit has nothing left to hand over.
EndIsBare ==
    pc = "ended" /\ tracker = "success" /\ hook = "eof" /\ ~ closing =>
        upstream = "eof" /\ arrived = <<>> /\ queue = <<>> /\ held = <<>>

\* Only a chunk that is being drained is buffered, and the raw chain drains none.
BufferIsDrained ==
    /\ pc # "drain" => buffer = <<>>
    /\ pipeline = "raw" => buffer = <<>>
    /\ closing => buffer = <<>>

Clean == EndingIsTold /\ NothingSkipped /\ EndIsBare /\ BufferIsDrained

\* What the chain read and what it reads are known frames.
LEMMA ReadTypes ==
    ASSUME TypeOK
    PROVE  /\ arrived \in Seq(Seq(AllFrames))
           /\ produced \in Seq(AllFrames)
           /\ buffer \in Seq(AllFrames)
           /\ \A chunk \in Chunks : chunk \in Seq(AllFrames)
  <1>1. FrameKinds[pipeline] \subseteq AllFrames
        /\ \A chunk \in Chunks : chunk \in Seq(FrameKinds[pipeline])
    BY ChunkIsFrames DEF TypeOK
  <1>2. ASSUME NEW S, NEW T, S \subseteq T, NEW s \in Seq(S) PROVE s \in Seq(T)
    BY <1>2
  <1>3. produced \in Seq(FrameKinds[pipeline]) /\ buffer \in Seq(FrameKinds[pipeline])
        /\ arrived \in Seq(Chunks)
    BY DEF TypeOK
  <1>4. \A chunk \in Chunks : chunk \in Seq(AllFrames)
    BY <1>1, <1>2
  <1>5. Chunks \subseteq Seq(AllFrames)
    BY <1>4
  <1>6. arrived \in Seq(Seq(AllFrames))
    BY <1>2, <1>3, <1>5
  <1>. QED BY <1>1, <1>2, <1>3, <1>4, <1>6

\* Nothing was sent and nothing read when the chain is built.
LEMMA InitClean == Init => Clean
  <1> SUFFICES ASSUME Init PROVE Clean
    OBVIOUS
  <1>1. Len(<<>>) = 0 /\ 1..0 = {}
    OBVIOUS
  <1>2. \A f : ~ Has(<<>>, f)
    BY EmptyStream
  <1>3. Passed(<<>>, <<>>, 0) /\ Follows(<<>>, <<>>, 0)
    BY <1>1 DEF Passed, Follows
  <1>4. Behind(<<>>, <<>>, 0)
    BY <1>1, BehindNone
  <1>5. NothingSkipped
    BY <1>1, <1>3, <1>4 DEF Init, NothingSkipped
  <1>. QED BY <1>2, <1>5 DEF Init, Clean, EndingIsTold, EndIsBare, BufferIsDrained

\* Steps that touch neither the upstream's frames nor the client's keep Clean if they
\* end no stream as a success.
LEMMA QuietClean ==
    ASSUME Clean,
           UNCHANGED <<pipeline, arrived, produced, buffer, terminalSent, queue, closing,
                       held, sent>>,
           upstream = "eof" => upstream' = "eof",
           pc = "drain" /\ pc' # "drain" => buffer = <<>>,
           pc = "dropped" => pc' = "dropped",
           pc' = "ended" =>
              \/ pc = "ended" /\ UNCHANGED <<tracker, hook>>
              \/ tracker' # "success" \/ hook' # "eof"
    PROVE  Clean'
  <1>1. EndingIsTold'
    BY DEF Clean, EndingIsTold, Has, InChunks
  <1>2. NothingSkipped'
    BY DEF Clean, NothingSkipped
  <1>3. EndIsBare' /\ BufferIsDrained'
    BY DEF Clean, EndIsBare, BufferIsDrained
  <1>. QED BY <1>1, <1>2, <1>3 DEF Clean

\* A stream that closes, because of a limit or a failure, need not be complete.
LEMMA ClosingClean ==
    ASSUME closing', buffer' = <<>>
    PROVE  Clean'
  BY DEF Clean, EndingIsTold, NothingSkipped, EndIsBare, BufferIsDrained

\* A chunk that arrives is behind what was read.
LEMMA ArriveClean ==
    ASSUME TypeOK, Clean, NEW chunk \in Chunks, Arrive(chunk)
    PROVE  Clean'
  <1>1. /\ arrived' = Append(arrived, chunk) /\ produced' = produced \o chunk
        /\ upstream = "open"
        /\ UNCHANGED <<pipeline, pc, buffer, terminalSent, queue, closing, held, sent, tracker, hook>>
    BY DEF Arrive, translatorVars, captureVars, outcomeVars
  <1>2. /\ arrived \in Seq(Seq(AllFrames)) /\ produced \in Seq(AllFrames)
        /\ buffer \in Seq(AllFrames) /\ chunk \in Seq(AllFrames)
        /\ queue \in Seq(Frames) /\ sent \in Seq(Frames)
    BY ReadTypes DEF TypeOK
  <1>3. EndIsBare' /\ BufferIsDrained'
    BY <1>1 DEF Clean, EndIsBare, BufferIsDrained
  <1>4. NothingSkipped'
    <2>1. SUFFICES ASSUME pipeline # "translated", ~ closing PROVE NothingSkipped'
      BY <1>1 DEF NothingSkipped
    <2>2. /\ Passed(sent, produced, 0)
          /\ Passed(queue, produced, Len(sent))
          /\ Follows(buffer, produced, Len(sent) + Len(queue))
          /\ Behind(arrived, produced, Len(sent) + Len(queue) + Len(buffer))
      BY <2>1 DEF Clean, NothingSkipped
    <2>3. Len(sent) \in Nat /\ Len(queue) \in Nat /\ Len(buffer) \in Nat /\ 0 \in Nat
      BY <1>2
    <2>4. Len(sent) + Len(queue) \in Nat /\ Len(sent) + Len(queue) + Len(buffer) \in Nat
      BY <2>3
    <2>5. Passed(sent, produced', 0)
      BY <1>1, <1>2, <2>2, <2>3, LongerStream
    <2>6. Passed(queue, produced', Len(sent))
      BY <1>1, <1>2, <2>2, <2>3, LongerStream
    <2>7. Follows(buffer, produced', Len(sent) + Len(queue))
      BY <1>1, <1>2, <2>2, <2>4, LongerStream
    <2>8. Behind(arrived', produced', Len(sent) + Len(queue) + Len(buffer))
      BY <1>1, <1>2, <2>2, <2>4, BehindAppend
    <2>. QED BY <1>1, <2>5, <2>6, <2>7, <2>8 DEF NothingSkipped
  <1>5. EndingIsTold'
    <2>1. ASSUME NEW f, Has(produced', f), ~ Has(produced, f)
          PROVE  InChunks(arrived', f)
      <3>1. Has(chunk, f)
        <4>1. /\ Len(produced) \in Nat /\ Len(chunk) \in Nat
              /\ DOMAIN produced = 1..Len(produced) /\ DOMAIN chunk = 1..Len(chunk)
              /\ DOMAIN produced' = 1..(Len(produced) + Len(chunk))
              /\ \A i \in 1..Len(produced) : produced'[i] = produced[i]
              /\ \A i \in 1..Len(chunk) : produced'[Len(produced) + i] = chunk[i]
          BY <1>1, <1>2
        <4>2. PICK i \in 1..(Len(produced) + Len(chunk)) : produced'[i] = f
          BY <2>1, <4>1 DEF Has
        <4>3. i \notin 1..Len(produced)
          BY <2>1, <4>1, <4>2 DEF Has
        <4>4. i - Len(produced) \in 1..Len(chunk) /\ Len(produced) + (i - Len(produced)) = i
          BY <4>1, <4>3
        <4>5. chunk[i - Len(produced)] = f
          BY <4>1, <4>2, <4>4
        <4>. QED BY <4>1, <4>4, <4>5 DEF Has
      <3>2. /\ Len(arrived') = Len(arrived) + 1 /\ Len(arrived) \in Nat
            /\ arrived'[Len(arrived) + 1] = chunk
        BY <1>1, <1>2
      <3>3. Len(arrived) + 1 \in 1..Len(arrived')
        BY <3>2
      <3>. QED BY <3>1, <3>2, <3>3 DEF InChunks
    <2>2. ASSUME NEW f, InChunks(arrived, f) PROVE InChunks(arrived', f)
      <3>1. /\ Len(arrived') = Len(arrived) + 1 /\ Len(arrived) \in Nat
            /\ \A k \in 1..Len(arrived) : arrived'[k] = arrived[k]
        BY <1>1, <1>2
      <3>2. \A k \in 1..Len(arrived) : k \in 1..Len(arrived')
        BY <3>1
      <3>. QED BY <2>2, <3>1, <3>2 DEF InChunks
    <2>. QED BY <1>1, <2>1, <2>2 DEF Clean, EndingIsTold
  <1>. QED BY <1>3, <1>4, <1>5 DEF Clean

\* An ending, and a failure, of the upstream reach a chain with nothing left to hand
\* over, and forget nothing that was held back.
LEMMA EndClean ==
    ASSUME TypeOK, Order, Clean, pc = "stream", queue = <<>>, arrived = <<>>,
           \/ upstream = "eof" /\ EndOfStream
           \/ upstream = "error" /\ ErrorOfStream,
           UNCHANGED <<pipeline, now, outsideVars, cancelled, translatorVars, sent>>
    PROVE  Clean'
  <1>1. held = <<>> /\ held' = <<>> /\ pc' \in {"ended", "failed"}
    BY DEF Order, CaptureStands, EndOfStream, ErrorOfStream, ReleaseCandidate
  <1>2. UNCHANGED <<pipeline, arrived, produced, upstream, buffer, terminalSent, queue,
                    closing, sent>>
    BY DEF outsideVars, translatorVars
  <1>3. EndingIsTold'
    BY <1>1, <1>2 DEF Clean, EndingIsTold, Has, InChunks
  <1>4. NothingSkipped'
    BY <1>2 DEF Clean, NothingSkipped
  <1>5. EndIsBare'
    BY <1>1, <1>2 DEF EndIsBare, ErrorOfStream
  <1>6. BufferIsDrained'
    BY <1>1, <1>2 DEF Clean, BufferIsDrained
  <1>. QED BY <1>3, <1>4, <1>5, <1>6 DEF Clean

\* A dropped body is no clean end.
LEMMA DropClean == Clean /\ DropBody => Clean'
  <1> SUFFICES ASSUME Clean, DropBody PROVE Clean'
    OBVIOUS
  <1>1. /\ pc' = "dropped" /\ pc # "drain"
        /\ UNCHANGED <<pipeline, arrived, produced, buffer, queue, closing, sent>>
    BY DEF DropBody, outsideVars, translatorVars
  <1>. QED BY <1>1 DEF Clean, EndingIsTold, NothingSkipped, EndIsBare, BufferIsDrained

\* A frame that leaves the queue is handed over, or held back for its commit.
LEMMA PopClean == TypeOK /\ Order /\ Clean /\ PopOutput => Clean'
  <1> SUFFICES ASSUME TypeOK, Order, Clean, PopOutput PROVE Clean'
    OBVIOUS
  <1> DEFINE x == Head(queue)
  <1>1. /\ queue \in Seq(Frames) /\ sent \in Seq(Frames) /\ queue # <<>> /\ x \in Frames
        /\ queue' = Tail(queue) /\ pc = "stream" /\ pc' \in {"commit", "parked"}
        /\ UNCHANGED <<pipeline, arrived, produced, buffer, terminalSent, closing>>
    BY DEF TypeOK, PopOutput, outsideVars
  <1>2. \/ held' = <<x>> /\ sent' = sent /\ capture = "armed"
        \/ held' = held /\ sent' = Append(sent, x)
    BY DEF PopOutput, captureVars
  <1>3. held = <<>>
    BY <1>1 DEF Order, CaptureStands
  <1>4. EndIsBare' /\ BufferIsDrained'
    BY <1>1 DEF Clean, EndIsBare, BufferIsDrained
  <1>5. EndingIsTold'
    <2>1. \A t : Has(queue, t) => x = t \/ Has(queue', t)
      BY <1>1, HasTail
    <2>2. \A t : /\ Has(<<x>>, t) <=> x = t
                 /\ ~ Has(<<>>, t)
      BY DEF Has
    <2>3. \A t : Has(Append(sent, x), t) <=> Has(sent, t) \/ x = t
      BY <1>1, HasAppend
    <2>4. \A t : Has(sent, t) \/ Has(held, t) \/ Has(queue, t)
                    => Has(sent', t) \/ Has(held', t) \/ Has(queue', t)
      BY <1>2, <1>3, <2>1, <2>2, <2>3
    <2>5. pc # "dropped" /\ pc' # "dropped"
      BY <1>1
    <2> HIDE DEF x
    <2>. QED BY <1>1, <2>4, <2>5 DEF Clean, EndingIsTold
  <1>6. NothingSkipped'
    <2>1. SUFFICES ASSUME pipeline # "translated", ~ closing PROVE NothingSkipped'
      BY <1>1 DEF NothingSkipped
    <2>2. sent' = Append(sent, x)
      BY <1>2, <2>1 DEF Order, CaptureStands
    <2>3. /\ Passed(sent, produced, 0)
          /\ Passed(queue, produced, Len(sent))
          /\ Follows(buffer, produced, Len(sent) + Len(queue))
          /\ Behind(arrived, produced, Len(sent) + Len(queue) + Len(buffer))
      BY <2>1 DEF Clean, NothingSkipped
    <2>4. /\ Len(sent) \in Nat /\ Len(queue) \in Nat /\ Len(produced) \in Nat
          /\ Len(sent') = Len(sent) + 1
      BY <1>1, <2>2, ReadTypes
    <2>5. /\ x = Unchanged(produced[Len(sent) + 1]) /\ Len(sent) + 1 <= Len(produced)
          /\ Passed(queue', produced, Len(sent) + 1)
          /\ Len(queue') = Len(queue) - 1
      BY <1>1, <2>3, <2>4, FollowsTail
    <2>6. Passed(sent', produced, 0)
      <3>1. 0 + Len(sent) + 1 = Len(sent) + 1
        BY <2>4
      <3>. QED BY <1>1, <2>2, <2>3, <2>4, <2>5, <3>1, PassedAppend
    <2>7. Len(sent') + Len(queue') = Len(sent) + Len(queue)
      BY <2>4, <2>5
    <2>. QED BY <1>1, <2>3, <2>4, <2>5, <2>6, <2>7 DEF NothingSkipped
  <1>. QED BY <1>4, <1>5, <1>6 DEF Clean

\* The held frame goes out.
LEMMA CommitClean ==
    ASSUME TypeOK, Order, Clean, NEW result \in {"stored", "refused"}, ResolveCommit(result)
    PROVE  Clean'
  <1>1. pc = "commit" /\ capture = "committing" /\ pipeline = "translated"
    BY DEF ResolveCommit, Order, CaptureStands
  <1>2. PICK x \in Frames : held = <<x>>
    BY <1>1 DEF Order, CaptureStands
  <1>3. /\ pc' = "parked" /\ sent' = Append(sent, x) /\ sent \in Seq(Frames)
        /\ UNCHANGED <<pipeline, arrived, produced, buffer, terminalSent, queue, closing>>
    BY <1>2 DEF ResolveCommit, TypeOK, outsideVars, translatorVars
  <1>4. \A t : Has(sent', t) <=> Has(sent, t) \/ x = t
    BY <1>3, HasAppend
  <1>5. \A t : Has(held, t) <=> x = t
    BY <1>2 DEF Has
  <1>6. EndingIsTold'
    BY <1>1, <1>3, <1>4, <1>5 DEF Clean, EndingIsTold
  <1>. QED BY <1>1, <1>3, <1>6 DEF Clean, NothingSkipped, EndIsBare, BufferIsDrained

\* A chunk that is read is handed over whole, or buffered whole.
LEMMA ReadClean == TypeOK /\ Order /\ Clean /\ ReadChunk => Clean'
  <1> SUFFICES ASSUME TypeOK, Order, Clean, ReadChunk PROVE Clean'
    OBVIOUS
  <1> DEFINE c == Head(arrived)
  <1>1. /\ pc = "stream" /\ queue = <<>> /\ ~ closing /\ buffer = <<>> /\ arrived # <<>>
        /\ arrived' = Tail(arrived)
        /\ UNCHANGED <<pipeline, produced, terminalSent, queue, closing, held>>
    BY DEF ReadChunk, ReadyToRead, Clean, BufferIsDrained, captureVars
  <1>2. /\ arrived \in Seq(Seq(AllFrames)) /\ produced \in Seq(AllFrames)
        /\ c \in Seq(AllFrames) /\ sent \in Seq(Frames)
    BY <1>1, ReadTypes DEF TypeOK
  <1>3. \/ pipeline = "raw" /\ sent' = sent \o Rendered(c) /\ pc' = "parked" /\ buffer' = buffer
        \/ pipeline # "raw" /\ buffer' = c /\ pc' = "drain" /\ sent' = sent
    BY DEF ReadChunk
  <1>4. EndIsBare' /\ BufferIsDrained'
    BY <1>1, <1>3 DEF Clean, EndIsBare, BufferIsDrained
  <1>5. EndingIsTold'
    <2>1. SUFFICES ASSUME pipeline = "translated" PROVE EndingIsTold'
      BY <1>1 DEF EndingIsTold
    <2>2. sent' = sent /\ buffer' = c
      BY <1>3, <2>1
    <2>3. \A f : ~ Has(buffer, f)
      BY <1>1, EmptyStream
    <2>4. ASSUME NEW f, InChunks(arrived, f) PROVE Has(c, f) \/ InChunks(arrived', f)
      <3>1. /\ Len(arrived) \in Nat /\ Len(arrived') = Len(arrived) - 1 /\ c = arrived[1]
            /\ \A k \in 1..(Len(arrived) - 1) : arrived'[k] = arrived[k + 1]
        BY <1>1, <1>2
      <3>2. PICK k \in 1..Len(arrived) : Has(arrived[k], f)
        BY <2>4 DEF InChunks
      <3>3. CASE k = 1
        BY <3>1, <3>2, <3>3
      <3>4. CASE k # 1
        <4>1. k - 1 \in 1..(Len(arrived) - 1) /\ (k - 1) + 1 = k
          BY <3>1, <3>4
        <4>. QED BY <3>1, <3>2, <4>1 DEF InChunks
      <3>. QED BY <3>3, <3>4
    <2>5. pc # "dropped"
      BY <1>1
    <2> HIDE DEF c
    <2>. QED BY <1>1, <2>1, <2>2, <2>3, <2>4, <2>5 DEF Clean, EndingIsTold
  <1>6. NothingSkipped'
    <2>1. SUFFICES ASSUME pipeline # "translated" PROVE NothingSkipped'
      BY <1>1 DEF NothingSkipped
    <2>2. /\ Passed(sent, produced, 0)
          /\ Passed(queue, produced, Len(sent))
          /\ Behind(arrived, produced, Len(sent) + Len(queue) + Len(buffer))
      BY <1>1, <2>1 DEF Clean, NothingSkipped
    <2>3. Len(sent) \in Nat /\ Len(c) \in Nat /\ Len(produced) \in Nat /\ Len(<<>>) = 0 /\ 1..0 = {}
      BY <1>2
    <2>4. Len(sent) + Len(queue) + Len(buffer) = Len(sent) /\ Len(sent) + Len(queue) = Len(sent)
      BY <1>1, <2>3
    <2>5. Follows(c, produced, Len(sent)) /\ Behind(arrived', produced, Len(sent) + Len(c))
      BY <1>1, <1>2, <2>2, <2>3, <2>4, BehindTail
    <2>6. CASE pipeline = "raw"
      <3>1. sent' = sent \o Rendered(c) /\ buffer' = <<>> /\ queue' = <<>>
        BY <1>1, <1>3, <2>6
      <3>2. Passed(sent', produced, 0) /\ Len(sent') = Len(sent) + Len(c)
        BY <1>2, <2>2, <2>3, <2>5, <3>1, PassedConcat
      <3>3. Len(sent) + Len(c) <= Len(produced)
        BY <2>5 DEF Follows
      <3>4. /\ Len(sent') + Len(queue') = Len(sent) + Len(c)
            /\ Len(sent') + Len(queue') + Len(buffer') = Len(sent) + Len(c)
        BY <2>3, <3>1, <3>2
      <3>5. Passed(queue', produced, Len(sent')) /\ Follows(buffer', produced, Len(sent) + Len(c))
        BY <2>3, <3>1, <3>2, <3>3 DEF Passed, Follows
      <3>. QED BY <1>1, <2>5, <3>2, <3>4, <3>5 DEF NothingSkipped
    <2>7. CASE pipeline # "raw"
      <3>1. sent' = sent /\ buffer' = c /\ queue' = queue
        BY <1>1, <1>3, <2>7
      <3>. QED BY <1>1, <2>2, <2>4, <2>5, <3>1 DEF NothingSkipped
    <2>. QED BY <2>6, <2>7
  <1>. QED BY <1>4, <1>5, <1>6 DEF Clean

\* A frame that is drained is translated or passed on, or the stream closes.
LEMMA DrainClean == TypeOK /\ Order /\ Clean /\ DrainFrame => Clean'
  <1> SUFFICES ASSUME TypeOK, Order, Clean, DrainFrame PROVE Clean'
    OBVIOUS
  <1> DEFINE f == Head(buffer)
  <1>1. /\ pc = "drain" /\ pc' = pc /\ buffer # <<>> /\ ~ closing
        /\ UNCHANGED <<pipeline, arrived, produced, held, sent>>
    BY DEF DrainFrame, Clean, BufferIsDrained, outsideVars, captureVars
  <1>2. /\ buffer \in Seq(AllFrames) /\ produced \in Seq(AllFrames)
        /\ queue \in Seq(Frames) /\ sent \in Seq(Frames) /\ f \in AllFrames
    BY <1>1, ReadTypes DEF TypeOK
  <1>3. EndIsBare'
    BY <1>1 DEF EndIsBare
  <1>4. ASSUME NEW which, NEW output, RejectLimit(which, output) PROVE Clean'
    BY <1>4, ClosingClean DEF RejectLimit
  <1>5. ASSUME GuardFrame(f), pipeline # "translated" PROVE Clean'
    <2>1. CASE f = "reject"
      BY <1>5, <2>1, ClosingClean DEF GuardFrame
    <2>2. CASE f # "reject"
      <3>1. queue' = Append(queue, Unchanged(f)) /\ ~ closing' /\ buffer' = Tail(buffer)
        BY <1>5, <2>2 DEF GuardFrame
      <3>2. /\ Passed(sent, produced, 0)
            /\ Passed(queue, produced, Len(sent))
            /\ Follows(buffer, produced, Len(sent) + Len(queue))
            /\ Behind(arrived, produced, Len(sent) + Len(queue) + Len(buffer))
        BY <1>1, <1>5 DEF Clean, NothingSkipped
      <3>3. /\ Len(sent) \in Nat /\ Len(queue) \in Nat /\ Len(produced) \in Nat
            /\ Len(sent) + Len(queue) \in Nat /\ Len(buffer) \in Nat
        BY <1>2
      <3>4. Unchanged(f) \in Frames
        BY <1>2, UnchangedType
      <3>5. Len(queue') = Len(queue) + 1
        BY <1>2, <3>1, <3>4
      <3>6. /\ f = produced[Len(sent) + Len(queue) + 1]
            /\ Len(sent) + Len(queue) + 1 <= Len(produced)
            /\ Follows(buffer', produced, Len(sent) + Len(queue) + 1)
            /\ Len(buffer') = Len(buffer) - 1
        BY <1>1, <1>2, <3>1, <3>2, <3>3, FollowsTail
      <3>7. Passed(queue', produced, Len(sent))
        BY <1>2, <3>1, <3>2, <3>3, <3>4, <3>6, PassedAppend
      <3>8. /\ Len(sent) + Len(queue') = Len(sent) + Len(queue) + 1
            /\ Len(sent) + Len(queue') + Len(buffer') = Len(sent) + Len(queue) + Len(buffer)
        BY <3>3, <3>5, <3>6
      <3>9. NothingSkipped'
        BY <1>1, <3>2, <3>6, <3>7, <3>8 DEF NothingSkipped
      <3>10. EndingIsTold' /\ BufferIsDrained'
        BY <1>1, <1>5, <3>1 DEF Clean, EndingIsTold, BufferIsDrained
      <3>. QED BY <1>3, <3>9, <3>10 DEF Clean
    <2>. QED BY <2>1, <2>2
  <1>6. ASSUME pipeline = "translated", buffer' = Tail(buffer), closing' = closing,
               terminalSent => terminalSent' /\ queue' = queue,
               ~ terminalSent /\ terminalSent' =>
                   \E t \in {"completed", "incomplete"} : Has(queue', t),
               f \in {"finish", "incomplete"} => terminalSent'
        PROVE  Clean'
    <2>1. \A g : Has(buffer, g) => f = g \/ Has(buffer', g)
      <3>1. /\ Len(buffer) \in Nat /\ DOMAIN buffer = 1..Len(buffer)
            /\ DOMAIN buffer' = 1..(Len(buffer) - 1) /\ f = buffer[1]
            /\ \A i \in 1..(Len(buffer) - 1) : buffer'[i] = buffer[i + 1]
        BY <1>1, <1>2, <1>6
      <3>2. SUFFICES ASSUME NEW i \in 1..Len(buffer), buffer[i] # f PROVE Has(buffer', buffer[i])
        BY <3>1 DEF Has
      <3>3. i - 1 \in 1..(Len(buffer) - 1) /\ (i - 1) + 1 = i
        BY <3>1, <3>2
      <3>4. buffer'[i - 1] = buffer[i]
        BY <3>1, <3>3
      <3>. QED BY <3>1, <3>3, <3>4 DEF Has
    <2>2. /\ \A g \in {"finish", "incomplete"} :
                Has(produced, g) => terminalSent \/ Has(buffer, g) \/ InChunks(arrived, g)
          /\ terminalSent => \E t \in {"completed", "incomplete"} :
                Has(sent, t) \/ Has(held, t) \/ Has(queue, t)
      BY <1>1, <1>6 DEF Clean, EndingIsTold
    <2>3. EndingIsTold'
      <3>1. ASSUME NEW g \in {"finish", "incomplete"}, Has(produced, g)
            PROVE  terminalSent' \/ Has(buffer', g) \/ InChunks(arrived, g)
        BY <1>6, <2>1, <2>2, <3>1
      <3>2. ASSUME terminalSent'
            PROVE  \E t \in {"completed", "incomplete"} :
                       Has(sent, t) \/ Has(held, t) \/ Has(queue', t)
        BY <1>6, <2>2, <3>2
      <3>. QED BY <1>1, <3>1, <3>2 DEF EndingIsTold
    <2>4. NothingSkipped' /\ BufferIsDrained'
      BY <1>1, <1>6 DEF NothingSkipped, BufferIsDrained
    <2>. QED BY <1>3, <2>3, <2>4 DEF Clean
  <1>7. ASSUME TranslateFrame(f), pipeline = "translated" PROVE Clean'
    <2>1. f \in {"delta", "finish", "incomplete"}
      BY <1>7 DEF TranslateFrame
    <2>2. CASE RejectLimit("state", <<>>)
      BY <1>4, <2>2
    <2>3. CASE /\ queue' = queue \o (IF terminalSent THEN <<>> ELSE Translated(f))
               /\ terminalSent' = (terminalSent \/ f # "delta")
               /\ buffer' = Tail(buffer)
               /\ UNCHANGED <<disqualified, closing, limit>>
      <3>1. terminalSent => terminalSent' /\ queue' = queue
        <4>1. terminalSent => queue' = queue \o <<>>
          BY <2>3
        <4>2. queue \o <<>> = queue
          BY <1>2
        <4>. QED BY <2>3, <4>1, <4>2
      <3>2. ASSUME ~ terminalSent, terminalSent'
            PROVE  \E t \in {"completed", "incomplete"} : Has(queue', t)
        <4>1. queue' = queue \o Translated(f) /\ f \in {"finish", "incomplete"}
          BY <2>1, <2>3, <3>2
        <4>2. \A x, y \in Frames :
                  /\ Len(queue \o <<x, y>>) = Len(queue) + 2 /\ Len(queue) \in Nat
                  /\ (queue \o <<x, y>>)[Len(queue) + 2] = y
          BY <1>2
        <4>3. ASSUME NEW y \in {"completed", "incomplete"}, queue' = queue \o <<"delta", y>>
              PROVE  Has(queue', y)
          <5>1. "delta" \in Frames /\ y \in Frames
            BY <4>3 DEF Frames
          <5>2. Len(queue') = Len(queue) + 2 /\ Len(queue) \in Nat /\ queue'[Len(queue) + 2] = y
            BY <4>2, <4>3, <5>1
          <5>3. queue' \in Seq(Frames)
            <6>1. <<"delta", y>> \in Seq(Frames)
              BY <5>1
            <6>. QED BY <1>2, <4>3, <6>1
          <5>4. DOMAIN queue' = 1..Len(queue')
            BY <5>3
          <5>5. Len(queue) + 2 \in 1..Len(queue')
            BY <5>2
          <5>. QED BY <5>2, <5>4, <5>5 DEF Has
        <4>4. CASE f = "finish"
          BY <4>1, <4>3, <4>4, TranslatedType
        <4>5. CASE f = "incomplete"
          BY <4>1, <4>3, <4>5, TranslatedType
        <4>. QED BY <4>1, <4>4, <4>5
      <3>3. f \in {"finish", "incomplete"} => terminalSent'
        BY <2>3
      <3>. QED BY <1>6, <1>7, <2>3, <3>1, <3>2, <3>3
    <2>. QED BY <1>7, <2>2, <2>3 DEF TranslateFrame
  <1>8. ASSUME FailFrame(f) PROVE Clean'
    BY <1>8, ClosingClean DEF FailFrame
  <1>9. ASSUME SkipFrame(f), pipeline = "translated" PROVE Clean'
    <2>1. /\ f = "odd" /\ buffer' = Tail(buffer) /\ closing' = closing
          /\ terminalSent' = terminalSent /\ queue' = queue
      BY <1>9 DEF SkipFrame
    <2>. QED BY <1>6, <1>9, <2>1
  <1>10. pipeline \in {"translated", "guarded"}
    BY <1>1, PipelinesAssumption DEF TypeOK, Clean, BufferIsDrained
  <1>. QED BY <1>4, <1>5, <1>7, <1>8, <1>9, <1>10 DEF DrainFrame

\* A timer closes the stream, or ends the raw chain without its observers.
LEMMA TimerClean == Reports /\ Clean /\ TimerExpires => Clean'
  <1> SUFFICES ASSUME Reports, Clean, TimerExpires PROVE Clean'
    OBVIOUS
  <1>1. pc = "stream" /\ hook = "open"
    BY DEF TimerExpires, ReadyToRead, Reports, Unreported
  <1>2. CASE pipeline = "raw"
    <2>1. /\ pc' = "ended" /\ hook' = hook /\ upstream' = upstream
          /\ UNCHANGED <<pipeline, arrived, produced, buffer, terminalSent, queue, closing,
                         held, sent>>
      BY <1>2 DEF TimerExpires, outsideVars, translatorVars, captureVars
    <2>. QED BY <1>1, <2>1, QuietClean
  <1>3. CASE pipeline # "raw"
    BY <1>3, ClosingClean DEF TimerExpires, RejectLimit
  <1>. QED BY <1>2, <1>3

\* Every step of the connection task keeps Clean.
LEMMA ChainClean == TypeOK /\ Order /\ Reports /\ Clean /\ ChainStep => Clean'
  <1> SUFFICES ASSUME TypeOK, Order, Reports, Clean, ChainStep PROVE Clean'
    OBVIOUS
  <1>1. CASE PollBody
    <2>1. /\ pc = "parked" /\ pc' \in {"ended", "commit", "stream"}
          /\ pc' = "ended" => tracker' = FirstOf(tracker, "cancelled")
          /\ upstream' = upstream
          /\ UNCHANGED <<pipeline, arrived, produced, buffer, terminalSent, queue, closing,
                         held, sent>>
      BY <1>1 DEF PollBody, outsideVars, translatorVars, captureVars
    <2>2. tracker = "open"
      BY <2>1 DEF Reports, Unreported
    <2>3. pc' = "ended" => tracker' # "success"
      BY <2>1, <2>2 DEF FirstOf
    <2>. QED BY <2>1, <2>3, QuietClean
  <1>2. CASE PopOutput
    BY <1>2, PopClean
  <1>3. CASE CloseAfterOutput
    BY <1>3, ClosingClean DEF CloseAfterOutput, translatorVars, Clean, BufferIsDrained
  <1>4. CASE TimerExpires
    BY <1>4, TimerClean
  <1>5. CASE ReadChunk
    BY <1>5, ReadClean
  <1>6. CASE ReadNothing
    <2>1. pc = "stream" /\ queue = <<>> /\ arrived = <<>>
          /\ UNCHANGED <<pipeline, now, outsideVars, cancelled, translatorVars, sent>>
      BY <1>6 DEF ReadNothing, ReadyToRead
    <2>2. CASE pc' = "parked" /\ UNCHANGED <<captureVars, outcomeVars>>
      <3>1. /\ upstream' = upstream
            /\ UNCHANGED <<pipeline, arrived, produced, buffer, terminalSent, queue,
                           closing, held, sent>>
        BY <2>1, <2>2 DEF outsideVars, translatorVars, captureVars
      <3>. QED BY <2>1, <2>2, <3>1, QuietClean
    <2>3. CASE \/ upstream = "eof" /\ EndOfStream
               \/ upstream = "error" /\ ErrorOfStream
      BY <2>1, <2>3, EndClean
    <2>. QED BY <1>6, <2>2, <2>3 DEF ReadNothing
  <1>7. CASE DrainFrame
    BY <1>7, DrainClean
  <1>8. CASE DrainDone
    BY <1>8, QuietClean DEF DrainDone, outsideVars, translatorVars, captureVars
  <1>9. CASE DropBody
    BY <1>9, DropClean
  <1>. QED BY <1>1, <1>2, <1>3, <1>4, <1>5, <1>6, <1>7, <1>8, <1>9 DEF ChainStep

\* Every step keeps Clean.
LEMMA NextClean == TypeOK /\ Order /\ Reports /\ Clean /\ [Next]_vars => Clean'
  <1> SUFFICES ASSUME TypeOK, Order, Reports, Clean, [Next]_vars PROVE Clean'
    OBVIOUS
  <1>1. ASSUME NEW chunk \in Chunks, Arrive(chunk) PROVE Clean'
    BY <1>1, ArriveClean
  <1>2. CASE (\E how \in {"eof", "error"} : UpstreamEnds(how)) \/ Tick \/ Disconnect
             \/ WatcherCancels \/ CommitPending \/ UNCHANGED vars
    <2>1. /\ UNCHANGED <<pipeline, arrived, produced, tracker, hook>>
          /\ UNCHANGED translatorVars /\ UNCHANGED captureVars /\ UNCHANGED sent
          /\ upstream = "eof" => upstream' = "eof"
      BY <1>2 DEF UpstreamEnds, Tick, Disconnect, WatcherCancels, CommitPending, vars,
                  outsideVars, outcomeVars
    <2>2. pc' = pc \/ (pc = "commit" /\ pc' = "parked")
      BY <1>2 DEF UpstreamEnds, Tick, Disconnect, WatcherCancels, CommitPending, vars
    <2>3. UNCHANGED <<pipeline, arrived, produced, buffer, terminalSent, queue, closing,
                      held, sent>>
      BY <2>1 DEF translatorVars, captureVars
    <2>. QED BY <2>1, <2>2, <2>3, QuietClean
  <1>3. ASSUME NEW result \in {"stored", "refused"}, ResolveCommit(result) PROVE Clean'
    BY <1>3, CommitClean
  <1>. QED BY <1>1, <1>2, <1>3, ChainClean DEF Next, Outside

\* A stream that ends as a success, without a limit, delivered all there was.
THEOREM CleanEndsAreComplete == Spec => []CleanEndIsComplete
  <1>1. Spec => []Clean
    BY InitClean, NextClean, StreamTypes, OrderHolds, ReportsHold, PTL DEF Spec
  <1>2. TypeOK /\ Clean => CleanEndIsComplete
    <2> SUFFICES ASSUME TypeOK, Clean, pc = "ended", tracker = "success", hook = "eof", ~ closing
                 PROVE  IF pipeline = "translated"
                        THEN (\E f \in {"finish", "incomplete"} : Has(produced, f))
                                => \E t \in {"completed", "incomplete"} : Has(sent, t)
                        ELSE sent = Rendered(produced)
      BY DEF CleanEndIsComplete
    <2>1. arrived = <<>> /\ queue = <<>> /\ held = <<>> /\ buffer = <<>>
      BY DEF Clean, EndIsBare, BufferIsDrained
    <2>2. Len(<<>>) = 0 /\ 1..0 = {} /\ \A f : ~ Has(<<>>, f)
      BY EmptyStream
    <2>3. CASE pipeline = "translated"
      <3>1. \A f : ~ InChunks(arrived, f) /\ ~ Has(buffer, f) /\ ~ Has(held, f) /\ ~ Has(queue, f)
        BY <2>1, <2>2 DEF InChunks
      <3>. QED BY <2>3, <3>1 DEF Clean, EndingIsTold
    <2>4. CASE pipeline # "translated"
      <3>1. /\ Passed(sent, produced, 0)
            /\ Behind(arrived, produced, Len(sent) + Len(queue) + Len(buffer))
        BY <2>4 DEF Clean, NothingSkipped
      <3>2. /\ sent \in Seq(Frames) /\ produced \in Seq(AllFrames) /\ Len(sent) \in Nat
        BY ReadTypes DEF TypeOK
      <3>3. Len(sent) + Len(queue) + Len(buffer) = Len(sent)
        BY <2>1, <2>2, <3>2
      <3>4. Len(produced) = Len(sent)
        BY <2>1, <3>1, <3>3, BehindNone
      <3>5. \A i \in 1..Len(sent) : sent[i] = Unchanged(produced[i])
        BY <3>1, <3>2 DEF Passed
      <3>6. Rendered(produced) = [i \in 1..Len(sent) |-> Unchanged(produced[i])]
        <4>1. DOMAIN produced = 1..Len(sent)
          BY <3>2, <3>4
        <4>. QED BY <4>1 DEF Rendered
      <3>7. sent = [i \in 1..Len(sent) |-> sent[i]]
        BY <3>2
      <3>. QED BY <2>4, <3>5, <3>6, <3>7
    <2>. QED BY <2>3, <2>4
  <1>. QED BY <1>1, <1>2, StreamTypes, PTL
=============================================================================
