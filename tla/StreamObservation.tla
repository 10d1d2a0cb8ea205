-------------------------- MODULE StreamObservation --------------------------
(***************************************************************************)
(* What is recorded of a stream: its events in the spool of the exchange   *)
(* hook, and an entry in the debug trace when it ends.  A stream that is   *)
(* polled to its end finishes its capture first, one that is dropped       *)
(* records its entry first; other requests record theirs meanwhile.        *)
(***************************************************************************)
EXTENDS TraceWriter, EventSpool

CONSTANT StreamEntry    \* the trace entry of the stream whose events are spooled

ASSUME StreamEntryAssumption == StreamEntry \in Entries

vars == <<traceVars, spoolVars>>

Init == TraceInit /\ SpoolInit

TypeOK == TraceTypeOK /\ SpoolTypeOK

\* DebugTraceStream records the end of the stream: at its last poll, after the
\* HookCaptureStream within it, or in its Drop, before it.
RecordStream ==
    /\ Record(StreamEntry)
    /\ UNCHANGED spoolVars

Next ==
    \/ RecordStream
    \/ /\ \/ \E e \in Entries \ {StreamEntry} : Record(e)
          \/ \E e \in Entries : CountDropped(e)
          \/ entry[StreamEntry] # "none" /\ StopRecording
          \/ ThreadStep
       /\ UNCHANGED spoolVars
    \/ /\ SpoolNext
       /\ entry[StreamEntry] # "none" => seen' = seen
       /\ UNCHANGED traceVars

Spec == Init /\ [][Next]_vars

FairSpec == Spec /\ TraceFairness /\ SpoolFairness

\* Whatever the queues lose and the disk refuses, both threads finish what they took
\* (run_trace_writer, EventSpoolSink::finish).
ObserversSettle == EveryEntryIsFlushed /\ EveryCaptureSettles
=============================================================================
