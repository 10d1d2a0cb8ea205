----------------------------- MODULE TraceWriter -----------------------------
(***************************************************************************)
(* The debug trace's writer (debug_trace.rs): requests put their entries   *)
(* in a bounded queue without waiting, and one thread appends them to the  *)
(* trace file.                                                             *)
(*                                                                         *)
(* An entry that finds the queue full is dropped and then counted, two     *)
(* steps; the thread puts the count into the file as an overflow line of   *)
(* its own. It opens the file when an entry wakes it and flushes it after  *)
(* a pause. A line is abstracted to its entry, an overflow line to the     *)
(* number it reports. The file takes every write: what the writer ignores  *)
(* is modelled for the opening of the file only.                           *)
(***************************************************************************)
EXTENDS Naturals, Sequences, FiniteSets

CONSTANTS
    Entries,        \* the entries that requests record
    QueueCapacity   \* TraceWriterOptions.queue_capacity

ASSUME EntriesAssumption == IsFiniteSet(Entries)
ASSUME CapacityAssumption == QueueCapacity \in Nat \ {0}

VARIABLES
    entry,          \* entry[e]: where entry e stands with its own request
    recording,      \* a DebugTraceRecorder is alive
    queue,          \* the sync_channel
    accepted,       \* the entries the queue took, in order
    dropped,        \* dropped_entries
    thread,         \* where the writer's thread stands
    hand,           \* the entry it has received, at most one
    buffer,         \* entries in the BufWriter
    bufferedDrops,  \* what the overflow lines in the BufWriter report
    file,           \* entries in the file
    reportedDrops   \* what the overflow lines in the file report

traceVars == <<entry, recording, queue, accepted, dropped, thread, hand, buffer,
               bufferedDrops, file, reportedDrops>>

TraceTypeOK ==
    /\ entry \in [Entries -> {"none", "queued", "full", "dropped", "lost"}]
    /\ recording \in BOOLEAN
    /\ queue \in Seq(Entries) /\ Len(queue) <= QueueCapacity
    /\ accepted \in Seq(Entries)
    /\ dropped \in Nat
    /\ thread \in {"waiting", "writing", "draining", "pausing", "closing", "ended"}
    /\ hand \in Seq(Entries) /\ Len(hand) <= 1
    /\ buffer \in Seq(Entries) /\ file \in Seq(Entries)
    /\ bufferedDrops \in Nat /\ reportedDrops \in Nat

TraceInit ==
    /\ entry = [e \in Entries |-> "none"]
    /\ recording = TRUE
    /\ queue = <<>>
    /\ accepted = <<>>
    /\ dropped = 0
    /\ thread = "waiting"
    /\ hand = <<>>
    /\ buffer = <<>>
    /\ bufferedDrops = 0
    /\ file = <<>>
    /\ reportedDrops = 0

-----------------------------------------------------------------------------
(* The requests *)

\* write_entry: try_send, which takes the entry or says that the queue is full
Record(e) ==
    /\ entry[e] = "none"
    /\ recording
    /\ IF Len(queue) < QueueCapacity
       THEN /\ entry' = [entry EXCEPT ![e] = "queued"]
            /\ queue' = Append(queue, e)
            /\ accepted' = Append(accepted, e)
       ELSE /\ entry' = [entry EXCEPT ![e] = "full"]
            /\ UNCHANGED <<queue, accepted>>
    /\ UNCHANGED <<recording, dropped, thread, hand, buffer, bufferedDrops, file,
                   reportedDrops>>

\* and the count of those it did not take.
CountDropped(e) ==
    /\ entry[e] = "full"
    /\ entry' = [entry EXCEPT ![e] = "dropped"]
    /\ dropped' = dropped + 1
    /\ UNCHANGED <<recording, queue, accepted, thread, hand, buffer, bufferedDrops, file,
                   reportedDrops>>

\* The last clone of the recorder is dropped: its namespace was configured anew
\* and no request holds it any more.
StopRecording ==
    /\ recording
    /\ \A e \in Entries : entry[e] # "full"
    /\ recording' = FALSE
    /\ UNCHANGED <<entry, queue, accepted, dropped, thread, hand, buffer, bufferedDrops,
                   file, reportedDrops>>

-----------------------------------------------------------------------------
(* The thread *)

\* flush_trace_overflow_summary: a swap with zero.
ReportDrops ==
    /\ bufferedDrops' = bufferedDrops + dropped
    /\ dropped' = 0

\* recv: an entry wakes the thread, which opens the file. An entry whose file
\* cannot be opened is skipped.
Wake ==
    /\ thread = "waiting"
    /\ queue # <<>>
    /\ queue' = Tail(queue)
    /\ \/ /\ hand' = <<Head(queue)>>
          /\ thread' = "writing"
          /\ UNCHANGED entry
       \/ /\ entry' = [entry EXCEPT ![Head(queue)] = "lost"]
          /\ UNCHANGED <<hand, thread>>
    /\ UNCHANGED <<recording, accepted, dropped, buffer, bufferedDrops, file, reportedDrops>>

\* The entry goes into the BufWriter behind the drops counted so far.
WriteEntry ==
    /\ thread = "writing"
    /\ ReportDrops
    /\ buffer' = buffer \o hand
    /\ hand' = <<>>
    /\ thread' = "draining"
    /\ UNCHANGED <<entry, recording, queue, accepted, file, reportedDrops>>

\* try_recv, until the queue is empty, and then recv_timeout
Receive ==
    /\ thread \in {"draining", "pausing"}
    /\ queue # <<>>
    /\ queue' = Tail(queue)
    /\ hand' = <<Head(queue)>>
    /\ thread' = "writing"
    /\ UNCHANGED <<entry, recording, accepted, dropped, buffer, bufferedDrops, file,
                   reportedDrops>>

\* Mutant: recv in the place of recv_timeout.
PauseForEntry ==
    /\ thread = "draining"
    /\ queue = <<>>
    /\ thread' = "pausing"
    /\ UNCHANGED <<entry, recording, queue, accepted, dropped, hand, buffer, bufferedDrops,
                   file, reportedDrops>>

\* which ends the pause after 25 ms, or at once if there is no recorder.
Pause ==
    /\ queue = <<>>
    /\ \/ thread = "draining" /\ thread' = "pausing"
       \/ thread = "pausing" /\ thread' = "closing"
    /\ UNCHANGED <<entry, recording, queue, accepted, dropped, hand, buffer, bufferedDrops,
                   file, reportedDrops>>

\* Mutant: the file is closed without the drops and without a flush.
CloseUnflushed ==
    /\ thread = "closing"
    /\ buffer' = <<>> /\ bufferedDrops' = 0
    /\ thread' = "waiting"
    /\ UNCHANGED <<entry, recording, queue, accepted, dropped, hand, file, reportedDrops>>

\* The drops counted by now, a flush, and the file is closed.
CloseFile ==
    /\ thread = "closing"
    /\ file' = file \o buffer
    /\ reportedDrops' = reportedDrops + bufferedDrops + dropped
    /\ dropped' = 0
    /\ buffer' = <<>> /\ bufferedDrops' = 0
    /\ thread' = "waiting"
    /\ UNCHANGED <<entry, recording, queue, accepted, hand>>

\* recv or recv_timeout fails: the queue is empty and every recorder is gone.
EndThread ==
    /\ thread = "waiting"
    /\ queue = <<>>
    /\ ~ recording
    /\ thread' = "ended"
    /\ UNCHANGED <<entry, recording, queue, accepted, dropped, hand, buffer, bufferedDrops,
                   file, reportedDrops>>

-----------------------------------------------------------------------------
ThreadStep == Wake \/ WriteEntry \/ Receive \/ Pause \/ CloseFile \/ EndThread

TraceNext ==
    \/ \E e \in Entries : Record(e) \/ CountDropped(e)
    \/ StopRecording
    \/ ThreadStep

\* The thread is scheduled by the operating system, the pause has a timeout.
TraceFairness == WF_traceVars(ThreadStep)

-----------------------------------------------------------------------------
(* Properties *)

\* The entries on their way to the file, the oldest first
Pipeline == file \o buffer \o hand \o queue

Holds(s, e) == \E i \in DOMAIN s : s[i] = e

Precedes(s, e, f) == \E i, j \in DOMAIN s : i < j /\ s[i] = e /\ s[j] = f

\* The trace loses no entry it accepted but those whose file could not be opened,
\* repeats none and never reorders them: what is in the file, the buffer, the
\* thread's hand and the queue is, once and in this order, what the queue took.
TraceInOrder ==
    /\ \A e \in Entries : Holds(Pipeline, e) <=> Holds(accepted, e) /\ entry[e] # "lost"
    /\ \A e, f \in Entries : Precedes(Pipeline, e, f) => e # f /\ Precedes(accepted, e, f)

\* Every drop is counted once: it is reported by an overflow line or still to be.
DropsExact ==
    Cardinality({e \in Entries : entry[e] = "dropped"})
        = dropped + bufferedDrops + reportedDrops

\* An entry the queue took is in the file in the end, unless it is lost, although
\* other entries may keep the thread busy.
EveryEntryIsFlushed ==
    \A e \in Entries :
        (entry[e] = "queued") ~> (entry[e] = "lost" \/ Holds(file, e))

\* The trace is in order, and what it lacks it says it lacks (TraceInOrder, DropsExact).
TraceIsExact == TraceInOrder /\ DropsExact
=============================================================================
