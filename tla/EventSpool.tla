----------------------------- MODULE EventSpool -----------------------------
(***************************************************************************)
(* The capture of one stream for the exchange hook (hooks.rs): the events  *)
(* the client sees go through a bounded queue to a thread that writes them *)
(* to a temporary file, and the task that builds the hook's payload joins  *)
(* the thread, reads the file back and removes it.                         *)
(*                                                                         *)
(* Events are numbered. An event that does not fit in the budget or in the *)
(* queue ends the capture; what was captured is then reported as           *)
(* truncated. A write to the file may fail, and so may the last flush.     *)
(***************************************************************************)
EXTENDS Naturals, Sequences

CONSTANTS
    MaxEvents,      \* bound on the events of the stream
    Sizes,          \* serialized sizes of events
    Budget,         \* exchange_capture_budget_bytes
    ChannelCapacity \* SpoolWriterOptions.queue_capacity

ASSUME SpoolAssumption ==
    /\ MaxEvents \in Nat /\ Budget \in Nat
    /\ Sizes \subseteq Nat \ {0}
    /\ ChannelCapacity \in Nat \ {0}

VARIABLES
    capture,        \* what became of the capture
    seen,           \* events the client saw
    capturedBytes,  \* captured_bytes
    missed,         \* dropped_event_count
    overflow,       \* overflow_reason
    sender,         \* the queue's sender is open
    channel,        \* the sync_channel
    writer,         \* where the writer's thread stands
    failed,         \* SpoolWriterHandle.error is set
    lines,          \* events in the BufWriter
    disk,           \* events in the file
    flushed,        \* what the last flush did: all, some lines, or a part of a line
    onDisk,         \* the file exists
    body            \* the events the payload was replayed from

spoolVars == <<capture, seen, capturedBytes, missed, overflow, sender, channel, writer,
               failed, lines, disk, flushed, onDisk, body>>

\* spooling   the stream is under way         handed     the payload's task has it
\* joining    the task waits for the thread   discarded  no hook is sent
\* whole, truncated, unbuilt: what the payload says of the response, if any
Captures == {"spooling", "handed", "joining", "discarded", "dropped",
             "whole", "truncated", "unbuilt"}

Numbers == 1..MaxEvents

SpoolTypeOK ==
    /\ capture \in Captures
    /\ seen \in 0..MaxEvents
    /\ capturedBytes \in Nat
    /\ missed \in 0..MaxEvents
    /\ overflow \in {"none", "budget", "queue", "disconnected"}
    /\ sender \in BOOLEAN
    /\ channel \in Seq(Numbers) /\ Len(channel) <= ChannelCapacity
    /\ writer \in {"receiving", "flushing", "ended"}
    /\ failed \in BOOLEAN
    /\ lines \in Seq(Numbers) /\ disk \in Seq(Numbers)
    /\ flushed \in {"not", "all", "cut", "torn"}
    /\ onDisk \in BOOLEAN
    /\ body \in Seq(Numbers)

\* wrap_stream: the breaker and the budget allowed a capture, the file was made.
SpoolInit ==
    /\ capture = "spooling"
    /\ seen = 0
    /\ capturedBytes = 0
    /\ missed = 0
    /\ overflow = "none"
    /\ sender = TRUE
    /\ channel = <<>>
    /\ writer = "receiving"
    /\ failed = FALSE
    /\ lines = <<>>
    /\ disk = <<>>
    /\ flushed = "not"
    /\ onDisk = TRUE
    /\ body = <<>>

-----------------------------------------------------------------------------
(* The stream *)

\* Mutant: an event that does not fit is skipped and the capture goes on.
SkipEvent(reason) ==
    /\ missed' = missed + 1
    /\ UNCHANGED <<overflow, sender, channel, capturedBytes>>

\* mark_overflow: the capture ends, the thread sees the end of its queue.
MarkOverflow(reason) ==
    /\ overflow' = reason
    /\ sender' = FALSE
    /\ missed' = missed + 1
    /\ UNCHANGED <<channel, capturedBytes>>

\* EventSpoolSink::on_event
OnEvent(n) ==
    /\ capture = "spooling"
    /\ seen < MaxEvents
    /\ seen' = seen + 1
    /\ \/ /\ overflow # "none"
          /\ missed' = missed + 1
          /\ UNCHANGED <<overflow, sender, channel, capturedBytes>>
       \/ /\ overflow = "none"
          /\ capturedBytes + n > Budget
          /\ MarkOverflow("budget")
       \/ /\ overflow = "none"
          /\ capturedBytes + n <= Budget
          /\ writer = "ended"
          /\ MarkOverflow("disconnected")
       \/ /\ overflow = "none"
          /\ capturedBytes + n <= Budget
          /\ writer # "ended" /\ Len(channel) = ChannelCapacity
          /\ MarkOverflow("queue")
       \/ /\ overflow = "none"
          /\ capturedBytes + n <= Budget
          /\ writer # "ended" /\ Len(channel) < ChannelCapacity
          /\ channel' = Append(channel, seen + 1)
          /\ capturedBytes' = capturedBytes + n
          /\ UNCHANGED <<overflow, sender, missed>>
    /\ UNCHANGED <<capture, writer, failed, lines, disk, flushed, onDisk, body>>

\* finalize and emit_exchange: the payload's task takes the capture, or the
\* breaker is open by now and it is discarded on the spot.
FinishCapture ==
    /\ capture = "spooling"
    /\ \/ capture' = "handed" /\ UNCHANGED sender
       \/ capture' = "discarded" /\ sender' = FALSE
    /\ UNCHANGED <<seen, capturedBytes, missed, overflow, channel, writer, failed, lines,
                   disk, flushed, onDisk, body>>

-----------------------------------------------------------------------------
(* The thread *)

\* An event is written into the BufWriter, which may fail: the thread stops.
ReceiveLine ==
    /\ writer = "receiving"
    /\ channel # <<>>
    /\ channel' = Tail(channel)
    /\ \/ lines' = Append(lines, Head(channel)) /\ UNCHANGED <<writer, failed>>
       \/ writer' = "flushing" /\ failed' = TRUE /\ UNCHANGED lines
    /\ UNCHANGED <<capture, seen, capturedBytes, missed, overflow, sender, disk, flushed,
                   onDisk, body>>

EndOfChannel ==
    /\ writer = "receiving"
    /\ channel = <<>>
    /\ ~ sender
    /\ writer' = "flushing"
    /\ UNCHANGED <<capture, seen, capturedBytes, missed, overflow, sender, channel, failed,
                   lines, disk, flushed, onDisk, body>>

\* The last flush: nobody looks at its result. It may write a part of the lines,
\* and of the last of them. With the thread the queue's receiver goes.
Flush ==
    /\ writer = "flushing"
    /\ writer' = "ended"
    /\ \/ disk' = lines /\ flushed' = "all"
       \/ \E k \in 0..Len(lines) - 1 :
            /\ disk' = SubSeq(lines, 1, k)
            /\ flushed' \in {"cut", "torn"}
    /\ channel' = <<>>
    /\ UNCHANGED <<capture, seen, capturedBytes, missed, overflow, sender, failed, lines,
                   onDisk, body>>

-----------------------------------------------------------------------------
(* The task that builds the payload *)

\* replay_final_response_body closes the sender and joins the thread.
StartReplay ==
    /\ capture = "handed"
    /\ capture' = "joining"
    /\ sender' = FALSE
    /\ UNCHANGED <<seen, capturedBytes, missed, overflow, channel, writer, failed, lines,
                   disk, flushed, onDisk, body>>

\* A truncated capture is reported as such and its file removed. A failed write
\* fails the payload. A line that does not parse does too, and leaves the file.
Replay ==
    /\ capture = "joining" /\ writer = "ended"
    /\ \/ /\ overflow # "none"
          /\ capture' = "truncated"
          /\ onDisk' = FALSE
          /\ UNCHANGED body
       \/ /\ overflow = "none" /\ failed
          /\ capture' = "unbuilt"
          /\ onDisk' = FALSE
          /\ UNCHANGED body
       \/ /\ overflow = "none" /\ ~ failed /\ flushed = "torn"
          /\ capture' = "unbuilt"
          /\ UNCHANGED <<onDisk, body>>
       \/ /\ overflow = "none" /\ ~ failed /\ flushed # "torn"
          /\ capture' = "whole"
          /\ body' = disk
          /\ onDisk' = FALSE
    /\ UNCHANGED <<seen, capturedBytes, missed, overflow, sender, channel, writer, failed,
                   lines, disk, flushed>>

\* The artifact is dropped: the thread is joined and the file removed.
Discard ==
    /\ capture = "discarded" /\ writer = "ended"
    /\ capture' = "dropped"
    /\ onDisk' = FALSE
    /\ UNCHANGED <<seen, capturedBytes, missed, overflow, sender, channel, writer, failed,
                   lines, disk, flushed, body>>

-----------------------------------------------------------------------------
WriterStep == ReceiveLine \/ EndOfChannel \/ Flush
TaskStep == StartReplay \/ Replay \/ Discard

SpoolNext ==
    \/ \E n \in Sizes : OnEvent(n)
    \/ FinishCapture
    \/ WriterStep
    \/ TaskStep

SpoolFairness == WF_spoolVars(WriterStep) /\ WF_spoolVars(TaskStep)

-----------------------------------------------------------------------------
(* Properties *)

Settled == capture \in {"dropped", "whole", "truncated", "unbuilt"}

\* A payload that gives the response as a whole was replayed from every event the
\* client saw, in order, unless the last flush was cut; one that is truncated is.
WholeIsComplete ==
    /\ capture = "whole" /\ flushed # "cut" => body = [i \in 1..seen |-> i]
    /\ capture = "truncated" => missed > 0

\* What is captured is the beginning of the stream, without a gap: after the first
\* event that is missed nothing is captured, and captured and missed add up, unless
\* a write failed.
CaptureIsPrefix ==
    LET written == lines \o channel
    IN  /\ ~ failed => /\ \A i \in DOMAIN written : written[i] = i
                       /\ Len(written) + missed = seen
        /\ overflow = "none" <=> missed = 0

\* A hook's payload does not misrepresent its stream (EventSpoolArtifact::replay).
CaptureIsFaithful == WholeIsComplete /\ CaptureIsPrefix

\* A capture that is finished is settled, and no temporary file outlives its hook
\* but one that ends within a line.
EveryCaptureSettles ==
    (capture # "spooling") ~>
        /\ capture \in {"dropped", "whole", "truncated", "unbuilt"}
        /\ ~ onDisk \/ flushed = "torn"
=============================================================================
