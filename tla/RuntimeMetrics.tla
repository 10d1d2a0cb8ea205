--------------------------- MODULE RuntimeMetrics ---------------------------
(***************************************************************************)
(* The request counters behind the dashboard and the status endpoint: what *)
(* a request's tracker does to them.  Every operation runs under one mutex *)
(* and is one step.                                                        *)
(*                                                                         *)
(* The whole process and each upstream have a counter of each kind; they   *)
(* are the cells of one function.                                          *)
(***************************************************************************)
EXTENDS Naturals, FiniteSets, Sequences

CONSTANTS
    Requests,
    Upstreams,      \* names of upstreams
    NoUpstream,     \* the tracker has no upstream yet
    All,            \* the whole process
    MaxRecent       \* MAX_RECENT_REQUESTS

ASSUME MetricsAssumption ==
    /\ All \notin Upstreams /\ NoUpstream \notin Upstreams \cup {All}
    /\ MaxRecent \in Nat \ {0}
    /\ IsFiniteSet(Requests)

VARIABLES
    tracker,        \* tracker[r]: "none", "running", or the outcome it finished with
    via,            \* RequestTracker.upstream_name
    streams,        \* RequestTracker.stream
    counts,         \* MetricsInner's counters
    recent          \* recent_requests, the newest first

metricsVars == <<tracker, via, streams, counts, recent>>

Outcomes == {"success", "error", "cancelled"}
Kinds == {"total", "active", "total_stream", "active_stream"} \cup Outcomes

\* An upstream has no counter of its active streams.
Cells == ({All} \X Kinds) \cup (Upstreams \X (Kinds \ {"active_stream"}))

MetricsTypeOK ==
    /\ tracker \in [Requests -> {"none", "running"} \cup Outcomes]
    /\ via \in [Requests -> Upstreams \cup {NoUpstream}]
    /\ streams \in [Requests -> BOOLEAN]
    /\ counts \in [Cells -> Nat]
    /\ recent \in Seq([request : Requests, outcome : Outcomes])

MetricsInit ==
    /\ tracker = [r \in Requests |-> "none"]
    /\ via = [r \in Requests |-> NoUpstream]
    /\ streams = [r \in Requests |-> FALSE]
    /\ counts = [c \in Cells |-> 0]
    /\ recent = <<>>

\* saturating_add and saturating_sub; 2^64 requests are not reached.
Adjust(up, down) ==
    counts' = [c \in Cells |-> IF c \in up THEN counts[c] + 1
                               ELSE IF c \in down /\ counts[c] > 0 THEN counts[c] - 1
                               ELSE counts[c]]

StartRequest(r, stream) ==
    /\ tracker' = [tracker EXCEPT ![r] = "running"]
    /\ streams' = [streams EXCEPT ![r] = stream]
    /\ Adjust({All} \X (IF stream THEN {"total", "active", "total_stream", "active_stream"}
                                  ELSE {"total", "active"}), {})
    /\ UNCHANGED <<via, recent>>

\* A tracker that is sent elsewhere is no longer active where it was. An upstream
\* has one model here, so the same name is the same upstream and model.
SetUpstream(r, u) ==
    IF via[r] = u
    THEN UNCHANGED metricsVars
    ELSE /\ via' = [via EXCEPT ![r] = u]
         /\ Adjust({u} \X (IF streams[r] THEN {"total", "active", "total_stream"}
                                         ELSE {"total", "active"}),
                   {<<via[r], "active">>})
         /\ UNCHANGED <<tracker, streams, recent>>

\* The cells that count an active request.
ActiveCells(r) ==
    {<<All, "active">>, <<via[r], "active">>} \cup
        (IF streams[r] THEN {<<All, "active_stream">>} ELSE {})

\* Mutant: a tracker that has finished is counted again.
FinishAgain(r, outcome) ==
    /\ tracker' = [tracker EXCEPT ![r] = outcome]
    /\ Adjust({<<All, outcome>>, <<via[r], outcome>>}, ActiveCells(r))
    /\ recent' = SubSeq(<<[request |-> r, outcome |-> outcome]>> \o recent, 1,
                        IF Len(recent) < MaxRecent THEN Len(recent) + 1 ELSE MaxRecent)
    /\ UNCHANGED <<via, streams>>

\* finish_with: the first outcome counts, later ones do nothing.
Finish(r, outcome) ==
    IF tracker[r] \in Outcomes
    THEN UNCHANGED metricsVars
    ELSE /\ tracker' = [tracker EXCEPT ![r] = outcome]
         /\ Adjust({<<All, outcome>>, <<via[r], outcome>>}, ActiveCells(r))
         /\ recent' = SubSeq(<<[request |-> r, outcome |-> outcome]>> \o recent, 1,
                             IF Len(recent) < MaxRecent THEN Len(recent) + 1 ELSE MaxRecent)
         /\ UNCHANGED <<via, streams>>

\* Drop of RequestTracker
DropTracker(r) == Finish(r, "cancelled")

-----------------------------------------------------------------------------
(* Properties *)

\* The requests a cell should count.
Counts(r, k) ==
    \/ k = "total" /\ tracker[r] # "none"
    \/ k = "active" /\ tracker[r] = "running"
    \/ k = "total_stream" /\ tracker[r] # "none" /\ streams[r]
    \/ k = "active_stream" /\ tracker[r] = "running" /\ streams[r]
    \/ k \in Outcomes /\ tracker[r] = k

Counted(c) == {r \in Requests : (c[1] = All \/ via[r] = c[1]) /\ Counts(r, c[2])}

\* Every counter is exact, of the process and of each upstream: nothing saturates
\* at zero, no request is counted twice or as active after it has finished.
CountersExact == \A c \in Cells : counts[c] = Cardinality(Counted(c))

\* The recent requests are distinct requests that have finished, with the outcome
\* that was counted, and as many of them as there are or fit.
RecentAgrees ==
    LET finished == {r \in Requests : tracker[r] \in Outcomes}
    IN  /\ Len(recent) = IF Cardinality(finished) < MaxRecent THEN Cardinality(finished)
                                                               ELSE MaxRecent
        /\ \A i \in 1..Len(recent) : recent[i].outcome = tracker[recent[i].request]
        /\ \A i, j \in 1..Len(recent) : recent[i].request = recent[j].request => i = j
=============================================================================
