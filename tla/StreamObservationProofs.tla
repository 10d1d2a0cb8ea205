------------------------ MODULE StreamObservationProofs ------------------------
(***************************************************************************)
(* Proofs about StreamObservation: types, the count and the order of the   *)
(* trace's entries and the capture, for any number of entries and events,  *)
(* any queue capacities and any budget.                                    *)
(*                                                                         *)
(* The trace and the capture share no variable, so each part has an        *)
(* invariant of its own, preserved by its own steps and by every step that *)
(* leaves its variables alone.                                             *)
(***************************************************************************)
EXTENDS StreamObservation, FiniteSetTheorems, SequenceTheorems, TLAPS

-----------------------------------------------------------------------------
(* The trace *)

DroppedEntries == {e \in Entries : entry[e] = "dropped"}

\* An entry that was put into the queue is no longer one of those that were not.
\* Without it an entry that wakes the thread could be one that was counted as
\* dropped.
QueuedWereTaken == \A i \in 1..Len(queue) : entry[queue[i]] \in {"queued", "lost"}

TraceInv == TraceTypeOK /\ QueuedWereTaken /\ DropsExact

\* Before anything is recorded nothing is dropped.
LEMMA TraceStarts == TraceInit => TraceInv
<1> SUFFICES ASSUME TraceInit PROVE TraceInv
  OBVIOUS
<1>1. TraceTypeOK
  BY CapacityAssumption DEF TraceInit, TraceTypeOK
<1>2. QueuedWereTaken
  BY DEF TraceInit, QueuedWereTaken
<1>3. DropsExact
  <2>1. DroppedEntries = {}
    BY DEF DroppedEntries, TraceInit
  <2>2. Cardinality(DroppedEntries) = 0
    BY <2>1, FS_EmptySet
  <2> QED
    BY <2>2 DEF DropsExact, DroppedEntries, TraceInit
<1> QED
  BY <1>1, <1>2, <1>3 DEF TraceInv

\* The steps that change neither an entry to or from "dropped" nor the counts.
LEMMA DropsUntouched ==
    ASSUME DropsExact,
           DroppedEntries' = DroppedEntries,
           dropped' + bufferedDrops' + reportedDrops' = dropped + bufferedDrops + reportedDrops
    PROVE  DropsExact'
BY DEF DropsExact, DroppedEntries

\* Record: the queue takes the entry, or it is to be counted.
LEMMA RecordKeeps ==
    ASSUME TraceInv, NEW e \in Entries, Record(e)
    PROVE  TraceInv'
<1> USE DEF TraceInv
<1>1. TraceTypeOK'
  <2>1. entry' \in [Entries -> {"none", "queued", "full", "dropped", "lost"}]
    BY DEF TraceTypeOK, Record
  <2>2. CASE Len(queue) < QueueCapacity
    <3>1. queue' = Append(queue, e) /\ accepted' = Append(accepted, e)
      BY <2>2 DEF Record
    <3>2. queue' \in Seq(Entries) /\ accepted' \in Seq(Entries) /\ Len(queue') = Len(queue) + 1
      BY <3>1 DEF TraceTypeOK
    <3>3. Len(queue') <= QueueCapacity
      BY <2>2, <3>2, CapacityAssumption DEF TraceTypeOK
    <3> QED
      BY <2>1, <3>2, <3>3 DEF TraceTypeOK, Record
  <2>3. CASE ~ (Len(queue) < QueueCapacity)
    BY <2>1, <2>3 DEF TraceTypeOK, Record
  <2> QED
    BY <2>2, <2>3
<1>2. QueuedWereTaken'
  <2>1. CASE Len(queue) < QueueCapacity
    <3>1. queue' = Append(queue, e) /\ entry' = [entry EXCEPT ![e] = "queued"] /\ entry[e] = "none"
      BY <2>1 DEF Record
    <3>2. /\ Len(queue) \in Nat /\ Len(queue') = Len(queue) + 1 /\ queue'[Len(queue) + 1] = e
          /\ \A i \in 1..Len(queue) : queue'[i] = queue[i] /\ queue[i] \in Entries
      BY <3>1 DEF TraceTypeOK
    <3>3. entry'[e] = "queued" /\ \A f \in Entries : f # e => entry'[f] = entry[f]
      BY <3>1 DEF TraceTypeOK
    <3> QED
      BY <3>2, <3>3 DEF QueuedWereTaken
  <2>2. CASE ~ (Len(queue) < QueueCapacity)
    BY <2>2 DEF TraceTypeOK, QueuedWereTaken, Record
  <2> QED
    BY <2>1, <2>2
<1>3. DroppedEntries' = DroppedEntries
  BY DEF TraceTypeOK, DroppedEntries, Record
<1> QED
  BY <1>1, <1>2, <1>3, DropsUntouched DEF Record

\* CountDropped: one more entry is dropped, one more is counted.
LEMMA CountDroppedKeeps ==
    ASSUME TraceInv, NEW e \in Entries, CountDropped(e)
    PROVE  TraceInv'
<1> USE DEF TraceInv
<1>1. TraceTypeOK'
  BY DEF TraceTypeOK, CountDropped
<1>2. QueuedWereTaken'
  BY DEF TraceTypeOK, QueuedWereTaken, CountDropped
<1>3. DropsExact'
  <2>1. DroppedEntries' = DroppedEntries \cup {e}
    BY DEF TraceTypeOK, DroppedEntries, CountDropped
  <2>2. e \notin DroppedEntries
    BY DEF DroppedEntries, CountDropped
  <2>3. IsFiniteSet(DroppedEntries)
    BY EntriesAssumption, FS_Subset DEF DroppedEntries
  <2>4. Cardinality(DroppedEntries') = Cardinality(DroppedEntries) + 1
    BY <2>1, <2>2, <2>3, FS_AddElement
  <2> QED
    BY <2>4 DEF DropsExact, DroppedEntries, CountDropped, TraceTypeOK
<1> QED
  BY <1>1, <1>2, <1>3

\* The thread: an entry may be lost, which was in the queue and so not dropped;
\* the count of the drops only moves on, to the buffer and to the file.
LEMMA ThreadKeeps ==
    ASSUME TraceInv, ThreadStep
    PROVE  TraceInv'
<1> USE DEF TraceInv
<1>1. CASE Wake
  <2>1. /\ Head(queue) \in Entries /\ Tail(queue) \in Seq(Entries)
        /\ Len(Tail(queue)) = Len(queue) - 1 /\ Len(queue) \in Nat
        /\ \A i \in 1..Len(Tail(queue)) : Tail(queue)[i] = queue[i + 1]
    BY <1>1 DEF Wake, TraceTypeOK
  <2>2. entry[Head(queue)] \in {"queued", "lost"}
    BY <1>1, <2>1 DEF Wake, QueuedWereTaken, TraceTypeOK
  <2>3. TraceTypeOK'
    <3>1. entry' \in [Entries -> {"none", "queued", "full", "dropped", "lost"}]
      BY <1>1, <2>1 DEF Wake, TraceTypeOK
    <3>2. hand' \in Seq(Entries) /\ Len(hand') <= 1
      <4>1. hand' = <<Head(queue)>> \/ hand' = hand
        BY <1>1 DEF Wake
      <4>2. <<Head(queue)>> \in Seq(Entries) /\ Len(<<Head(queue)>>) = 1
        BY <2>1
      <4>3. CASE hand' = <<Head(queue)>>
        BY <4>2, <4>3
      <4>4. CASE hand' = hand
        BY <4>4 DEF TraceTypeOK
      <4> QED
        BY <4>1, <4>3, <4>4
    <3> QED
      BY <1>1, <2>1, <3>1, <3>2, CapacityAssumption DEF Wake, TraceTypeOK
  <2>4. QueuedWereTaken'
    BY <1>1, <2>1 DEF Wake, QueuedWereTaken, TraceTypeOK
  <2>5. DroppedEntries' = DroppedEntries
    BY <1>1, <2>1, <2>2 DEF Wake, DroppedEntries, TraceTypeOK
  <2> QED
    BY <1>1, <2>3, <2>4, <2>5, DropsUntouched DEF Wake
<1>2. CASE WriteEntry
  <2>1. TraceTypeOK'
    BY <1>2 DEF WriteEntry, ReportDrops, TraceTypeOK
  <2>2. QueuedWereTaken'
    BY <1>2 DEF WriteEntry, QueuedWereTaken
  <2>3. DroppedEntries' = DroppedEntries
    BY <1>2 DEF WriteEntry, DroppedEntries
  <2> QED
    BY <1>2, <2>1, <2>2, <2>3, DropsUntouched DEF WriteEntry, ReportDrops, TraceTypeOK
<1>3. CASE Receive
  <2>1. /\ Head(queue) \in Entries /\ Tail(queue) \in Seq(Entries)
        /\ Len(Tail(queue)) = Len(queue) - 1 /\ Len(queue) \in Nat
        /\ \A i \in 1..Len(Tail(queue)) : Tail(queue)[i] = queue[i + 1]
    BY <1>3 DEF Receive, TraceTypeOK
  <2>2. TraceTypeOK'
    BY <1>3, <2>1, CapacityAssumption DEF Receive, TraceTypeOK
  <2>3. QueuedWereTaken'
    BY <1>3, <2>1 DEF Receive, QueuedWereTaken, TraceTypeOK
  <2>4. DroppedEntries' = DroppedEntries
    BY <1>3 DEF Receive, DroppedEntries
  <2> QED
    BY <1>3, <2>2, <2>3, <2>4, DropsUntouched DEF Receive
<1>4. CASE Pause
  BY <1>4, DropsUntouched DEF Pause, TraceTypeOK, QueuedWereTaken, DroppedEntries
<1>5. CASE CloseFile
  <2>1. TraceTypeOK'
    BY <1>5 DEF CloseFile, TraceTypeOK
  <2>2. QueuedWereTaken'
    BY <1>5 DEF CloseFile, QueuedWereTaken
  <2>3. DroppedEntries' = DroppedEntries
    BY <1>5 DEF CloseFile, DroppedEntries
  <2> QED
    BY <1>5, <2>1, <2>2, <2>3, DropsUntouched DEF CloseFile, TraceTypeOK
<1>6. CASE EndThread
  BY <1>6, DropsUntouched DEF EndThread, TraceTypeOK, QueuedWereTaken, DroppedEntries
<1> QED
  BY <1>1, <1>2, <1>3, <1>4, <1>5, <1>6 DEF ThreadStep

\* Steps that do not touch the trace keep what is known of it.
LEMMA TraceAside ==
    ASSUME TraceInv, UNCHANGED traceVars
    PROVE  TraceInv'
BY DropsUntouched
DEF TraceInv, TraceTypeOK, QueuedWereTaken, DroppedEntries, traceVars

-----------------------------------------------------------------------------
(* The order of the trace *)

\* An entry that the queue took is no longer one that may be recorded: without it
\* an entry could come twice.
AcceptedWereTaken == \A i \in DOMAIN accepted : entry[accepted[i]] \in {"queued", "lost"}

\* Nothing is in the BufWriter while the file is closed; the thread holds an entry
\* only until it has written it. Without it the entry that is lost would not be
\* the next one behind the file.
StagesAreEmptied ==
    /\ thread \in {"waiting", "ended"} => buffer = <<>>
    /\ thread # "writing" => hand = <<>>

OrderInv == AcceptedWereTaken /\ StagesAreEmptied /\ TraceInOrder

\* Entries move from stage to stage without a change of their order.
LEMMA Regrouped ==
    \A s, t, u \in Seq(Entries) : (s \o t) \o u = s \o (t \o u)
BY ConcatAssociative

\* One more entry stands behind all the others.
LEMMA AppendHolds ==
    ASSUME NEW s \in Seq(Entries), NEW e \in Entries
    PROVE  /\ \A x : Holds(Append(s, e), x) <=> Holds(s, x) \/ x = e
           /\ \A x, y : Precedes(Append(s, e), x, y) <=> Precedes(s, x, y) \/ (Holds(s, x) /\ y = e)
<1> DEFINE t == Append(s, e)
<1>1. /\ Len(s) \in Nat /\ DOMAIN s = 1..Len(s) /\ DOMAIN t = 1..Len(s) + 1
      /\ t[Len(s) + 1] = e /\ \A i \in 1..Len(s) : t[i] = s[i]
  OBVIOUS
<1> HIDE DEF t
<1>2. DOMAIN t = DOMAIN s \cup {Len(s) + 1} /\ Len(s) + 1 \notin DOMAIN s
  BY <1>1
<1>3. /\ \A i \in DOMAIN s : i < Len(s) + 1
      /\ \A i, j \in DOMAIN t : i < j => i \in DOMAIN s
  BY <1>1
<1>4. \A x : Holds(t, x) <=> Holds(s, x) \/ x = e
  BY <1>1, <1>2 DEF Holds
<1>5. \A x, y : Precedes(t, x, y) => Precedes(s, x, y) \/ (Holds(s, x) /\ y = e)
  BY <1>1, <1>2, <1>3 DEF Holds, Precedes
<1>6. \A x, y : Precedes(s, x, y) => Precedes(t, x, y)
  BY <1>1, <1>2, <1>3 DEF Precedes
<1>7. \A x : Holds(s, x) => Precedes(t, x, e)
  BY <1>1, <1>2, <1>3 DEF Holds, Precedes
<1> QED
  BY <1>4, <1>5, <1>6, <1>7 DEF t

\* Without the first of q behind s the others keep their places.
LEMMA TailHolds ==
    ASSUME NEW s \in Seq(Entries), NEW q \in Seq(Entries), q # <<>>
    PROVE  /\ \A x : Holds(s \o Tail(q), x) => Holds(s \o q, x)
           /\ \A x : Holds(s \o q, x) => x = Head(q) \/ Holds(s \o Tail(q), x)
           /\ \A x, y : Precedes(s \o Tail(q), x, y) => Precedes(s \o q, x, y)
           /\ Holds(s \o q, Head(q))
           /\ Holds(s \o Tail(q), Head(q)) => Precedes(s \o q, Head(q), Head(q))
<1> DEFINE p == s \o q
           r == s \o Tail(q)
           k == Len(s) + 1
           n == Len(s) + Len(q)
<1>1. Len(s) \in Nat /\ Len(q) \in Nat /\ Len(q) > 0 /\ Head(q) = q[1]
  OBVIOUS
<1>2. /\ Tail(q) \in Seq(Entries) /\ Len(Tail(q)) = Len(q) - 1
      /\ \A i \in 1..Len(Tail(q)) : Tail(q)[i] = q[i + 1]
  BY HeadTailProperties
<1>3. /\ DOMAIN p = 1..n
      /\ \A i \in 1..n : p[i] = IF i <= Len(s) THEN s[i] ELSE q[i - Len(s)]
  BY ConcatProperties
<1>4. DOMAIN r = 1..n - 1
  BY <1>1, <1>2
<1>5. \A i \in 1..n - 1 : r[i] = IF i <= Len(s) THEN s[i] ELSE Tail(q)[i - Len(s)]
  BY <1>1, <1>2, ConcatProperties
<1>6. \A i \in 1..n - 1 : r[i] = IF i < k THEN p[i] ELSE p[i + 1]
  <2> SUFFICES ASSUME NEW i \in 1..n - 1 PROVE r[i] = IF i < k THEN p[i] ELSE p[i + 1]
    OBVIOUS
  <2> HIDE DEF p, r
  <2>1. CASE i < k
    BY <2>1, <1>1, <1>3, <1>5
  <2>2. CASE ~ (i < k)
    <3>1. r[i] = Tail(q)[i - Len(s)] /\ i - Len(s) \in 1..Len(Tail(q))
      BY <2>2, <1>1, <1>2, <1>5
    <3>2. p[i + 1] = q[i + 1 - Len(s)] /\ i + 1 - Len(s) = (i - Len(s)) + 1
      BY <2>2, <1>1, <1>3
    <3> QED
      BY <2>2, <3>1, <3>2, <1>2
  <2> QED
    BY <2>1, <2>2
<1>7. k \in 1..n /\ n \in Nat /\ k \in Nat
  BY <1>1
<1>8. p[k] = Head(q)
  BY <1>1, <1>3, <1>7
<1> HIDE DEF p, r, k, n
<1>9. \A x : Holds(r, x) => Holds(p, x)
  <2> SUFFICES ASSUME NEW i \in 1..n - 1 PROVE Holds(p, r[i])
    BY <1>4 DEF Holds
  <2>1. \E j \in 1..n : p[j] = r[i]
    <3>1. i \in 1..n /\ i + 1 \in 1..n
      BY <1>7
    <3> QED
      BY <3>1, <1>6
  <2> QED
    BY <2>1, <1>3 DEF Holds
<1>10. \A x : Holds(p, x) => x = Head(q) \/ Holds(r, x)
  <2> SUFFICES ASSUME NEW x, NEW i \in 1..n, p[i] = x, x # Head(q) PROVE Holds(r, x)
    BY <1>3 DEF Holds
  <2>0. i # k
    BY <1>8
  <2>1. CASE i < k
    <3>1. i \in 1..n - 1 /\ r[i] = p[i]
      BY <2>1, <1>6, <1>7
    <3> QED
      BY <3>1, <1>4 DEF Holds
  <2>2. CASE i > k
    <3>1. i - 1 \in 1..n - 1 /\ ~ (i - 1 < k) /\ (i - 1) + 1 = i
      BY <2>2, <1>7
    <3>2. r[i - 1] = p[i]
      BY <3>1, <1>6
    <3> QED
      BY <3>1, <3>2, <1>4 DEF Holds
  <2> QED
    BY <2>0, <2>1, <2>2, <1>7
<1>11. \A x, y : Precedes(r, x, y) => Precedes(p, x, y)
  <2> SUFFICES ASSUME NEW i \in 1..n - 1, NEW j \in 1..n - 1, i < j
               PROVE  Precedes(p, r[i], r[j])
    BY <1>4 DEF Precedes
  <2> DEFINE at(a) == IF a < k THEN a ELSE a + 1
  <2>1. at(i) \in 1..n /\ at(j) \in 1..n /\ at(i) < at(j)
    BY <1>7
  <2>2. r[i] = p[at(i)] /\ r[j] = p[at(j)]
    BY <1>6
  <2> QED
    BY <2>1, <2>2, <1>3 DEF Precedes
<1>12. Holds(p, Head(q))
  BY <1>3, <1>7, <1>8 DEF Holds
<1>13. Holds(r, Head(q)) => Precedes(p, Head(q), Head(q))
  <2> SUFFICES ASSUME NEW i \in 1..n - 1, r[i] = Head(q)
               PROVE  Precedes(p, Head(q), Head(q))
    BY <1>4 DEF Holds
  <2>1. CASE i < k
    <3>1. p[i] = Head(q) /\ i \in 1..n
      BY <2>1, <1>6, <1>7
    <3> QED
      BY <2>1, <3>1, <1>3, <1>7, <1>8 DEF Precedes
  <2>2. CASE ~ (i < k)
    <3>1. p[i + 1] = Head(q) /\ i + 1 \in 1..n /\ k < i + 1
      BY <2>2, <1>6, <1>7
    <3> QED
      BY <3>1, <1>3, <1>7, <1>8 DEF Precedes
  <2> QED
    BY <2>1, <2>2
<1> QED
  BY <1>9, <1>10, <1>11, <1>12, <1>13 DEF p, r

\* Before anything is recorded there is nothing to be in order.
LEMMA OrderStarts == TraceInit => OrderInv
<1> SUFFICES ASSUME TraceInit PROVE OrderInv
  OBVIOUS
<1>1. AcceptedWereTaken /\ StagesAreEmptied
  BY DEF TraceInit, AcceptedWereTaken, StagesAreEmptied
<1>2. Pipeline = <<>> /\ accepted = <<>>
  BY DEF TraceInit, Pipeline
<1>3. \A e : ~ Holds(<<>>, e)
  BY DEF Holds
<1>4. \A e, f : ~ Precedes(<<>>, e, f)
  BY DEF Precedes
<1>5. TraceInOrder
  BY <1>2, <1>3, <1>4 DEF TraceInOrder
<1> QED
  BY <1>1, <1>5 DEF OrderInv

\* What is on its way to the file is entries.
LEMMA PipelineType ==
    ASSUME TraceTypeOK
    PROVE  /\ Pipeline \in Seq(Entries)
           /\ file \o buffer \in Seq(Entries) /\ (file \o buffer) \o hand \in Seq(Entries)
<1>1. file \o buffer \in Seq(Entries)
  BY ConcatProperties DEF TraceTypeOK
<1>2. (file \o buffer) \o hand \in Seq(Entries)
  BY <1>1, ConcatProperties DEF TraceTypeOK
<1>3. ((file \o buffer) \o hand) \o queue \in Seq(Entries)
  BY <1>2, ConcatProperties DEF TraceTypeOK
<1> QED
  BY <1>1, <1>2, <1>3 DEF Pipeline

\* The steps that move nothing but the stage an entry is at.
LEMMA OrderUntouched ==
    ASSUME TraceInOrder, Pipeline' = Pipeline, accepted' = accepted,
           \A e \in Entries : (entry'[e] = "lost") <=> (entry[e] = "lost")
    PROVE  TraceInOrder'
BY DEF TraceInOrder, Holds, Precedes

\* Record: the entry stands last in the queue as in what the queue took, and it is
\* new to both.
LEMMA RecordKeepsOrder ==
    ASSUME TraceInv, OrderInv, NEW e \in Entries, Record(e)
    PROVE  OrderInv'
<1> USE DEF TraceInv, OrderInv
<1>1. StagesAreEmptied'
  BY DEF Record, StagesAreEmptied
<1>2. CASE ~ (Len(queue) < QueueCapacity)
  <2>1. /\ entry[e] = "none" /\ entry' = [entry EXCEPT ![e] = "full"]
        /\ UNCHANGED <<queue, accepted, file, buffer, hand>>
    BY <1>2 DEF Record
  <2>2. AcceptedWereTaken'
    BY <2>1 DEF AcceptedWereTaken, TraceTypeOK
  <2>3. Pipeline' = Pipeline
    BY <2>1 DEF Pipeline
  <2>4. \A f \in Entries : (entry'[f] = "lost") <=> (entry[f] = "lost")
    BY <2>1 DEF TraceTypeOK
  <2> QED
    BY <1>1, <2>1, <2>2, <2>3, <2>4, OrderUntouched
<1>3. CASE Len(queue) < QueueCapacity
  <2>1. /\ entry[e] = "none" /\ entry' = [entry EXCEPT ![e] = "queued"]
        /\ queue' = Append(queue, e) /\ accepted' = Append(accepted, e)
        /\ UNCHANGED <<file, buffer, hand>>
    BY <1>3 DEF Record
  <2>2. entry'[e] = "queued" /\ \A f \in Entries : f # e => entry'[f] = entry[f]
    BY <2>1 DEF TraceTypeOK
  <2>3. accepted \in Seq(Entries) /\ queue \in Seq(Entries) /\ Pipeline \in Seq(Entries)
    BY PipelineType DEF TraceTypeOK
  <2>4. Pipeline' = Append(Pipeline, e)
    <3> DEFINE front == (file \o buffer) \o hand
    <3>1. front \in Seq(Entries)
      BY PipelineType
    <3>2. Pipeline' = front \o Append(queue, e)
      BY <2>1 DEF Pipeline
    <3> DEFINE last == <<e>>
    <3>7. last \in Seq(Entries)
      OBVIOUS
    <3>3. Append(queue, e) = queue \o last
      BY <2>3, AppendIsConcat
    <3>5. Pipeline = front \o queue
      BY DEF Pipeline
    <3>6. Append(Pipeline, e) = Pipeline \o last
      BY <2>3, AppendIsConcat
    <3> HIDE DEF front, last
    <3>4. front \o (queue \o last) = (front \o queue) \o last
      BY <3>1, <3>7, <2>3, Regrouped
    <3> QED
      BY <3>2, <3>3, <3>4, <3>5, <3>6
  <2>5. ~ Holds(accepted, e)
    BY <2>1 DEF AcceptedWereTaken, Holds
  <2>6. ~ Holds(Pipeline, e)
    BY <2>5 DEF TraceInOrder
  <2>7. AcceptedWereTaken'
    <3>1. /\ DOMAIN accepted' = 1..Len(accepted) + 1 /\ DOMAIN accepted = 1..Len(accepted)
          /\ accepted'[Len(accepted) + 1] = e /\ Len(accepted) \in Nat
          /\ \A i \in 1..Len(accepted) : accepted'[i] = accepted[i] /\ accepted[i] \in Entries
      BY <2>1, <2>3
    <3> QED
      BY <2>2, <3>1 DEF AcceptedWereTaken
  <2>8. \A f \in Entries : Holds(Pipeline', f) <=> Holds(accepted', f) /\ entry'[f] # "lost"
    BY <2>1, <2>2, <2>3, <2>4, AppendHolds DEF TraceInOrder
  <2>9. \A f, g \in Entries : Precedes(Pipeline', f, g) => f # g /\ Precedes(accepted', f, g)
    BY <2>1, <2>3, <2>4, <2>6, AppendHolds DEF TraceInOrder
  <2>10. TraceInOrder'
    BY <2>8, <2>9 DEF TraceInOrder, Holds, Precedes
  <2> QED
    BY <1>1, <2>7, <2>10
<1> QED
  BY <1>2, <1>3

\* CountDropped: the entry was not taken, and is not lost either.
LEMMA CountDroppedKeepsOrder ==
    ASSUME TraceInv, OrderInv, NEW e \in Entries, CountDropped(e)
    PROVE  OrderInv'
<1> USE DEF TraceInv, OrderInv
<1>1. entry[e] = "full" /\ entry' = [entry EXCEPT ![e] = "dropped"]
  BY DEF CountDropped
<1>2. UNCHANGED <<queue, accepted, file, buffer, hand, thread>>
  BY DEF CountDropped
<1>3. AcceptedWereTaken'
  BY <1>1, <1>2 DEF AcceptedWereTaken, TraceTypeOK
<1>4. StagesAreEmptied'
  BY <1>2 DEF StagesAreEmptied
<1>5. Pipeline' = Pipeline
  BY <1>2 DEF Pipeline
<1>6. \A f \in Entries : (entry'[f] = "lost") <=> (entry[f] = "lost")
  BY <1>1 DEF TraceTypeOK
<1> QED
  BY <1>2, <1>3, <1>4, <1>5, <1>6, OrderUntouched

\* The thread moves the oldest entry of one stage to the next, which keeps their
\* order, or loses the first of the queue, which then stands nowhere.
LEMMA ThreadKeepsOrder ==
    ASSUME TraceInv, OrderInv, ThreadStep
    PROVE  OrderInv'
<1> USE DEF TraceInv, OrderInv
<1>t. /\ file \in Seq(Entries) /\ buffer \in Seq(Entries) /\ hand \in Seq(Entries)
      /\ queue \in Seq(Entries) /\ accepted \in Seq(Entries)
  BY DEF TraceTypeOK
<1>e. <<>> \in Seq(Entries)
  OBVIOUS
<1>1. CASE Wake
  <2>1. /\ thread = "waiting" /\ queue # <<>> /\ queue' = Tail(queue)
        /\ UNCHANGED <<accepted, file, buffer>>
    BY <1>1 DEF Wake
  <2>2. buffer = <<>> /\ hand = <<>>
    BY <2>1 DEF StagesAreEmptied
  <2>3. Head(queue) \in Entries /\ Tail(queue) \in Seq(Entries)
    BY <1>t, <2>1, HeadTailProperties
  <2>4. Pipeline = file \o queue
    BY <1>t, <2>2, ConcatEmptySeq DEF Pipeline
  <2>5. CASE hand' = <<Head(queue)>> /\ thread' = "writing" /\ UNCHANGED entry
    <3>1. Pipeline' = Pipeline
      <4>1. queue = <<Head(queue)>> \o Tail(queue)
        BY <1>t, <2>1, <2>3
      <4>2. Pipeline' = ((file \o <<>>) \o <<Head(queue)>>) \o Tail(queue)
        BY <2>1, <2>2, <2>5 DEF Pipeline
      <4>3. file \o <<>> = file
        BY <1>t, ConcatEmptySeq
      <4> DEFINE first == <<Head(queue)>>
      <4>4. first \in Seq(Entries)
        BY <2>3
      <4>0. queue = first \o Tail(queue)
        BY <4>1
      <4>5. Pipeline' = (file \o first) \o Tail(queue)
        BY <4>2, <4>3
      <4> HIDE DEF first
      <4>6. (file \o first) \o Tail(queue) = file \o (first \o Tail(queue))
        <5>1. file \in Seq(Entries) /\ Tail(queue) \in Seq(Entries)
          BY <1>t, <2>3
        <5> QED
          BY <4>4, <5>1, Regrouped
      <4> QED
        BY <2>4, <4>0, <4>5, <4>6
    <3>2. AcceptedWereTaken'
      BY <2>1, <2>5 DEF AcceptedWereTaken
    <3>3. StagesAreEmptied'
      BY <2>5 DEF StagesAreEmptied
    <3> QED
      BY <2>1, <2>5, <3>1, <3>2, <3>3, OrderUntouched
  <2>6. CASE /\ entry' = [entry EXCEPT ![Head(queue)] = "lost"]
             /\ UNCHANGED <<hand, thread>>
    <3> DEFINE h == Head(queue)
    <3>1. entry'[h] = "lost" /\ \A f \in Entries : f # h => entry'[f] = entry[f]
      BY <2>3, <2>6 DEF TraceTypeOK
    <3>2. Pipeline' = file \o Tail(queue)
      BY <1>t, <2>1, <2>2, <2>3, <2>6, ConcatEmptySeq DEF Pipeline
    <3>3. AcceptedWereTaken'
      BY <2>1, <1>t, <3>1 DEF AcceptedWereTaken
    <3>4. StagesAreEmptied'
      BY <2>1, <2>6 DEF StagesAreEmptied
    <3> HIDE DEF h
    <3>5. /\ \A x : Holds(Pipeline', x) => Holds(Pipeline, x)
          /\ \A x : Holds(Pipeline, x) => x = h \/ Holds(Pipeline', x)
          /\ \A x, y : Precedes(Pipeline', x, y) => Precedes(Pipeline, x, y)
          /\ Holds(Pipeline', h) => Precedes(Pipeline, h, h)
      BY <1>t, <2>1, <2>4, <3>2, TailHolds DEF h
    <3>6. h \in Entries
      BY <2>3 DEF h
    <3>7. ~ Holds(Pipeline', h)
      BY <3>5, <3>6 DEF TraceInOrder
    <3>8. \A f \in Entries : Holds(Pipeline', f) <=> Holds(accepted', f) /\ entry'[f] # "lost"
      <4> SUFFICES ASSUME NEW f \in Entries
                   PROVE  Holds(Pipeline', f) <=> Holds(accepted', f) /\ entry'[f] # "lost"
        OBVIOUS
      <4>1. CASE f = h
        BY <3>1, <3>7, <4>1
      <4>2. CASE f # h
        <5>1. Holds(Pipeline', f) <=> Holds(Pipeline, f)
          BY <3>5, <4>2
        <5>2. Holds(Pipeline, f) <=> Holds(accepted, f) /\ entry[f] # "lost"
          BY DEF TraceInOrder
        <5> QED
          BY <2>1, <3>1, <4>2, <5>1, <5>2
      <4> QED
        BY <4>1, <4>2
    <3>9. \A f, g \in Entries : Precedes(Pipeline', f, g) => f # g /\ Precedes(accepted', f, g)
      BY <2>1, <3>5 DEF TraceInOrder
    <3>10. TraceInOrder'
      BY <3>8, <3>9 DEF TraceInOrder, Holds, Precedes
    <3> QED
      BY <3>3, <3>4, <3>10
  <2> QED
    BY <1>1, <2>5, <2>6 DEF Wake
<1>2. CASE WriteEntry
  <2>1. /\ buffer' = buffer \o hand /\ hand' = <<>> /\ thread' = "draining"
        /\ UNCHANGED <<entry, queue, accepted, file>>
    BY <1>2 DEF WriteEntry
  <2>2. Pipeline' = Pipeline
    <3>1. (file \o buffer) \o hand = file \o (buffer \o hand)
      BY <1>t, Regrouped
    <3>2. file \o (buffer \o hand) \in Seq(Entries)
      BY <3>1, PipelineType
    <3>3. (file \o (buffer \o hand)) \o <<>> = file \o (buffer \o hand)
      BY <3>2, ConcatEmptySeq
    <3> QED
      BY <2>1, <3>1, <3>3 DEF Pipeline
  <2>3. StagesAreEmptied' /\ AcceptedWereTaken'
    BY <2>1 DEF StagesAreEmptied, AcceptedWereTaken
  <2> QED
    BY <2>1, <2>2, <2>3, OrderUntouched
<1>3. CASE Receive
  <2>1. /\ thread # "writing" /\ queue # <<>> /\ queue' = Tail(queue) /\ hand' = <<Head(queue)>>
        /\ thread' = "writing" /\ UNCHANGED <<entry, accepted, file, buffer>>
    BY <1>3 DEF Receive
  <2>2. hand = <<>>
    BY <2>1 DEF StagesAreEmptied
  <2>3. Head(queue) \in Entries /\ Tail(queue) \in Seq(Entries)
    BY <1>t, <2>1, HeadTailProperties
  <2>4. Pipeline' = Pipeline
    <3> DEFINE front == file \o buffer
    <3>1. front \in Seq(Entries)
      BY PipelineType
    <3>2. Pipeline' = (front \o <<Head(queue)>>) \o Tail(queue)
      BY <2>1 DEF Pipeline
    <3>3. Pipeline = (front \o <<>>) \o queue
      BY <2>2 DEF Pipeline
    <3>4. queue = <<Head(queue)>> \o Tail(queue)
      BY <1>t, <2>1, <2>3
    <3>5. <<Head(queue)>> \in Seq(Entries)
      BY <2>3
    <3> HIDE DEF front
    <3>6. (front \o <<Head(queue)>>) \o Tail(queue) = front \o (<<Head(queue)>> \o Tail(queue))
      BY <2>3, <3>1, <3>5, Regrouped
    <3>7. front \o <<>> = front
      BY <3>1, ConcatEmptySeq
    <3> QED
      BY <3>2, <3>3, <3>4, <3>6, <3>7
  <2>5. StagesAreEmptied' /\ AcceptedWereTaken'
    BY <2>1 DEF StagesAreEmptied, AcceptedWereTaken
  <2> QED
    BY <2>1, <2>4, <2>5, OrderUntouched
<1>4. CASE Pause
  <2>1. UNCHANGED <<entry, queue, accepted, file, buffer, hand>>
    BY <1>4 DEF Pause
  <2>2. Pipeline' = Pipeline
    BY <2>1 DEF Pipeline
  <2>3. StagesAreEmptied' /\ AcceptedWereTaken'
    BY <1>4, <2>1 DEF Pause, StagesAreEmptied, AcceptedWereTaken
  <2> QED
    BY <2>1, <2>2, <2>3, OrderUntouched
<1>5. CASE CloseFile
  <2>1. /\ thread = "closing" /\ file' = file \o buffer /\ buffer' = <<>> /\ thread' = "waiting"
        /\ UNCHANGED <<entry, queue, accepted, hand>>
    BY <1>5 DEF CloseFile
  <2>2. Pipeline' = Pipeline
    <3>1. (file \o buffer) \o <<>> = file \o buffer
      BY PipelineType, ConcatEmptySeq
    <3> QED
      BY <2>1, <3>1 DEF Pipeline
  <2>3. StagesAreEmptied' /\ AcceptedWereTaken'
    BY <2>1 DEF StagesAreEmptied, AcceptedWereTaken
  <2> QED
    BY <2>1, <2>2, <2>3, OrderUntouched
<1>6. CASE EndThread
  <2>1. UNCHANGED <<entry, queue, accepted, file, buffer, hand>>
    BY <1>6 DEF EndThread
  <2>2. Pipeline' = Pipeline
    BY <2>1 DEF Pipeline
  <2>3. StagesAreEmptied' /\ AcceptedWereTaken'
    BY <1>6, <2>1 DEF EndThread, StagesAreEmptied, AcceptedWereTaken
  <2> QED
    BY <2>1, <2>2, <2>3, OrderUntouched
<1> QED
  BY <1>1, <1>2, <1>3, <1>4, <1>5, <1>6 DEF ThreadStep

\* Steps that do not touch the trace keep its order.
LEMMA OrderAside ==
    ASSUME OrderInv, UNCHANGED <<entry, accepted, thread, file, buffer, hand, queue>>
    PROVE  OrderInv'
<1>1. Pipeline' = Pipeline
  BY DEF Pipeline
<1>2. TraceInOrder'
  BY <1>1, OrderUntouched DEF OrderInv
<1> QED
  BY <1>2 DEF OrderInv, AcceptedWereTaken, StagesAreEmptied

-----------------------------------------------------------------------------
(* The capture *)

\* While the stream is captured the queue is open; the thread ends only when it is
\* closed and empty, or on a failed write.
QueueIsOpen ==
    /\ capture = "spooling" /\ overflow = "none" => sender
    /\ writer # "receiving" /\ ~ failed => ~ sender /\ channel = <<>>
    /\ writer = "receiving" => ~ failed

\* CaptureIsPrefix without the concatenation
WrittenInOrder ==
    /\ ~ failed =>
        /\ \A i \in 1..Len(lines) : lines[i] = i
        /\ \A i \in 1..Len(channel) : channel[i] = Len(lines) + i
        /\ Len(lines) + Len(channel) + missed = seen
    /\ missed <= seen
    /\ overflow = "none" <=> missed = 0

FlushIsLast ==
    /\ writer = "ended" <=> flushed # "not"
    /\ flushed = "all" => disk = lines

SpoolInv == SpoolTypeOK /\ QueueIsOpen /\ WrittenInOrder /\ FlushIsLast /\ WholeIsComplete

\* A capture starts with an open, empty queue.
LEMMA SpoolStarts == SpoolInit => SpoolInv
<1> SUFFICES ASSUME SpoolInit PROVE SpoolInv
  OBVIOUS
<1>1. SpoolTypeOK
  <2>1. 0 \in 0..MaxEvents /\ 0 <= ChannelCapacity
    BY SpoolAssumption
  <2>2. <<>> \in Seq(Numbers) /\ Len(<<>>) = 0
    OBVIOUS
  <2> QED
    BY <2>1, <2>2 DEF SpoolInit, SpoolTypeOK, Captures
<1>2. QueueIsOpen /\ FlushIsLast /\ WholeIsComplete
  BY DEF SpoolInit, QueueIsOpen, FlushIsLast, WholeIsComplete
<1>3. WrittenInOrder
  BY DEF SpoolInit, WrittenInOrder
<1> QED
  BY <1>1, <1>2, <1>3 DEF SpoolInv

\* What is written and what waits is the beginning of the stream.
LEMMA PrefixFollows == SpoolInv => CaptureIsFaithful
<1> SUFFICES ASSUME SpoolInv PROVE CaptureIsFaithful
  OBVIOUS
<1> DEFINE written == lines \o channel
<1>1. lines \in Seq(Numbers) /\ channel \in Seq(Numbers)
  BY DEF SpoolInv, SpoolTypeOK
<1>2. /\ Len(lines) \in Nat /\ Len(channel) \in Nat
      /\ Len(written) = Len(lines) + Len(channel)
      /\ DOMAIN written = 1..Len(lines) + Len(channel)
      /\ \A i \in 1..Len(lines) + Len(channel) :
            written[i] = IF i <= Len(lines) THEN lines[i] ELSE channel[i - Len(lines)]
  BY <1>1
<1>3. ~ failed => \A i \in DOMAIN written : written[i] = i
  BY <1>2 DEF SpoolInv, WrittenInOrder
<1>4. ~ failed => Len(written) + missed = seen
  BY <1>2 DEF SpoolInv, WrittenInOrder
<1> QED
  BY <1>3, <1>4 DEF CaptureIsFaithful, CaptureIsPrefix, SpoolInv, WrittenInOrder

\* OnEvent: the event joins the queue, or it is missed, as all after it.
LEMMA EventKeeps ==
    ASSUME SpoolInv, NEW n \in Sizes, OnEvent(n)
    PROVE  SpoolInv'
<1> USE SpoolAssumption DEF SpoolInv
<1>1. n \in Nat /\ MaxEvents \in Nat /\ seen + 1 \in Numbers /\ seen' = seen + 1
  BY DEF OnEvent, Numbers, SpoolTypeOK
<1>2. capture = "spooling" /\ capture' = "spooling" /\ seen \in Nat /\ missed \in Nat
  BY DEF OnEvent, SpoolTypeOK
<1>3. UNCHANGED <<writer, failed, lines, disk, flushed, onDisk, body>>
  BY DEF OnEvent
<1>4. WholeIsComplete' /\ FlushIsLast'
  BY <1>2, <1>3 DEF WholeIsComplete, FlushIsLast
<1>5. CASE channel' = channel
  <2>1. missed' = missed + 1 /\ overflow' # "none" /\ capturedBytes' = capturedBytes
    BY <1>5, <1>1 DEF OnEvent, MarkOverflow, SpoolTypeOK
  <2>2. missed' <= MaxEvents /\ missed' \in Nat
    <3>1. missed <= seen
      BY DEF WrittenInOrder, SpoolTypeOK
    <3> QED
      BY <1>1, <1>2, <2>1, <3>1 DEF OnEvent
  <2>3. SpoolTypeOK'
    <3>1. /\ overflow' \in {"none", "budget", "queue", "disconnected"}
          /\ sender' \in BOOLEAN
      BY <1>5, <1>1 DEF OnEvent, MarkOverflow, SpoolTypeOK
    <3>2. seen' \in 0..MaxEvents
      BY <1>1, <1>2 DEF OnEvent
    <3> QED
      BY <1>2, <1>3, <1>5, <2>1, <2>2, <3>1, <3>2 DEF SpoolTypeOK
  <2>4. QueueIsOpen'
    BY <1>3, <1>5, <2>1 DEF QueueIsOpen, OnEvent, MarkOverflow
  <2>5. WrittenInOrder'
    <3>1. Len(lines) \in Nat /\ Len(channel) \in Nat
      BY DEF SpoolTypeOK
    <3>2. missed' # 0
      BY <1>2, <2>1
    <3> QED
      BY <1>1, <1>2, <1>3, <1>5, <2>1, <3>1, <3>2 DEF WrittenInOrder
  <2> QED
    BY <1>4, <2>3, <2>4, <2>5
<1>6. CASE channel' # channel
  <2>1. /\ channel' = Append(channel, seen + 1) /\ overflow = "none" /\ overflow' = "none"
        /\ writer # "ended" /\ Len(channel) < ChannelCapacity
        /\ capturedBytes' = capturedBytes + n /\ UNCHANGED <<sender, missed>>
    BY <1>6 DEF OnEvent, MarkOverflow
  <2>2. SpoolTypeOK'
    BY <1>1, <1>2, <1>3, <2>1 DEF SpoolTypeOK, OnEvent
  <2>3. QueueIsOpen'
    BY <1>2, <1>3, <2>1 DEF QueueIsOpen
  <2>4. WrittenInOrder'
    <3>1. /\ Len(lines) \in Nat /\ Len(channel) \in Nat
          /\ Len(channel') = Len(channel) + 1 /\ channel'[Len(channel) + 1] = seen + 1
          /\ \A i \in 1..Len(channel) : channel'[i] = channel[i]
      BY <2>1 DEF SpoolTypeOK
    <3>2. missed = 0 /\ missed' = 0
      BY <2>1 DEF WrittenInOrder
    <3>3. ~ failed => Len(lines) + Len(channel) = seen
      BY <1>2, <3>1, <3>2 DEF WrittenInOrder
    <3>4. ~ failed => \A i \in 1..Len(channel') : channel'[i] = Len(lines) + i
      <4> SUFFICES ASSUME ~ failed, NEW i \in 1..Len(channel')
                   PROVE  channel'[i] = Len(lines) + i
        OBVIOUS
      <4>1. CASE i \in 1..Len(channel)
        BY <3>1, <4>1 DEF WrittenInOrder
      <4>2. CASE i = Len(channel) + 1
        BY <3>1, <3>3, <4>2
      <4> QED
        BY <3>1, <4>1, <4>2
    <3>5. /\ ~ failed' => Len(lines') + Len(channel') + missed' = seen'
          /\ missed' <= seen'
      BY <1>1, <1>2, <1>3, <2>1, <3>1, <3>2, <3>3
    <3>6. ~ failed' => \A i \in 1..Len(lines') : lines'[i] = i
      BY <1>3 DEF WrittenInOrder
    <3> QED
      BY <1>3, <2>1, <3>2, <3>4, <3>5, <3>6 DEF WrittenInOrder
  <2> QED
    BY <1>4, <2>2, <2>3, <2>4
<1> QED
  BY <1>5, <1>6

\* The thread: an event moves from the queue to the lines; the flush comes last.
LEMMA WriterKeeps ==
    ASSUME SpoolInv, WriterStep
    PROVE  SpoolInv'
<1> USE SpoolAssumption DEF SpoolInv
<1>1. CASE ReceiveLine
  <2>1. /\ Head(channel) \in Numbers /\ Tail(channel) \in Seq(Numbers)
        /\ Len(Tail(channel)) = Len(channel) - 1 /\ Len(channel) \in Nat /\ Len(lines) \in Nat
        /\ Head(channel) = channel[1]
        /\ \A i \in 1..Len(Tail(channel)) : Tail(channel)[i] = channel[i + 1]
    BY <1>1 DEF ReceiveLine, SpoolTypeOK
  <2>2. SpoolTypeOK'
    <3>1. lines' \in Seq(Numbers) /\ writer' \in {"receiving", "flushing", "ended"} /\ failed' \in BOOLEAN
      <4>1. CASE lines' = Append(lines, Head(channel)) /\ UNCHANGED <<writer, failed>>
        BY <2>1, <4>1 DEF SpoolTypeOK
      <4>2. CASE writer' = "flushing" /\ failed' = TRUE /\ UNCHANGED lines
        BY <4>2 DEF SpoolTypeOK
      <4> QED
        BY <1>1, <4>1, <4>2 DEF ReceiveLine
    <3>2. channel' \in Seq(Numbers) /\ Len(channel') <= ChannelCapacity
      BY <1>1, <2>1 DEF ReceiveLine, SpoolTypeOK
    <3> QED
      BY <1>1, <3>1, <3>2 DEF ReceiveLine, SpoolTypeOK
  <2>3. QueueIsOpen' /\ WholeIsComplete' /\ FlushIsLast'
    BY <1>1, <2>1 DEF ReceiveLine, QueueIsOpen, WholeIsComplete, FlushIsLast, SpoolTypeOK
  <2>4. WrittenInOrder'
    <3>1. CASE failed'
      BY <1>1, <3>1 DEF ReceiveLine, WrittenInOrder
    <3>2. CASE ~ failed'
      <4>1. lines' = Append(lines, Head(channel)) /\ channel' = Tail(channel) /\ ~ failed
        BY <1>1, <3>2 DEF ReceiveLine, SpoolTypeOK, QueueIsOpen
      <4>2. Head(channel) = Len(lines) + 1
        BY <1>1, <2>1, <4>1 DEF WrittenInOrder, ReceiveLine
      <4>3. Len(lines') = Len(lines) + 1 /\ \A i \in 1..Len(lines') : lines'[i] = i
        <5>1. /\ Len(lines') = Len(lines) + 1 /\ lines'[Len(lines) + 1] = Head(channel)
              /\ \A i \in 1..Len(lines) : lines'[i] = lines[i]
          BY <4>1 DEF SpoolTypeOK
        <5> QED
          BY <2>1, <4>1, <4>2, <5>1 DEF WrittenInOrder
      <4>4. \A i \in 1..Len(channel') : channel'[i] = Len(lines') + i
        BY <2>1, <4>1, <4>3 DEF WrittenInOrder
      <4> QED
        <5>1. Len(lines') + Len(channel') = Len(lines) + Len(channel) /\ missed \in Nat /\ seen \in Nat
          BY <2>1, <4>1, <4>3 DEF SpoolTypeOK
        <5>2. missed' = missed /\ seen' = seen /\ overflow' = overflow
          BY <1>1 DEF ReceiveLine
        <5>3. Len(lines') + Len(channel') + missed' = seen'
          BY <4>1, <5>1, <5>2 DEF WrittenInOrder
        <5> QED
          BY <4>3, <4>4, <5>2, <5>3 DEF WrittenInOrder
    <3> QED
      BY <3>1, <3>2
  <2> QED
    BY <2>2, <2>3, <2>4
<1>2. CASE EndOfChannel
  BY <1>2 DEF EndOfChannel, SpoolTypeOK, QueueIsOpen, WrittenInOrder, FlushIsLast, WholeIsComplete
<1>3. CASE Flush
  <2>1. SpoolTypeOK'
    <3>1. disk' \in Seq(Numbers) /\ flushed' \in {"all", "cut", "torn"}
      <4>1. CASE disk' = lines /\ flushed' = "all"
        BY <4>1 DEF SpoolTypeOK
      <4>2. CASE \E k \in 0..Len(lines) - 1 :
                    disk' = SubSeq(lines, 1, k) /\ flushed' \in {"cut", "torn"}
        <5>1. PICK k \in 0..Len(lines) - 1 :
                    disk' = SubSeq(lines, 1, k) /\ flushed' \in {"cut", "torn"}
          BY <4>2
        <5>2. \A i \in 1..k : lines[i] \in Numbers
          BY DEF SpoolTypeOK
        <5>3. SubSeq(lines, 1, k) \in Seq(Numbers)
          BY <5>2 DEF SpoolTypeOK
        <5> QED
          BY <5>1, <5>3
      <4> QED
        BY <1>3, <4>1, <4>2 DEF Flush
    <3> QED
      BY <1>3, <3>1 DEF Flush, SpoolTypeOK
  <2>2. QueueIsOpen'
    BY <1>3 DEF Flush, QueueIsOpen
  <2>3. WrittenInOrder'
    BY <1>3 DEF Flush, WrittenInOrder, QueueIsOpen, SpoolTypeOK
  <2>4. FlushIsLast'
    BY <1>3 DEF Flush, FlushIsLast, SpoolTypeOK
  <2>5. WholeIsComplete'
    BY <1>3 DEF Flush, FlushIsLast, WholeIsComplete
  <2> QED
    BY <2>1, <2>2, <2>3, <2>4, <2>5
<1> QED
  BY <1>1, <1>2, <1>3 DEF WriterStep

\* The task: what it replays was flushed by a thread that has ended.
LEMMA TaskKeeps ==
    ASSUME SpoolInv, TaskStep \/ FinishCapture
    PROVE  SpoolInv'
<1> USE SpoolAssumption DEF SpoolInv
<1>1. CASE FinishCapture
  <2>1. SpoolTypeOK'
    BY <1>1 DEF FinishCapture, SpoolTypeOK, Captures
  <2>2. QueueIsOpen'
    BY <1>1 DEF FinishCapture, QueueIsOpen
  <2>3. WrittenInOrder' /\ FlushIsLast' /\ WholeIsComplete'
    BY <1>1 DEF FinishCapture, WrittenInOrder, FlushIsLast, WholeIsComplete
  <2> QED
    BY <2>1, <2>2, <2>3
<1>2. CASE StartReplay
  BY <1>2 DEF StartReplay, SpoolTypeOK, Captures, QueueIsOpen, WrittenInOrder, FlushIsLast, WholeIsComplete
<1>3. CASE Discard
  BY <1>3 DEF Discard, SpoolTypeOK, Captures, QueueIsOpen, WrittenInOrder, FlushIsLast, WholeIsComplete
<1>4. CASE Replay
  <2>1. SpoolTypeOK' /\ QueueIsOpen' /\ WrittenInOrder' /\ FlushIsLast'
    BY <1>4 DEF Replay, SpoolTypeOK, Captures, QueueIsOpen, WrittenInOrder, FlushIsLast
  <2>2. WholeIsComplete'
    <3>1. CASE capture' = "whole" /\ flushed' # "cut"
      <4>1. overflow = "none" /\ ~ failed /\ flushed = "all" /\ body' = lines /\ seen' = seen
        BY <1>4, <3>1 DEF Replay, FlushIsLast, SpoolTypeOK
      <4>2. channel = <<>> /\ missed = 0
        BY <1>4, <4>1 DEF Replay, QueueIsOpen, WrittenInOrder
      <4>3. Len(lines) = seen /\ \A i \in 1..Len(lines) : lines[i] = i
        BY <4>1, <4>2 DEF WrittenInOrder, SpoolTypeOK
      <4>4. lines = [i \in 1..seen |-> i]
        BY <4>3 DEF SpoolTypeOK
      <4> QED
        BY <3>1, <4>1, <4>4 DEF WholeIsComplete
    <3>2. CASE capture' = "truncated"
      BY <1>4, <3>2 DEF Replay, WrittenInOrder, WholeIsComplete, SpoolTypeOK
    <3> QED
      BY <3>1, <3>2 DEF WholeIsComplete
  <2> QED
    BY <2>1, <2>2
<1> QED
  BY <1>1, <1>2, <1>3, <1>4 DEF TaskStep

\* Steps that do not touch the capture keep what is known of it.
LEMMA SpoolAside ==
    ASSUME SpoolInv, UNCHANGED spoolVars
    PROVE  SpoolInv'
BY DEF SpoolInv, SpoolTypeOK, QueueIsOpen, WrittenInOrder, FlushIsLast, WholeIsComplete, spoolVars

-----------------------------------------------------------------------------
(* Both together *)

\* Every step is one of the trace's or one of the capture's.
LEMMA Invariance == Spec => [](TraceInv /\ OrderInv /\ SpoolInv)
<1>1. Init => TraceInv /\ OrderInv /\ SpoolInv
  BY TraceStarts, OrderStarts, SpoolStarts DEF Init
<1>2. TraceInv /\ OrderInv /\ SpoolInv /\ [Next]_vars => (TraceInv /\ OrderInv /\ SpoolInv)'
  <2> SUFFICES ASSUME TraceInv, OrderInv, SpoolInv, [Next]_vars
               PROVE  TraceInv' /\ OrderInv' /\ SpoolInv'
    OBVIOUS
  <2>1. CASE RecordStream
    BY <2>1, RecordKeeps, RecordKeepsOrder, SpoolAside, StreamEntryAssumption DEF RecordStream
  <2>2. ASSUME NEW e \in Entries, Record(e) \/ CountDropped(e), UNCHANGED spoolVars
        PROVE  TraceInv' /\ OrderInv' /\ SpoolInv'
    BY <2>2, RecordKeeps, RecordKeepsOrder, CountDroppedKeeps, CountDroppedKeepsOrder, SpoolAside
  <2>3. CASE StopRecording /\ UNCHANGED spoolVars
    <3>1. TraceInv'
      BY <2>3, DropsUntouched DEF StopRecording, TraceInv, TraceTypeOK, QueuedWereTaken, DroppedEntries
    <3>2. OrderInv'
      BY <2>3, OrderAside DEF StopRecording
    <3> QED
      BY <2>3, <3>1, <3>2, SpoolAside
  <2>4. CASE ThreadStep /\ UNCHANGED spoolVars
    BY <2>4, ThreadKeeps, ThreadKeepsOrder, SpoolAside
  <2>5. CASE SpoolNext /\ UNCHANGED traceVars
    <3>1. TraceInv' /\ OrderInv'
      BY <2>5, TraceAside, OrderAside DEF traceVars
    <3>2. SpoolInv'
      BY <2>5, EventKeeps, WriterKeeps, TaskKeeps DEF SpoolNext
    <3> QED
      BY <3>1, <3>2
  <2>6. CASE UNCHANGED vars
    BY <2>6, TraceAside, OrderAside, SpoolAside DEF vars, traceVars
  <2> QED
    BY <2>1, <2>2, <2>3, <2>4, <2>5, <2>6 DEF Next
<1> QED
  BY <1>1, <1>2, PTL DEF Spec

\* Every variable of the writer's and of the spool's keeps its type, both queues
\* stay within their capacity (TraceWriterOptions, SpoolWriterOptions).
THEOREM TypesHold == Spec => []TypeOK
<1>1. TraceInv /\ SpoolInv => TypeOK
  BY DEF TraceInv, SpoolInv, TypeOK
<1> QED
  BY <1>1, Invariance, PTL

\* Entries the queue did not take are counted once each, however the requests that
\* count them interleave with the thread that reports them and with the pauses in
\* which it closes the file (flush_trace_overflow_summary); of the others none is
\* repeated or reordered on its way into the file, and none is lost but those that
\* find no file to open (run_trace_writer).
THEOREM TracesAreExact == Spec => []TraceIsExact
<1>1. TraceInv /\ OrderInv => TraceIsExact
  BY DEF TraceInv, OrderInv, TraceIsExact
<1> QED
  BY <1>1, Invariance, PTL

\* A payload that gives a stream as a whole has every event of it unless the last
\* flush was cut, a truncated one lacks some, and what is captured has no gap
\* (EventSpoolSink, EventSpoolArtifact::replay).
THEOREM CapturesAreFaithful == Spec => []CaptureIsFaithful
<1>1. SpoolInv => CaptureIsFaithful
  BY PrefixFollows
<1> QED
  BY <1>1, Invariance, PTL
=============================================================================
