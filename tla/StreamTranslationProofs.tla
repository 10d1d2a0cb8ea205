----------------------- MODULE StreamTranslationProofs -----------------------
(***************************************************************************)
(* A translated stream ends once, and the content blocks of an Anthropic   *)
(* client's are paired, proved for streams of every length with any number *)
(* of calls.                                                               *)
(***************************************************************************)
EXTENDS StreamTranslation, FiniteSetTheorems, WellFoundedInduction, TLAPS

-----------------------------------------------------------------------------
(* Folds *)

\* Induction on the natural numbers, for the members of a set.
LEMMA AllNumbers ==
    ASSUME NEW S, 0 \in S, \A n \in Nat : n \in S => n + 1 \in S
    PROVE  \A n \in Nat : n \in S
<1> DEFINE Missing == {n \in Nat : n \notin S}
<1>1. SUFFICES ASSUME Missing # {} PROVE FALSE
  OBVIOUS
<1>2. PICK m \in Missing : \A k \in Missing : ~ (<<k, m>> \in OpToRel(<, Nat))
  BY <1>1, WFMin, NatLessThanWellFounded, Zenon
<1>3. m \in Nat /\ m # 0 /\ m \notin S
  OBVIOUS
<1>4. m - 1 \in Nat /\ <<m - 1, m>> \in OpToRel(<, Nat)
  BY <1>3 DEF OpToRel
<1>5. m - 1 \in S
  BY <1>2, <1>4
<1>6. m = (m - 1) + 1
  BY <1>3
<1> QED
  BY <1>3, <1>4, <1>5, <1>6

\* A response's output and what it has at the next index.
ItemsTo(output, items, index) == output \o SetToSeq({e \in items : e.index = index})

\* The steps that are folded over a list or over the keys of a map, by name.
Step(how, t, x) ==
    CASE how[1] = "chunk" -> ToClient(t, x)
      [] how[1] = "tool delta" -> ToolDelta(t, x)
      [] how[1] = "tool block" -> Send(t, BlockStop(t.toolBlocks[x]))
      [] how[1] = "tool call" -> ToolCall(t, x)
      [] how[1] = "flush" -> FlushCall(t, x, TRUE)
      [] how[1] = "call done" ->
            (LET call == t.toolCalls[x]
             IN IF ~ call.added \/ call.done THEN t
                ELSE Send([t EXCEPT !.toolCalls[x].done = TRUE],
                          ItemDone(call.block, CallItem(call, how[2]))))
      [] how[1] = "tool use" -> FinalizeToolUse(t, x)
      [] how[1] = "item" -> ItemsTo(t, how[2], x)
      [] how[1] = "custom call" ->
            (LET known == {i \in DOMAIN t.state.toolCalls : t.state.toolCalls[i].id = x.id}
             IN IF x.kind # "custom" \/ known = {} THEN t
                ELSE FinalizeCustom(t, CHOOSE i \in known : TRUE, x.args))

\* What MapThenFoldSet computes: the greatest key's step is the last.
Iterates(iter, how, s, keys, at) ==
    iter = [S \in SUBSET keys |->
                IF S = {} THEN s ELSE Step(how, iter[S \ {Max(S)}], at[Max(S)])]

\* The greatest of some numbers.
LEMMA Greatest ==
    ASSUME NEW n \in Nat, NEW S \in SUBSET (0..n)
    PROVE  /\ n \in S => Max(S) = n
           /\ S # {} => Max(S) \in S /\ \A i \in S : i <= Max(S)
<1>1. \A i \in S : i \in Nat /\ i <= n
  OBVIOUS
<1>2. ASSUME S # {} PROVE \E m \in S : \A i \in S : m >= i
  <2> DEFINE C == {d \in Nat : n - d \in S}
  <2>1. C # {} /\ C \subseteq Nat
    <3>1. PICK i \in S : TRUE
      BY <1>2
    <3>2. n - i \in Nat /\ n - (n - i) = i
      OBVIOUS
    <3> QED
      BY <3>1, <3>2
  <2>2. PICK d \in C : \A k \in C : ~ (<<k, d>> \in OpToRel(<, Nat))
    <3> HIDE DEF C
    <3> QED
      BY <2>1, WFMin, NatLessThanWellFounded, Zenon
  <2>3. ASSUME NEW i \in S PROVE n - d >= i
    <3>1. n - i \in C /\ d \in Nat
      OBVIOUS
    <3>2. ~ (n - i < d)
      BY <2>2, <3>1 DEF OpToRel
    <3> QED
      BY <3>1, <3>2
  <2> QED
    BY <2>3
<1>3. S # {} => Max(S) \in S /\ \A i \in S : Max(S) >= i
  BY <1>2 DEF Max
<1>4. ASSUME n \in S PROVE Max(S) = n
  <2>1. S # {}
    BY <1>4
  <2>2. Max(S) \in S /\ Max(S) >= n
    BY <1>3, <1>4, <2>1
  <2>3. Max(S) \in Nat /\ Max(S) <= n
    BY <1>1, <2>2
  <2> QED
    BY <2>2, <2>3
<1> QED
  BY <1>1, <1>3, <1>4

\* The function that a fold chooses exists.
LEMMA IteratesExist ==
    ASSUME NEW how, NEW s, NEW at, NEW n \in Nat, NEW keys \in SUBSET (0..n)
    PROVE  \E iter : Iterates(iter, how, s, keys, at)
<1> DEFINE Below(m) == {i \in keys : i < m}
           Fine == {m \in Nat : \E iter : Iterates(iter, how, s, Below(m), at)}
<1>0. \A i \in keys : i \in Nat /\ 0 <= i /\ i < n + 1
  OBVIOUS
<1>1. 0 \in Fine
  <2>1. \A i \in keys : ~ (i < 0)
    BY <1>0
  <2>0. Below(0) = {}
    BY <2>1
  <2>2. Iterates([S \in SUBSET {} |-> s], how, s, {}, at)
    BY DEF Iterates
  <2> QED
    BY <2>0, <2>2
<1>2. ASSUME NEW m \in Nat, m \in Fine PROVE m + 1 \in Fine
  <2>1. PICK g : Iterates(g, how, s, Below(m), at)
    BY <1>2
  <2> DEFINE h == [S \in SUBSET Below(m + 1) |-> IF m \in S THEN Step(how, g[S \ {m}], at[m]) ELSE g[S]]
  <2>2. ASSUME NEW S \in SUBSET Below(m + 1)
        PROVE  h[S] = IF S = {} THEN s ELSE Step(how, h[S \ {Max(S)}], at[Max(S)])
    <3>1. S \in SUBSET (0..m) /\ S \ {m} \in SUBSET Below(m) /\ m \notin S \ {m}
      BY <1>0
    <3>2. CASE m \in S
      <4>1. Max(S) = m
        BY <3>1, <3>2, Greatest
      <4>2. h[S \ {m}] = g[S \ {m}]
        BY <3>1
      <4>3. S # {} /\ h[S] = Step(how, g[S \ {m}], at[m])
        BY <3>2
      <4> QED
        BY <4>1, <4>2, <4>3
    <3>3. CASE m \notin S
      <4>1. S \in SUBSET Below(m) /\ h[S] = g[S]
        BY <1>0, <3>3
      <4>2. g[S] = IF S = {} THEN s ELSE Step(how, g[S \ {Max(S)}], at[Max(S)])
        BY <2>1, <4>1 DEF Iterates
      <4>3. S # {} => h[S \ {Max(S)}] = g[S \ {Max(S)}]
        BY <3>3
      <4> QED
        BY <4>1, <4>2, <4>3
    <3> QED
      BY <3>2, <3>3
  <2>3. h = [S \in SUBSET Below(m + 1) |-> IF S = {} THEN s ELSE Step(how, h[S \ {Max(S)}], at[Max(S)])]
    <3> HIDE DEF Below
    <3> QED
      BY <2>2
  <2>4. Iterates(h, how, s, Below(m + 1), at)
    BY <2>3 DEF Iterates
  <2> HIDE DEF h
  <2> QED
    BY <2>4
<1>3. n + 1 \in Fine
  <2> HIDE DEF Fine
  <2> QED
    BY <1>1, <1>2, AllNumbers
<1>4. Below(n + 1) = keys
  BY <1>0
<1> QED
  BY <1>3, <1>4

-----------------------------------------------------------------------------
(* What the translation keeps *)

IsList(l) == Len(l) \in Nat /\ l = [i \in 1..Len(l) |-> l[i]]

\* The keys of a map are numbers, and there is a greatest.
Bounded(keys) == \E n \in Nat : keys \in SUBSET (0..n)

IsEnd(event) ==
    \/ event.type \in Terminals \cup {"message_stop", "error"}
    \/ event.type = "chunk" /\ event.chunk.finish # None

\* No end, and no usage, was told yet.
Plain(events) ==
    \A i \in 1..Len(events) : ~ IsEnd(events[i]) /\ events[i].type # "message_delta"

\* There is an end, nothing but a "done" follows it, and the usage was told as u.
Over(events, u) ==
    /\ \E i \in 1..Len(events) : IsEnd(events[i])
    /\ \A i, j \in 1..Len(events) : i < j /\ IsEnd(events[i]) => events[j].type = "done"
    /\ \A i \in 1..Len(events) : events[i].type = "message_delta" => events[i].usage = u

Tracked == {"out", "fatal", "terminalSent", "finish", "finishSent", "usage", "toolBlocks", "toolCalls",
            "toolCallIndex", "claudeToolUses", "claudeToolUseIndex", "message"}

IsState(s) ==
    /\ Tracked \subseteq DOMAIN s
    /\ IsList(s.out)
    /\ Bounded(DOMAIN s.toolBlocks) /\ Bounded(DOMAIN s.toolCalls) /\ Bounded(DOMAIN s.claudeToolUses)
    /\ \A i \in DOMAIN s.claudeToolUses : s.claudeToolUses[i].index \in Nat
    /\ s.toolCallIndex \in Nat /\ s.claudeToolUseIndex \in Nat
    /\ "parts" \in DOMAIN s.message /\ IsList(s.message.parts)

Same(s, t) ==
    /\ t.fatal = s.fatal /\ t.terminalSent = s.terminalSent
    /\ t.finish = s.finish /\ t.finishSent = s.finishSent /\ t.usage = s.usage

\* A step of a sink that does not end the stream.
GoesOn(s, t) == IsState(t) /\ Same(s, t) /\ Plain(t.out)

LEMMA SequencesAreLists ==
    ASSUME NEW T, NEW l \in Seq(T)
    PROVE  IsList(l)
<1>1. Len(l) \in Nat /\ l \in [1..Len(l) -> T]
  OBVIOUS
<1> QED
  BY <1>1 DEF IsList

\* A list with one more element.
LEMMA Appending ==
    ASSUME NEW l, IsList(l), NEW e
    PROVE  /\ IsList(Append(l, e)) /\ Len(Append(l, e)) = Len(l) + 1
           /\ \A i \in 1..Len(l) : Append(l, e)[i] = l[i]
           /\ Append(l, e)[Len(l) + 1] = e
<1> DEFINE T == {l[i] : i \in 1..Len(l)} \cup {e}
<1>1. l \in [1..Len(l) -> T] /\ Len(l) \in Nat
  BY DEF IsList
<1>2. l \in Seq(T) /\ e \in T
  BY <1>1
<1> HIDE DEF T
<1>3. Append(l, e) \in Seq(T) /\ Len(Append(l, e)) = Len(l) + 1
  BY <1>2
<1>4. IsList(Append(l, e))
  BY <1>3, SequencesAreLists
<1>5. ASSUME NEW i \in 1..Len(l) PROVE Append(l, e)[i] = l[i]
  BY <1>1, <1>2
<1>6. Append(l, e)[Len(l) + 1] = e
  BY <1>1, <1>2
<1> QED
  BY <1>3, <1>4, <1>5, <1>6

\* An event that is no end and tells no usage.
IsPlain(e) == ~ IsEnd(e) /\ e.type # "message_delta"

LEMMA PlainGrows ==
    ASSUME NEW l, IsList(l), Plain(l), NEW e, IsPlain(e)
    PROVE  Plain(Append(l, e))
<1>1. ASSUME NEW i \in 1..Len(Append(l, e)) PROVE IsPlain(Append(l, e)[i])
  <2>1. i \in 1..Len(l) \/ i = Len(l) + 1
    BY Appending DEF IsList
  <2> QED
    BY <2>1, Appending DEF Plain, IsPlain
<1> QED
  BY <1>1 DEF Plain, IsPlain

LEMMA EndsGrow ==
    ASSUME NEW l, IsList(l), Plain(l), NEW e, IsEnd(e), e.type # "message_delta", NEW u
    PROVE  Over(Append(l, e), u)
<1>1. Len(l) \in Nat /\ IsEnd(Append(l, e)[Len(l) + 1])
  BY Appending DEF IsList
<1>2. ASSUME NEW i \in 1..Len(l) + 1, i # Len(l) + 1
      PROVE  ~ IsEnd(Append(l, e)[i]) /\ Append(l, e)[i].type # "message_delta"
  BY <1>1, <1>2, Appending DEF Plain
<1>3. Append(l, e)[Len(l) + 1].type # "message_delta"
  BY Appending
<1> QED
  BY <1>1, <1>2, <1>3, Appending DEF Over

-----------------------------------------------------------------------------
(* What each fold keeps *)

\* A chunk whose calls have indices, and one that is no end.
IsChunk(c) == IsList(c.calls) /\ \A i \in 1..Len(c.calls) : c.calls[i].index \in Nat
Quiet(c) == IsChunk(c) /\ c.finish = None /\ c.error = FALSE /\ c.usage = FALSE

\* What is left alone while a stream goes on.
Like(s, t) ==
    /\ t.fatal = s.fatal /\ t.terminalSent = s.terminalSent
    /\ t.finish = s.finish /\ t.finishSent = s.finishSent

\* A step of a source: what it adds are quiet chunks.
Quietly(s, t) == IsState(t) /\ Like(s, t) /\ t.out = s.out

Reads(r, q) ==
    /\ {"state", "chunks"} \subseteq DOMAIN q
    /\ Quietly(r.state, q.state)
    /\ IsList(q.chunks) /\ \A i \in 1..Len(q.chunks) : Quiet(q.chunks[i])

\* A client was given quiet chunks. It may have been given an end already: of a call it cannot
\* be told, or because the finish was known before.
Sinks(s, u, t) ==
    \/ IsState(t) /\ Plain(t.out) /\ Like(s, t)
    \/ /\ IsState(t) /\ Over(t.out, u)
       /\ \/ pair[2] = "anthropic" /\ t.fatal
          \/ pair[2] = "responses" /\ s.finish # None /\ t.terminalSent

\* What holds of the states s and t before and after the steps of a fold for some keys; the
\* chunk at how[3], if any, is the one that ends the stream.
Keeps(how, s, keys, t) ==
    CASE how[1] \in {"tool use", "custom call"} -> Reads(s, t)
      [] how[1] = "chunk" ->
            IF how[3] \in keys THEN IsState(t) /\ Over(t.out, how[2]) ELSE Sinks(s, how[2], t)
      [] OTHER -> GoesOn(s, t)

\* What the first step finds and every step keeps holds after the last.
LEMMA IterationKeeps ==
    ASSUME NEW how, NEW s, NEW at, NEW n \in Nat, NEW keys \in SUBSET (0..n),
           NEW iter, Iterates(iter, how, s, keys, at),
           Keeps(how, s, {}, s),
           \A S \in SUBSET keys : \A x \in keys : \A t :
                (\A i \in S : i < x) /\ Keeps(how, s, S, t) => Keeps(how, s, S \cup {x}, Step(how, t, at[x]))
    PROVE  Keeps(how, s, keys, iter[keys])
<1> DEFINE Fine == {m \in Nat : \A S \in SUBSET keys : (\A i \in S : i < m) => Keeps(how, s, S, iter[S])}
<1>0. \A i \in keys : i \in Nat /\ 0 <= i /\ i < n + 1
  OBVIOUS
<1>1. 0 \in Fine
  <2>1. ASSUME NEW S \in SUBSET keys, \A i \in S : i < 0 PROVE Keeps(how, s, S, iter[S])
    <3>1. S = {}
      BY <1>0, <2>1
    <3>2. iter[S] = s
      BY <3>1 DEF Iterates
    <3> QED
      BY <3>1, <3>2
  <2> QED
    BY <2>1
<1>2. ASSUME NEW m \in Nat, m \in Fine PROVE m + 1 \in Fine
  <2>1. ASSUME NEW S \in SUBSET keys, \A i \in S : i < m + 1 PROVE Keeps(how, s, S, iter[S])
    <3>1. CASE m \notin S
      <4>1. \A i \in S : i < m
        BY <1>0, <2>1, <3>1
      <4> QED
        BY <1>2, <4>1
    <3>2. CASE m \in S
      <4>1. S \in SUBSET (0..m)
        BY <1>0, <2>1
      <4>2. Max(S) = m
        BY <3>2, <4>1, Greatest
      <4>3. iter[S] = Step(how, iter[S \ {m}], at[m])
        BY <3>2, <4>2 DEF Iterates
      <4>4. \A i \in S \ {m} : i < m
        BY <1>0, <2>1
      <4>5. Keeps(how, s, S \ {m}, iter[S \ {m}])
        BY <1>2, <4>4
      <4>6. (S \ {m}) \cup {m} = S /\ m \in keys
        BY <3>2
      <4>7. Keeps(how, s, (S \ {m}) \cup {m}, Step(how, iter[S \ {m}], at[m]))
        BY <4>4, <4>5, <4>6
      <4> QED
        BY <4>3, <4>6, <4>7
    <3> QED
      BY <3>1, <3>2
  <2>2. m + 1 \in Nat
    OBVIOUS
  <2> QED
    BY <2>1, <2>2, Zenon
<1>3. n + 1 \in Fine
  <2> HIDE DEF Fine
  <2> QED
    BY <1>1, <1>2, AllNumbers
<1> QED
  BY <1>0, <1>3

-----------------------------------------------------------------------------
(* The sink of an Anthropic client *)

LEMMA Sending ==
    ASSUME NEW s, IsState(s), NEW e
    PROVE  /\ IsState(Send(s, e)) /\ Same(s, Send(s, e))
           /\ DOMAIN Send(s, e) = DOMAIN s
           /\ \A f \in DOMAIN s \ {"out"} : Send(s, e)[f] = s[f]
           /\ Send(s, e).out = Append(s.out, e)
<1>1. /\ DOMAIN Send(s, e) = DOMAIN s /\ Send(s, e).out = Append(s.out, e)
      /\ \A f \in DOMAIN s \ {"out"} : Send(s, e)[f] = s[f]
  BY DEF Send, IsState, Tracked
<1>2. IsList(Send(s, e).out)
  BY <1>1, Appending DEF IsState
<1>3. \A f \in Tracked \ {"out"} : Send(s, e)[f] = s[f]
  BY <1>1 DEF IsState
<1>4. Same(s, Send(s, e))
  BY <1>3 DEF Same, Tracked
<1>5. IsState(Send(s, e))
  BY <1>1, <1>2, <1>3 DEF IsState, Tracked
<1> QED
  BY <1>1, <1>4, <1>5

LEMMA SendingPlain ==
    ASSUME NEW s, IsState(s), Plain(s.out), NEW e, IsPlain(e)
    PROVE  GoesOn(s, Send(s, e))
<1>1. IsState(Send(s, e)) /\ Same(s, Send(s, e)) /\ Send(s, e).out = Append(s.out, e)
  BY Sending
<1>2. IsList(s.out)
  BY DEF IsState
<1>3. Plain(Append(s.out, e))
  BY <1>2, PlainGrows
<1> QED
  BY <1>1, <1>3 DEF GoesOn

\* The fields of a state that a sink may change as it likes.
LEMMA Setting ==
    ASSUME NEW s, IsState(s), NEW f, f \notin Tracked, NEW v
    PROVE  /\ IsState([s EXCEPT ![f] = v]) /\ Same(s, [s EXCEPT ![f] = v])
           /\ [s EXCEPT ![f] = v].out = s.out
           /\ DOMAIN [s EXCEPT ![f] = v] = DOMAIN s
           /\ \A g \in DOMAIN s \ {f} : [s EXCEPT ![f] = v][g] = s[g]
<1> DEFINE t == [s EXCEPT ![f] = v]
<1>1. /\ DOMAIN t = DOMAIN s
      /\ \A g \in DOMAIN s \ {f} : t[g] = s[g]
  OBVIOUS
<1>2. \A g \in Tracked : g \in DOMAIN s /\ t[g] = s[g]
  BY <1>1 DEF IsState
<1> HIDE DEF t
<1>3. IsState(t) /\ Same(s, t) /\ t.out = s.out
  BY <1>1, <1>2 DEF IsState, Same, Tracked
<1> QED
  BY <1>1, <1>3 DEF t

LEMMA StoppingBlocks ==
    ASSUME NEW s, IsState(s), Plain(s.out), NEW kind
    PROVE  GoesOn(s, StopBlock(s, kind))
<1> DEFINE sent == Send(s, BlockStop(s.open[kind]))
           t == [sent EXCEPT !["open"] = [@ EXCEPT ![kind] = None]]
<1>1. StopBlock(s, kind) = IF s.open[kind] = None THEN s ELSE t
  BY DEF StopBlock
<1>2. IsPlain(BlockStop(s.open[kind]))
  BY DEF IsPlain, IsEnd, BlockStop, Terminals
<1>3. GoesOn(s, sent)
  BY <1>2, SendingPlain
<1>4. "open" \notin Tracked
  BY DEF Tracked
<1> HIDE DEF sent
<1>5. GoesOn(s, t)
  BY <1>3, <1>4, Setting DEF GoesOn, Same
<1>6. GoesOn(s, s)
  BY DEF GoesOn, Same
<1> QED
  BY <1>1, <1>5, <1>6

LEMMA StartingBlocks ==
    ASSUME NEW s, IsState(s), Plain(s.out), NEW kind
    PROVE  GoesOn(s, EnsureBlock(s, kind))
<1> DEFINE sent == Send(s, BlockStart(s.nextBlock, kind, None))
           opened == [sent EXCEPT !["open"] = [@ EXCEPT ![kind] = s.nextBlock]]
           t == [opened EXCEPT !["nextBlock"] = @ + 1]
<1>1. EnsureBlock(s, kind) = IF s.open[kind] # None THEN s ELSE t
  BY DEF EnsureBlock
<1>2. IsPlain(BlockStart(s.nextBlock, kind, None))
  BY DEF IsPlain, IsEnd, BlockStart, Terminals
<1>3. GoesOn(s, sent)
  BY <1>2, SendingPlain
<1>4. "open" \notin Tracked /\ "nextBlock" \notin Tracked
  BY DEF Tracked
<1> HIDE DEF sent
<1>5. GoesOn(s, opened)
  BY <1>3, <1>4, Setting DEF GoesOn, Same
<1> HIDE DEF opened
<1>6. GoesOn(s, t)
  BY <1>4, <1>5, Setting DEF GoesOn, Same
<1>7. GoesOn(s, s)
  BY DEF GoesOn, Same
<1> QED
  BY <1>1, <1>6, <1>7

\* One step after another.
LEMMA GoingOn ==
    ASSUME NEW s, NEW t, NEW r, GoesOn(s, t), GoesOn(t, r)
    PROVE  GoesOn(s, r)
BY DEF GoesOn, Same

LEMMA TextDeltas ==
    ASSUME NEW s, IsState(s), Plain(s.out), NEW kind, NEW other, NEW text
    PROVE  GoesOn(s, TextDelta(s, kind, other, text))
<1> DEFINE stopped == StopBlock(s, other)
           opened == EnsureBlock(stopped, kind)
           delta == BlockDelta(opened.open[kind], kind, text)
<1>1. TextDelta(s, kind, other, text) = IF text = <<>> THEN s ELSE Send(opened, delta)
  BY DEF TextDelta
<1>2. GoesOn(s, stopped)
  BY StoppingBlocks
<1> HIDE DEF stopped
<1>3. GoesOn(s, opened)
  BY <1>2, StartingBlocks, GoingOn DEF GoesOn
<1>4. IsPlain(delta)
  BY DEF IsPlain, IsEnd, BlockDelta, Terminals
<1> HIDE DEF opened, delta
<1>5. GoesOn(s, Send(opened, delta))
  BY <1>3, <1>4, SendingPlain, GoingOn DEF GoesOn
<1>6. GoesOn(s, s)
  BY DEF GoesOn, Same
<1> QED
  BY <1>1, <1>5, <1>6

\* A map with one more key.
LEMMA BoundedGrows ==
    ASSUME NEW f, Bounded(DOMAIN f), NEW x \in Nat, NEW v
    PROVE  Bounded(DOMAIN With(f, x, v))
<1>1. PICK n \in Nat : DOMAIN f \in SUBSET (0..n)
  BY DEF Bounded
<1>2. DOMAIN With(f, x, v) = DOMAIN f \cup {x}
  BY DEF With
<1>3. n + x \in Nat /\ DOMAIN f \cup {x} \in SUBSET (0..(n + x))
  BY <1>1
<1> QED
  BY <1>2, <1>3 DEF Bounded

LEMMA ToolDeltas ==
    ASSUME NEW s, IsState(s), Plain(s.out), NEW call, call.index \in Nat
    PROVE  GoesOn(s, ToolDelta(s, call))
<1> DEFINE thought == StopBlock(s, "thinking")
           closed == StopBlock(thought, "text")
           sent == Send(closed, BlockStart(closed.nextBlock, "tool_use", call.id))
           known == [sent EXCEPT !["toolBlocks"] = With(@, call.index, closed.nextBlock)]
           opened == [known EXCEPT !["nextBlock"] = @ + 1]
           started == IF call.id = None THEN s ELSE opened
           delta == BlockDelta(started.toolBlocks[call.index], "tool_use", call.args)
<1>1. ToolDelta(s, call) = IF call.args = <<>> \/ call.index \notin DOMAIN started.toolBlocks THEN started
                           ELSE Send(started, delta)
  <2> DEFINE both == [sent EXCEPT !.toolBlocks = With(@, call.index, closed.nextBlock), !.nextBlock = @ + 1]
             chosen == IF call.id = None THEN s ELSE both
  <2>1. ToolDelta(s, call) =
            IF call.args = <<>> \/ call.index \notin DOMAIN chosen.toolBlocks THEN chosen
            ELSE Send(chosen, BlockDelta(chosen.toolBlocks[call.index], "tool_use", call.args))
    BY DEF ToolDelta
  <2>2. both = opened
    <3> HIDE DEF sent, closed
    <3> QED
      OBVIOUS
  <2>3. chosen = started
    <3> HIDE DEF both, opened
    <3> QED
      BY <2>2
  <2> HIDE DEF chosen, started
  <2> QED
    BY <2>1, <2>3
<1>2. GoesOn(s, closed)
  <2>1. GoesOn(s, thought)
    BY StoppingBlocks
  <2> HIDE DEF thought
  <2> QED
    BY <2>1, StoppingBlocks, GoingOn DEF GoesOn
<1>3. GoesOn(s, sent)
  <2>1. IsPlain(BlockStart(closed.nextBlock, "tool_use", call.id))
    BY DEF IsPlain, IsEnd, BlockStart, Terminals
  <2> HIDE DEF closed
  <2> QED
    BY <1>2, <2>1, SendingPlain, GoingOn DEF GoesOn
<1>4. GoesOn(s, known)
  <2> HIDE DEF sent, closed
  <2>1. Tracked \subseteq DOMAIN sent /\ "toolBlocks" \in DOMAIN sent
    BY <1>3 DEF GoesOn, IsState, Tracked
  <2>2. /\ DOMAIN known = DOMAIN sent /\ known.toolBlocks = With(sent.toolBlocks, call.index, closed.nextBlock)
        /\ \A f \in Tracked \ {"toolBlocks"} : known[f] = sent[f]
    BY <2>1
  <2>3. Bounded(DOMAIN known.toolBlocks)
    BY <1>3, <2>2, BoundedGrows DEF GoesOn, IsState
  <2> HIDE DEF known
  <2> QED
    BY <1>3, <2>1, <2>2, <2>3 DEF GoesOn, IsState, Same, Tracked
<1>5. GoesOn(s, opened)
  <2>1. "nextBlock" \notin Tracked
    BY DEF Tracked
  <2> HIDE DEF known
  <2> QED
    BY <1>4, <2>1, Setting DEF GoesOn, Same
<1>6. GoesOn(s, started)
  <2>1. GoesOn(s, s)
    BY DEF GoesOn, Same
  <2> HIDE DEF opened
  <2> QED
    BY <1>5, <2>1
<1>7. GoesOn(s, Send(started, delta))
  <2>1. IsPlain(delta)
    BY DEF IsPlain, IsEnd, BlockDelta, Terminals
  <2> HIDE DEF started, delta
  <2> QED
    BY <1>6, <2>1, SendingPlain, GoingOn DEF GoesOn
<1> HIDE DEF started, delta
<1> QED
  BY <1>1, <1>6, <1>7

LEMMA ToolDeltasFold ==
    ASSUME NEW s, IsState(s), Plain(s.out), NEW calls, IsList(calls),
           \A i \in 1..Len(calls) : calls[i].index \in Nat
    PROVE  GoesOn(s, FoldLeft(ToolDelta, s, calls))
<1> DEFINE how == <<"tool delta">>
           E(iter) == iter = [S \in SUBSET DOMAIN calls |->
                                IF S = {} THEN s ELSE ToolDelta(iter[S \ {Max(S)}], calls[Max(S)])]
<1>0. Len(calls) \in Nat /\ DOMAIN calls = 1..Len(calls) /\ DOMAIN calls \in SUBSET (0..Len(calls))
  BY DEF IsList
<1>1. \A iter : E(iter) <=> Iterates(iter, how, s, DOMAIN calls, calls)
  BY DEF Iterates, Step
<1>2. \E iter : E(iter)
  BY <1>0, <1>1, IteratesExist
<1>3. E(CHOOSE iter : E(iter))
  BY <1>2, Zenon
<1>4. \A S, t : Keeps(how, s, S, t) <=> GoesOn(s, t)
  BY DEF Keeps
<1>5. Keeps(how, s, {}, s)
  BY <1>4 DEF GoesOn, Same
<1>6. ASSUME NEW S \in SUBSET DOMAIN calls, NEW x \in DOMAIN calls, NEW t, Keeps(how, s, S, t)
      PROVE  Keeps(how, s, S \cup {x}, Step(how, t, calls[x]))
  <2>1. Step(how, t, calls[x]) = ToolDelta(t, calls[x])
    BY DEF Step
  <2>2. GoesOn(s, t) /\ calls[x].index \in Nat
    BY <1>0, <1>4, <1>6
  <2>3. GoesOn(t, ToolDelta(t, calls[x]))
    BY <2>2, ToolDeltas DEF GoesOn
  <2> HIDE DEF how
  <2> QED
    BY <1>4, <2>1, <2>2, <2>3, GoingOn
<1>7. Keeps(how, s, DOMAIN calls, (CHOOSE iter : E(iter))[DOMAIN calls])
  <2> HIDE DEF how, E
  <2> QED
    BY <1>0, <1>1, <1>3, <1>5, <1>6, IterationKeeps
<1>8. FoldLeft(ToolDelta, s, calls) = (CHOOSE iter : E(iter))[DOMAIN calls]
  BY DEF FoldLeft, MapThenFoldSet
<1> HIDE DEF E, how
<1> QED
  BY <1>4, <1>7, <1>8

LEMMA StoppingTools ==
    ASSUME NEW s, IsState(s), Plain(s.out)
    PROVE  GoesOn(s, OverKeys(LAMBDA t, i : Send(t, BlockStop(t.toolBlocks[i])), s, s.toolBlocks))
<1> DEFINE how == <<"tool block">>
           keys == DOMAIN s.toolBlocks
           at == [i \in keys |-> i]
           E(iter) == iter = [S \in SUBSET keys |->
                                IF S = {} THEN s
                                ELSE Send(iter[S \ {Max(S)}], BlockStop(iter[S \ {Max(S)}].toolBlocks[Max(S)]))]
<1>0. PICK n \in Nat : keys \in SUBSET (0..n)
  BY DEF IsState, Bounded
<1>1. \A iter : E(iter) <=> Iterates(iter, how, s, keys, at)
  <2>1. ASSUME NEW S \in SUBSET keys, S # {} PROVE at[Max(S)] = Max(S)
    BY <1>0, <2>1, Greatest
  <2> HIDE DEF keys, at
  <2> QED
    BY <2>1 DEF Iterates, Step
<1>2. \E iter : E(iter)
  BY <1>0, <1>1, IteratesExist
<1>3. E(CHOOSE iter : E(iter))
  BY <1>2, Zenon
<1>4. \A S, t : Keeps(how, s, S, t) <=> GoesOn(s, t)
  BY DEF Keeps
<1>5. Keeps(how, s, {}, s)
  BY <1>4 DEF GoesOn, Same
<1>6. ASSUME NEW S \in SUBSET keys, NEW x \in keys, NEW t, Keeps(how, s, S, t)
      PROVE  Keeps(how, s, S \cup {x}, Step(how, t, at[x]))
  <2>1. Step(how, t, at[x]) = Send(t, BlockStop(t.toolBlocks[x]))
    BY DEF Step
  <2>2. IsPlain(BlockStop(t.toolBlocks[x]))
    BY DEF IsPlain, IsEnd, BlockStop, Terminals
  <2>3. GoesOn(s, t)
    BY <1>4, <1>6
  <2>4. GoesOn(t, Send(t, BlockStop(t.toolBlocks[x])))
    BY <2>2, <2>3, SendingPlain DEF GoesOn
  <2> HIDE DEF how, at
  <2> QED
    BY <1>4, <2>1, <2>3, <2>4, GoingOn
<1>7. Keeps(how, s, keys, (CHOOSE iter : E(iter))[keys])
  <2> HIDE DEF how, E, keys, at
  <2> QED
    BY <1>0, <1>1, <1>3, <1>5, <1>6, IterationKeeps
<1>8. OverKeys(LAMBDA t, i : Send(t, BlockStop(t.toolBlocks[i])), s, s.toolBlocks) = (CHOOSE iter : E(iter))[keys]
  BY DEF OverKeys, MapThenFoldSet
<1>9. GoesOn(s, (CHOOSE iter : E(iter))[keys])
  <2> HIDE DEF E, how, keys
  <2> QED
    BY <1>4, <1>7
<1> QED
  BY <1>8, <1>9

\* The usage is told right before the end.
LEMMA EndsWithUsage ==
    ASSUME NEW l, IsList(l), Plain(l), NEW d, ~ IsEnd(d), NEW e, IsEnd(e), e.type # "message_delta"
    PROVE  Over(Append(Append(l, d), e), d.usage)
<1> DEFINE m == Append(l, d)
           k == Append(m, e)
<1>1. IsList(m) /\ Len(m) = Len(l) + 1 /\ m[Len(l) + 1] = d /\ (\A i \in 1..Len(l) : m[i] = l[i])
  BY Appending
<1> HIDE DEF m
<1>2. IsList(k) /\ Len(k) = Len(m) + 1 /\ k[Len(m) + 1] = e /\ (\A i \in 1..Len(m) : k[i] = m[i])
  BY <1>1, Appending
<1> HIDE DEF k
<1>3. Len(l) \in Nat /\ Len(k) = Len(l) + 2
  BY <1>1, <1>2 DEF IsList
<1>4. \A i \in 1..Len(l) : ~ IsEnd(k[i]) /\ k[i].type # "message_delta"
  BY <1>1, <1>2, <1>3 DEF Plain
<1>5. k[Len(l) + 1] = d /\ k[Len(l) + 2] = e
  BY <1>1, <1>2, <1>3
<1>6. \A i \in 1..Len(k) : i \in 1..Len(l) \/ i = Len(l) + 1 \/ i = Len(l) + 2
  BY <1>3
<1>7. \A i \in 1..Len(k) : IsEnd(k[i]) => i = Len(l) + 2
  BY <1>4, <1>5, <1>6
<1>8. \A i \in 1..Len(k) : k[i].type = "message_delta" => i = Len(l) + 1
  BY <1>4, <1>5, <1>6
<1>9. Over(k, d.usage)
  <2>1. Len(l) + 2 \in 1..Len(k) /\ IsEnd(k[Len(l) + 2])
    BY <1>3, <1>5
  <2>2. \A i, j \in 1..Len(k) : ~ (i < j /\ IsEnd(k[i]))
    BY <1>3, <1>7
  <2>3. \A i \in 1..Len(k) : k[i].type = "message_delta" => k[i].usage = d.usage
    BY <1>5, <1>8
  <2> QED
    BY <2>1, <2>2, <2>3 DEF Over
<1> QED
  BY <1>9 DEF k, m


LEMMA SendingAnEnd ==
    ASSUME NEW s, IsState(s), Plain(s.out), NEW e, IsEnd(e), e.type # "message_delta", NEW u
    PROVE  /\ IsState(Send(s, e)) /\ Same(s, Send(s, e)) /\ Over(Send(s, e).out, u)
<1>1. IsList(s.out)
  BY DEF IsState
<1>2. Over(Append(s.out, e), u)
  BY <1>1, EndsGrow
<1> QED
  BY <1>2, Sending

LEMMA MessageStops ==
    ASSUME NEW s, IsState(s), Plain(s.out), NEW finish
    PROVE  /\ IsState(MessageStop(s, finish)) /\ Same(s, MessageStop(s, finish))
           /\ Over(MessageStop(s, finish).out, s.usage)
<1> DEFINE thought == StopBlock(s, "thinking")
           closed == StopBlock(thought, "text")
           stopped == OverKeys(LAMBDA t, i : Send(t, BlockStop(t.toolBlocks[i])), closed, closed.toolBlocks)
           delta == [type |-> "message_delta", stop |-> finish, usage |-> s.usage]
           stop == [type |-> "message_stop"]
<1>1. MessageStop(s, finish) = Send(Send(stopped, delta), stop)
  BY DEF MessageStop
<1>2. GoesOn(s, closed)
  <2>1. GoesOn(s, thought)
    BY StoppingBlocks
  <2> HIDE DEF thought
  <2> QED
    BY <2>1, StoppingBlocks, GoingOn DEF GoesOn
<1>3. GoesOn(s, stopped)
  <2> HIDE DEF closed
  <2>1. GoesOn(closed, stopped)
    BY <1>2, StoppingTools DEF GoesOn
  <2> QED
    BY <1>2, <2>1, GoingOn
<1>4. /\ ~ IsEnd(delta) /\ delta.usage = s.usage
      /\ IsEnd(stop) /\ stop.type # "message_delta"
  BY DEF IsEnd, Terminals
<1> HIDE DEF stopped, delta, stop
<1>5. IsState(stopped) /\ Same(s, stopped) /\ Plain(stopped.out) /\ IsList(stopped.out)
  BY <1>3 DEF GoesOn, IsState
<1>6. IsState(Send(stopped, delta)) /\ Same(stopped, Send(stopped, delta))
      /\ Send(stopped, delta).out = Append(stopped.out, delta)
  BY <1>5, Sending
<1>7. /\ IsState(Send(Send(stopped, delta), stop))
      /\ Same(Send(stopped, delta), Send(Send(stopped, delta), stop))
      /\ Send(Send(stopped, delta), stop).out = Append(Append(stopped.out, delta), stop)
  BY <1>6, Sending
<1>8. Over(Append(Append(stopped.out, delta), stop), s.usage)
  BY <1>4, <1>5, EndsWithUsage
<1>9. Same(s, Send(Send(stopped, delta), stop))
  BY <1>5, <1>6, <1>7 DEF Same
<1> QED
  BY <1>1, <1>7, <1>8, <1>9

LEMMA MessageStarts ==
    ASSUME NEW s, IsState(s), Plain(s.out)
    PROVE  GoesOn(s, MessageStart(s))
<1> DEFINE sent == Send(s, [type |-> "message_start"])
           started == [sent EXCEPT !["messageStarted"] = TRUE]
           t == [started EXCEPT !["nextBlock"] = 0]
<1>1. MessageStart(s) = IF s.messageStarted THEN s ELSE t
  BY DEF MessageStart
<1>2. IsPlain([type |-> "message_start"])
  BY DEF IsPlain, IsEnd, Terminals
<1>3. GoesOn(s, sent)
  BY <1>2, SendingPlain
<1>4. "messageStarted" \notin Tracked /\ "nextBlock" \notin Tracked
  BY DEF Tracked
<1> HIDE DEF sent
<1>5. GoesOn(s, started)
  BY <1>3, <1>4, Setting DEF GoesOn, Same
<1> HIDE DEF started
<1>6. GoesOn(s, t)
  BY <1>4, <1>5, Setting DEF GoesOn, Same
<1>7. GoesOn(s, s)
  BY DEF GoesOn, Same
<1> QED
  BY <1>1, <1>6, <1>7

LEMMA Seeing ==
    ASSUME NEW s, IsState(s), Plain(s.out), NEW new
    PROVE  GoesOn(s, Seen(s, new))
<1>1. "seen" \notin Tracked
  BY DEF Tracked
<1>2. \A v : GoesOn(s, [s EXCEPT !["seen"] = v])
  BY <1>1, Setting DEF GoesOn
<1> QED
  BY <1>2 DEF Seen

\* The body of the message: what a chunk adds to it before its finish.
Bodied(s, new, calls) ==
    LET started == MessageStart(Seen(s, [new EXCEPT !.refusal = <<>>]))
        thought == TextDelta(started, "thinking", "text", new.reasoning)
        told == TextDelta(thought, "text", "thinking", new.content)
    IN FoldLeft(ToolDelta, told, calls)

LEMMA BodyGoesOn ==
    ASSUME NEW s, IsState(s), Plain(s.out), NEW new, NEW calls, IsList(calls),
           \A i \in 1..Len(calls) : calls[i].index \in Nat
    PROVE  GoesOn(s, Bodied(s, new, calls))
<1> DEFINE seen == Seen(s, [new EXCEPT !.refusal = <<>>])
           started == MessageStart(seen)
           thought == TextDelta(started, "thinking", "text", new.reasoning)
           told == TextDelta(thought, "text", "thinking", new.content)
<1>1. GoesOn(s, seen)
  BY Seeing
<1> HIDE DEF seen
<1>2. GoesOn(s, started)
  BY <1>1, MessageStarts, GoingOn DEF GoesOn
<1> HIDE DEF started
<1>3. GoesOn(s, thought)
  BY <1>2, TextDeltas, GoingOn DEF GoesOn
<1> HIDE DEF thought
<1>4. GoesOn(s, told)
  BY <1>3, TextDeltas, GoingOn DEF GoesOn
<1>5. Bodied(s, new, calls) = FoldLeft(ToolDelta, told, calls)
  BY DEF Bodied, told, thought, started, seen
<1> HIDE DEF told
<1>6. GoesOn(told, FoldLeft(ToolDelta, told, calls))
  BY <1>4, ToolDeltasFold DEF GoesOn
<1>7. GoesOn(s, FoldLeft(ToolDelta, told, calls))
  BY <1>4, <1>6, GoingOn
<1> QED
  BY <1>5, <1>7

\* The sink, one case at a time.
Using(s, chunk) == IF chunk.usage THEN [s EXCEPT !.usage = TRUE] ELSE s

LEMMA AnthropicCases ==
    ASSUME NEW before, NEW chunk
    PROVE  LET s == Using(before, chunk)
               new == Normalized(s, chunk)
               onlyFinish == [chunk EXCEPT !.finish = None, !.usage = FALSE, !.error = FALSE] = EmptyChunk
               rejected == [Seen(s, [new EXCEPT !.content = <<>>, !.refusal = <<>>]) EXCEPT !.fatal = TRUE]
           IN AnthropicSink(before, chunk) =
                IF before.fatal /\ ~ chunk.error THEN before
                ELSE IF ~ chunk.choices THEN s
                ELSE IF \E i \in DOMAIN chunk.calls : ~ IsPortable(chunk.calls[i]) THEN Send(rejected, ErrorEvent)
                ELSE IF IsErrorFinish(chunk.finish) /\ ~ s.messageStarted /\ onlyFinish THEN Send(s, ErrorEvent)
                ELSE FinishMessage(Bodied(s, new, chunk.calls), chunk.finish)
BY DEF AnthropicSink, Bodied, Using

\* A call that the client cannot be told ends its stream.
LEMMA Rejecting ==
    ASSUME NEW s, IsState(s), Plain(s.out), NEW new, NEW u
    PROVE  LET t == Send([Seen(s, new) EXCEPT !.fatal = TRUE], ErrorEvent)
           IN IsState(t) /\ t.fatal /\ Over(t.out, u)
<1> DEFINE seen == Seen(s, new)
           r == [seen EXCEPT !.fatal = TRUE]
<1>1. GoesOn(s, seen)
  BY Seeing
<1> HIDE DEF seen
<1>2. Tracked \subseteq DOMAIN seen
  BY <1>1 DEF GoesOn, IsState
<1>3. DOMAIN r = DOMAIN seen /\ r.fatal = TRUE /\ \A f \in Tracked \ {"fatal"} : r[f] = seen[f]
  BY <1>2 DEF Tracked
<1> HIDE DEF r
<1>4. IsState(r) /\ Plain(r.out)
  BY <1>1, <1>2, <1>3 DEF GoesOn, IsState, Tracked
<1>5. IsEnd(ErrorEvent) /\ ErrorEvent.type # "message_delta"
  BY DEF IsEnd, ErrorEvent
<1>6. IsState(Send(r, ErrorEvent)) /\ Same(r, Send(r, ErrorEvent)) /\ Over(Send(r, ErrorEvent).out, u)
  BY <1>4, <1>5, SendingAnEnd
<1>7. Send(r, ErrorEvent).fatal
  BY <1>3, <1>6 DEF Same
<1> QED
  BY <1>6, <1>7 DEF r, seen

\* A quiet chunk: the message goes on, unless the client cannot be told a call.
LEMMA AnthropicGoesOn ==
    ASSUME NEW s, IsState(s), Plain(s.out), ~ s.fatal, NEW c, Quiet(c), NEW u
    PROVE  \/ GoesOn(s, AnthropicSink(s, c))
           \/ /\ IsState(AnthropicSink(s, c)) /\ AnthropicSink(s, c).fatal
              /\ Over(AnthropicSink(s, c).out, u)
<1> DEFINE new == Normalized(s, c)
           onlyFinish == [c EXCEPT !.finish = None, !.usage = FALSE, !.error = FALSE] = EmptyChunk
           less == [new EXCEPT !.content = <<>>, !.refusal = <<>>]
           rejected == Send([Seen(s, less) EXCEPT !.fatal = TRUE], ErrorEvent)
           unportable == \E i \in DOMAIN c.calls : ~ IsPortable(c.calls[i])
           body == Bodied(s, new, c.calls)
<1>0. Using(s, c) = s
  BY DEF Quiet, Using
<1>1. AnthropicSink(s, c) =
        IF s.fatal /\ ~ c.error THEN s
        ELSE IF ~ c.choices THEN s
        ELSE IF unportable THEN rejected
        ELSE IF IsErrorFinish(c.finish) /\ ~ s.messageStarted /\ onlyFinish THEN Send(s, ErrorEvent)
        ELSE FinishMessage(body, c.finish)
  BY <1>0, AnthropicCases
<1>2. ~ IsErrorFinish(c.finish) /\ FinishMessage(body, c.finish) = body
  BY NoneAssumption DEF Quiet, IsErrorFinish, FinishMessage
<1>3. GoesOn(s, s)
  BY DEF GoesOn, Same
<1>4. GoesOn(s, body)
  BY BodyGoesOn DEF Quiet, IsChunk
<1>5. IsState(rejected) /\ rejected.fatal /\ Over(rejected.out, u)
  BY Rejecting
<1> HIDE DEF new, onlyFinish, less, rejected, unportable, body
<1> QED
  BY <1>1, <1>2, <1>3, <1>4, <1>5

\* A chunk with a finish ends the message; if it is no error, its usage is told.
LEMMA AnthropicEnds ==
    ASSUME NEW s, IsState(s), Plain(s.out), NEW c, IsChunk(c), c.choices = TRUE, c.finish # None,
           ~ s.fatal \/ c.error = TRUE,
           NEW u, IsErrorFinish(c.finish) \/ (c.usage = TRUE /\ u = TRUE) \/ (c.usage = FALSE /\ u = s.usage)
    PROVE  /\ IsState(AnthropicSink(s, c)) /\ Over(AnthropicSink(s, c).out, u)
           /\ s.fatal => AnthropicSink(s, c).fatal
<1> DEFINE t == Using(s, c)
<1>0. /\ IsState(t) /\ Plain(t.out) /\ t.fatal = s.fatal
      /\ (c.usage = TRUE /\ u = TRUE) \/ (c.usage = FALSE /\ u = s.usage) => t.usage = u
  <2>1. Tracked \subseteq DOMAIN s
    BY DEF IsState
  <2>2. DOMAIN t = DOMAIN s /\ \A f \in Tracked \ {"usage"} : t[f] = s[f]
    BY <2>1 DEF Using
  <2>3. (c.usage = TRUE /\ u = TRUE) \/ (c.usage = FALSE /\ u = s.usage) => t.usage = u
    BY <2>1 DEF Tracked, Using
  <2> HIDE DEF t
  <2> QED
    BY <2>1, <2>2, <2>3 DEF IsState, Tracked
<1> DEFINE new == Normalized(t, c)
           onlyFinish == [c EXCEPT !.finish = None, !.usage = FALSE, !.error = FALSE] = EmptyChunk
           less == [new EXCEPT !.content = <<>>, !.refusal = <<>>]
           rejected == Send([Seen(t, less) EXCEPT !.fatal = TRUE], ErrorEvent)
           unportable == \E i \in DOMAIN c.calls : ~ IsPortable(c.calls[i])
           body == Bodied(t, new, c.calls)
<1>1. AnthropicSink(s, c) =
        IF s.fatal /\ ~ c.error THEN s
        ELSE IF ~ c.choices THEN t
        ELSE IF unportable THEN rejected
        ELSE IF IsErrorFinish(c.finish) /\ ~ t.messageStarted /\ onlyFinish THEN Send(t, ErrorEvent)
        ELSE FinishMessage(body, c.finish)
  BY AnthropicCases
<1> HIDE DEF t
<1>2. FinishMessage(body, c.finish) = IF IsErrorFinish(c.finish) THEN Send(body, ErrorEvent)
                                      ELSE MessageStop(body, c.finish)
  BY DEF FinishMessage
<1>3. GoesOn(t, body)
  BY <1>0, BodyGoesOn DEF IsChunk
<1>4. IsState(rejected) /\ rejected.fatal /\ Over(rejected.out, u)
  BY <1>0, Rejecting
<1>5. IsEnd(ErrorEvent) /\ ErrorEvent.type # "message_delta"
  BY DEF IsEnd, ErrorEvent
<1> HIDE DEF new, onlyFinish, less, rejected, unportable, body
<1>6. /\ IsState(Send(t, ErrorEvent)) /\ Over(Send(t, ErrorEvent).out, u)
      /\ Send(t, ErrorEvent).fatal = s.fatal
  BY <1>0, <1>5, SendingAnEnd DEF Same
<1>7. /\ IsState(Send(body, ErrorEvent)) /\ Over(Send(body, ErrorEvent).out, u)
      /\ Send(body, ErrorEvent).fatal = s.fatal
  <2>1. IsState(body) /\ Plain(body.out) /\ body.fatal = s.fatal
    BY <1>0, <1>3 DEF GoesOn, Same
  <2> QED
    BY <1>5, <2>1, SendingAnEnd DEF Same
<1>8. /\ IsState(MessageStop(body, c.finish)) /\ MessageStop(body, c.finish).fatal = s.fatal
      /\ ~ IsErrorFinish(c.finish) => Over(MessageStop(body, c.finish).out, u)
  <2>1. IsState(body) /\ Plain(body.out) /\ body.usage = t.usage /\ body.fatal = s.fatal
    BY <1>0, <1>3 DEF GoesOn, Same
  <2>2. /\ IsState(MessageStop(body, c.finish)) /\ Over(MessageStop(body, c.finish).out, t.usage)
        /\ MessageStop(body, c.finish).fatal = s.fatal
    BY <2>1, MessageStops DEF Same
  <2> QED
    BY <1>0, <2>2
<1>9. s.fatal => c.error
  OBVIOUS
<1> QED
  BY <1>1, <1>2, <1>4, <1>6, <1>7, <1>8, <1>9

-----------------------------------------------------------------------------
(* The sink of a Responses client *)

LEMMA SettingMessage ==
    ASSUME NEW s, IsState(s), Plain(s.out), NEW m, "parts" \in DOMAIN m, IsList(m.parts)
    PROVE  GoesOn(s, [s EXCEPT !["message"] = m])
<1> DEFINE t == [s EXCEPT !["message"] = m]
<1>1. Tracked \subseteq DOMAIN s
  BY DEF IsState
<1>2. DOMAIN t = DOMAIN s /\ t.message = m /\ \A f \in Tracked \ {"message"} : t[f] = s[f]
  BY <1>1 DEF Tracked
<1> HIDE DEF t
<1>3. IsState(t) /\ Same(s, t) /\ t.out = s.out
  BY <1>1, <1>2 DEF IsState, Same, Tracked
<1> QED
  BY <1>3 DEF GoesOn, t

LEMMA SettingCalls ==
    ASSUME NEW s, IsState(s), Plain(s.out), NEW f, Bounded(DOMAIN f)
    PROVE  GoesOn(s, [s EXCEPT !["toolCalls"] = f])
<1> DEFINE t == [s EXCEPT !["toolCalls"] = f]
<1>1. Tracked \subseteq DOMAIN s
  BY DEF IsState
<1>2. DOMAIN t = DOMAIN s /\ t.toolCalls = f /\ \A g \in Tracked \ {"toolCalls"} : t[g] = s[g]
  BY <1>1 DEF Tracked
<1> HIDE DEF t
<1>3. IsState(t) /\ Same(s, t) /\ t.out = s.out
  BY <1>1, <1>2 DEF IsState, Same, Tracked
<1> QED
  BY <1>3 DEF GoesOn, t

\* Fields that nothing here is said about.
LEMMA SettingOther ==
    ASSUME NEW s, IsState(s), Plain(s.out), NEW f, f \notin Tracked, NEW v
    PROVE  GoesOn(s, [s EXCEPT ![f] = v])
BY Setting DEF GoesOn

LEMMA NothingDone ==
    ASSUME NEW s, IsState(s), Plain(s.out)
    PROVE  GoesOn(s, s)
BY DEF GoesOn, Same

LEMMA MessagesStart ==
    ASSUME NEW s, IsState(s), Plain(s.out)
    PROVE  GoesOn(s, EnsureMessage(s))
<1> DEFINE sent == Send(s, ItemAdded(s.nextOutput, "message", None))
           known == [sent EXCEPT !["message"] = [@ EXCEPT !["index"] = s.nextOutput]]
           t == [known EXCEPT !["nextOutput"] = @ + 1]
<1>1. EnsureMessage(s) = IF s.message.index # None THEN s ELSE t
  BY DEF EnsureMessage
<1>2. IsPlain(ItemAdded(s.nextOutput, "message", None))
  BY DEF IsPlain, IsEnd, ItemAdded, Terminals
<1>3. GoesOn(s, sent)
  BY <1>2, SendingPlain
<1> HIDE DEF sent
<1>4. GoesOn(s, known)
  <2>1. "parts" \in DOMAIN sent.message /\ IsList(sent.message.parts)
    BY <1>3 DEF GoesOn, IsState
  <2> DEFINE m == [sent.message EXCEPT !["index"] = s.nextOutput]
  <2>2. "parts" \in DOMAIN m /\ m.parts = sent.message.parts
    BY <2>1
  <2> HIDE DEF m
  <2>3. GoesOn(sent, [sent EXCEPT !["message"] = m])
    BY <1>3, <2>1, <2>2, SettingMessage DEF GoesOn
  <2> QED
    BY <1>3, <2>3, GoingOn DEF m
<1> HIDE DEF known
<1>5. "nextOutput" \notin Tracked
  BY DEF Tracked
<1>6. GoesOn(s, t)
  <2>1. GoesOn(known, t)
    BY <1>4, <1>5, SettingOther DEF GoesOn
  <2> HIDE DEF t
  <2> QED
    BY <1>4, <2>1, GoingOn
<1> HIDE DEF t
<1> QED
  BY <1>1, <1>6, NothingDone

LEMMA PartsStart ==
    ASSUME NEW s, IsState(s), Plain(s.out), NEW kind
    PROVE  GoesOn(s, EnsurePart(s, kind))
<1> DEFINE event == [type |-> "part_added", index |-> s.message.index, kind |-> kind]
           part == [kind |-> kind, text |-> <<>>]
           sent == Send(s, event)
           t == [sent EXCEPT !.message.parts = Append(@, part)]
<1>1. EnsurePart(s, kind) = IF PartOf(s, kind) # 0 THEN s ELSE t
  BY DEF EnsurePart
<1>2. IsPlain(event)
  BY DEF IsPlain, IsEnd, Terminals
<1> HIDE DEF event, part
<1>3. GoesOn(s, sent)
  BY <1>2, SendingPlain
<1> HIDE DEF sent
<1>4. GoesOn(s, t)
  <2>1. "parts" \in DOMAIN sent.message /\ IsList(sent.message.parts)
    BY <1>3 DEF GoesOn, IsState
  <2> DEFINE m == [sent.message EXCEPT !["parts"] = Append(sent.message.parts, part)]
  <2>2. "parts" \in DOMAIN m /\ m.parts = Append(sent.message.parts, part)
    BY <2>1
  <2>3. IsList(m.parts)
    BY <2>1, <2>2, Appending
  <2>5. t = [sent EXCEPT !["message"] = m]
    OBVIOUS
  <2> HIDE DEF m, t
  <2>4. GoesOn(sent, [sent EXCEPT !["message"] = m])
    BY <1>3, <2>2, <2>3, SettingMessage DEF GoesOn
  <2> QED
    BY <1>3, <2>4, <2>5, GoingOn
<1> HIDE DEF t
<1> QED
  BY <1>1, <1>4, NothingDone

LEMMA MessageDeltas ==
    ASSUME NEW s, IsState(s), Plain(s.out), NEW kind, NEW text
    PROVE  GoesOn(s, MessageDelta(s, kind, text))
<1> DEFINE message == EnsureMessage(s)
           opened == EnsurePart(message, kind)
           part == PartOf(opened, kind)
           longer == [opened EXCEPT !.message.parts[part].text = @ \o text]
           delta == ItemDelta(opened.message.index, kind, text)
<1>1. MessageDelta(s, kind, text) = IF text = <<>> THEN s ELSE Send(longer, delta)
  BY DEF MessageDelta
<1>2. GoesOn(s, message)
  BY MessagesStart
<1> HIDE DEF message
<1>3. GoesOn(s, opened)
  BY <1>2, PartsStart, GoingOn DEF GoesOn
<1>4. IsPlain(delta)
  BY DEF IsPlain, IsEnd, ItemDelta, Terminals
<1> HIDE DEF opened, part, delta
<1>5. GoesOn(s, longer)
  <2> DEFINE parts == [opened.message.parts EXCEPT ![part].text = @ \o text]
             m == [opened.message EXCEPT !["parts"] = parts]
  <2>1. "parts" \in DOMAIN opened.message /\ IsList(opened.message.parts)
    BY <1>3 DEF GoesOn, IsState
  <2>5. longer = [opened EXCEPT !["message"] = m]
    OBVIOUS
  <2> HIDE DEF longer
  <2>2. IsList(parts)
    <3>1. Len(opened.message.parts) \in Nat /\ DOMAIN opened.message.parts = 1..Len(opened.message.parts)
      BY <2>1 DEF IsList
    <3>2. DOMAIN parts = 1..Len(opened.message.parts) /\ parts = [i \in DOMAIN parts |-> parts[i]]
      BY <3>1
    <3> HIDE DEF parts
    <3> DEFINE T == {parts[i] : i \in DOMAIN parts}
    <3>3. parts \in [1..Len(opened.message.parts) -> T]
      BY <3>2
    <3> HIDE DEF T
    <3>4. parts \in Seq(T)
      BY <3>1, <3>3
    <3> QED
      BY <3>4, SequencesAreLists
  <2> HIDE DEF parts
  <2>3. "parts" \in DOMAIN m /\ m.parts = parts
    BY <2>1
  <2> HIDE DEF m
  <2>4. GoesOn(opened, [opened EXCEPT !["message"] = m])
    BY <1>3, <2>2, <2>3, SettingMessage DEF GoesOn
  <2> QED
    BY <1>3, <2>4, <2>5, GoingOn
<1> HIDE DEF longer
<1>6. GoesOn(s, Send(longer, delta))
  BY <1>4, <1>5, SendingPlain, GoingOn DEF GoesOn
<1> QED
  BY <1>1, <1>6, NothingDone

LEMMA PlainJoins ==
    ASSUME NEW l, IsList(l), Plain(l), NEW m, IsList(m), \A i \in 1..Len(m) : IsPlain(m[i])
    PROVE  IsList(l \o m) /\ Plain(l \o m)
<1> DEFINE T == {l[i] : i \in 1..Len(l)} \cup {m[i] : i \in 1..Len(m)}
<1>1. l \in [1..Len(l) -> T] /\ m \in [1..Len(m) -> T] /\ Len(l) \in Nat /\ Len(m) \in Nat
  BY DEF IsList
<1>2. l \in Seq(T) /\ m \in Seq(T)
  BY <1>1
<1>3. \A e \in T : IsPlain(e)
  BY DEF Plain, IsPlain
<1> HIDE DEF T
<1>4. l \o m \in Seq(T)
  BY <1>2
<1>5. \A i \in 1..Len(l \o m) : (l \o m)[i] \in T
  BY <1>4
<1> QED
  BY <1>3, <1>4, <1>5, SequencesAreLists DEF Plain, IsPlain

LEMMA SendingMany ==
    ASSUME NEW s, IsState(s), Plain(s.out), NEW m, IsList(m), \A i \in 1..Len(m) : IsPlain(m[i])
    PROVE  GoesOn(s, [s EXCEPT !.out = @ \o m])
<1> DEFINE t == [s EXCEPT !.out = @ \o m]
<1>1. Tracked \subseteq DOMAIN s /\ IsList(s.out)
  BY DEF IsState
<1>2. DOMAIN t = DOMAIN s /\ t.out = s.out \o m /\ \A f \in Tracked \ {"out"} : t[f] = s[f]
  BY <1>1 DEF Tracked
<1>3. IsList(t.out) /\ Plain(t.out)
  BY <1>1, <1>2, PlainJoins
<1> HIDE DEF t
<1>4. IsState(t) /\ Same(s, t)
  BY <1>1, <1>2, <1>3 DEF IsState, Same, Tracked
<1> QED
  BY <1>3, <1>4 DEF GoesOn, t

LEMMA MessagesEnd ==
    ASSUME NEW s, IsState(s), Plain(s.out)
    PROVE  GoesOn(s, MessageDone(s))
<1> DEFINE item == Item("message", None, s.message.parts, FALSE)
           done(part) == [type |-> "part_done", index |-> s.message.index, kind |-> part.kind]
           dones == [i \in DOMAIN s.message.parts |-> done(s.message.parts[i])]
           parts == [s EXCEPT !.out = @ \o dones]
           sent == Send(parts, ItemDone(s.message.index, item))
           kept == [sent EXCEPT !["completedMessages"] = Append(@, [index |-> s.message.index, item |-> item])]
           t == [kept EXCEPT !["message"] = [index |-> None, parts |-> <<>>]]
<1>1. MessageDone(s) = IF s.message.index = None THEN s ELSE t
  <2> DEFINE both == [sent EXCEPT !.completedMessages = Append(@, [index |-> s.message.index, item |-> item]),
                                  !.message = [index |-> None, parts |-> <<>>]]
  <2>1. MessageDone(s) = IF s.message.index = None THEN s ELSE both
    BY DEF MessageDone
  <2>2. both = t
    <3> HIDE DEF sent, item
    <3> QED
      OBVIOUS
  <2> HIDE DEF both, t
  <2> QED
    BY <2>1, <2>2
<1>2. GoesOn(s, parts)
  <2>1. Len(s.message.parts) \in Nat /\ DOMAIN s.message.parts = 1..Len(s.message.parts)
    BY DEF IsState, IsList
  <2> DEFINE T == {done(s.message.parts[i]) : i \in DOMAIN s.message.parts}
  <2>2. dones \in [1..Len(s.message.parts) -> T]
    BY <2>1
  <2>3. \A e \in T : IsPlain(e)
    BY DEF IsPlain, IsEnd, Terminals
  <2> HIDE DEF T, dones
  <2>4. dones \in Seq(T)
    BY <2>1, <2>2
  <2>5. \A i \in 1..Len(dones) : dones[i] \in T
    BY <2>4
  <2> QED
    BY <2>3, <2>4, <2>5, SequencesAreLists, SendingMany
<1> HIDE DEF parts, dones
<1>3. GoesOn(s, sent)
  <2>1. IsPlain(ItemDone(s.message.index, item))
    BY DEF IsPlain, IsEnd, ItemDone, Terminals
  <2> HIDE DEF item
  <2> QED
    BY <1>2, <2>1, SendingPlain, GoingOn DEF GoesOn
<1> HIDE DEF sent
<1>4. GoesOn(s, kept)
  <2>1. "completedMessages" \notin Tracked
    BY DEF Tracked
  <2> HIDE DEF item
  <2>2. GoesOn(sent, kept)
    BY <1>3, <2>1, SettingOther DEF GoesOn
  <2> HIDE DEF kept
  <2> QED
    BY <1>3, <2>2, GoingOn
<1> HIDE DEF kept
<1>5. GoesOn(s, t)
  <2> DEFINE m == [index |-> None, parts |-> <<>>]
  <2>1. "parts" \in DOMAIN m /\ IsList(m.parts)
    BY DEF IsList
  <2> HIDE DEF m
  <2>2. GoesOn(kept, [kept EXCEPT !["message"] = m])
    BY <1>4, <2>1, SettingMessage DEF GoesOn
  <2>3. t = [kept EXCEPT !["message"] = m]
    BY DEF m
  <2> HIDE DEF t
  <2> QED
    BY <1>4, <2>2, <2>3, GoingOn
<1> HIDE DEF t
<1> QED
  BY <1>1, <1>5, NothingDone

LEMMA ReasoningDeltas ==
    ASSUME NEW s, IsState(s), Plain(s.out), NEW text
    PROVE  GoesOn(s, ReasoningDelta(s, text))
<1> DEFINE sent == Send(s, ItemAdded(s.nextOutput, "reasoning", None))
           known == [sent EXCEPT !.reasoning.index = s.nextOutput]
           counted == [known EXCEPT !["nextOutput"] = @ + 1]
           added == IF s.reasoning.index # None THEN s ELSE counted
           longer == [added EXCEPT !.reasoning.text = @ \o text]
           delta == ItemDelta(added.reasoning.index, "reasoning", text)
<1>1. ReasoningDelta(s, text) = IF text = <<>> THEN s ELSE Send(longer, delta)
  <2> DEFINE both == [sent EXCEPT !.reasoning.index = s.nextOutput, !.nextOutput = @ + 1]
             chosen == IF s.reasoning.index # None THEN s ELSE both
  <2>1. ReasoningDelta(s, text) =
            IF text = <<>> THEN s
            ELSE Send([chosen EXCEPT !.reasoning.text = @ \o text],
                      ItemDelta(chosen.reasoning.index, "reasoning", text))
    BY DEF ReasoningDelta
  <2>2. both = counted
    <3> HIDE DEF sent
    <3> QED
      OBVIOUS
  <2>3. chosen = added
    <3> HIDE DEF both, counted
    <3> QED
      BY <2>2
  <2> HIDE DEF chosen, added
  <2> QED
    BY <2>1, <2>3
<1>2. "reasoning" \notin Tracked /\ "nextOutput" \notin Tracked
  BY DEF Tracked
<1>3. GoesOn(s, sent)
  <2>1. IsPlain(ItemAdded(s.nextOutput, "reasoning", None))
    BY DEF IsPlain, IsEnd, ItemAdded, Terminals
  <2> QED
    BY <2>1, SendingPlain
<1> HIDE DEF sent
<1>4. GoesOn(s, known)
  <2>1. GoesOn(sent, known)
    BY <1>2, <1>3, SettingOther DEF GoesOn
  <2> HIDE DEF known
  <2> QED
    BY <1>3, <2>1, GoingOn
<1> HIDE DEF known
<1>5. GoesOn(s, counted)
  <2>1. GoesOn(known, counted)
    BY <1>2, <1>4, SettingOther DEF GoesOn
  <2> HIDE DEF counted
  <2> QED
    BY <1>4, <2>1, GoingOn
<1> HIDE DEF counted
<1>6. GoesOn(s, added)
  BY <1>5, NothingDone
<1> HIDE DEF added
<1>7. GoesOn(s, longer)
  <2>1. GoesOn(added, longer)
    BY <1>2, <1>6, SettingOther DEF GoesOn
  <2> HIDE DEF longer
  <2> QED
    BY <1>6, <2>1, GoingOn
<1>8. GoesOn(s, Send(longer, delta))
  <2>1. IsPlain(delta)
    BY DEF IsPlain, IsEnd, ItemDelta, Terminals
  <2> HIDE DEF longer, delta
  <2> QED
    BY <1>7, <2>1, SendingPlain, GoingOn DEF GoesOn
<1> HIDE DEF longer, delta
<1> QED
  BY <1>1, <1>8, NothingDone

LEMMA CallsMove ==
    ASSUME NEW calls, Bounded(DOMAIN calls), NEW index \in Nat, NEW id
    PROVE  Bounded(DOMAIN Dedupe(calls, index, id))
<1> DEFINE olds == IF id = None THEN {} ELSE {i \in DOMAIN calls \ {index} : calls[i].id = id}
           old == CHOOSE i \in olds : TRUE
           was == calls[old]
           is == IF index \in DOMAIN calls THEN calls[index] ELSE was
           both == [is EXCEPT !.id = OrElse(@, was.id), !.name = OrElse(@, was.name),
                              !.args = IF @ = <<>> THEN was.args ELSE @,
                              !.type = OrElse(@, was.type), !.block = OrElse(@, was.block),
                              !.itemId = OrElse(@, was.itemId),
                              !.customInput = OrElse(@, was.customInput),
                              !.customDone = @ \/ was.customDone,
                              !.added = @ \/ was.added, !.done = @ \/ was.done]
<1>1. Dedupe(calls, index, id) = IF olds = {} THEN calls ELSE With(Without(calls, old), index, both)
  BY Zenon DEF Dedupe
<1> HIDE DEF olds, both, old
<1>2. Bounded(DOMAIN Without(calls, old))
  BY DEF Bounded, Without
<1>3. Bounded(DOMAIN With(Without(calls, old), index, both))
  BY <1>2, BoundedGrows
<1> QED
  BY <1>1, <1>3

LEMMA OutputsAreReserved ==
    ASSUME NEW s, IsState(s), Plain(s.out), NEW index \in Nat
    PROVE  GoesOn(s, ReserveOutput(s, index))
<1> DEFINE call == IF index \in DOMAIN s.toolCalls THEN s.toolCalls[index] ELSE NewCall
           calls == With(s.toolCalls, index, [call EXCEPT !.block = s.nextOutput])
           known == [s EXCEPT !["toolCalls"] = calls]
           t == [known EXCEPT !["nextOutput"] = s.nextOutput + 1]
<1>1. ReserveOutput(s, index) = IF call.block # None THEN s ELSE t
  <2> DEFINE both == [s EXCEPT !.toolCalls = With(@, index, [call EXCEPT !.block = s.nextOutput]),
                               !.nextOutput = @ + 1]
  <2>1. ReserveOutput(s, index) = IF call.block # None THEN s ELSE both
    BY DEF ReserveOutput
  <2>2. both = t
    <3> HIDE DEF call
    <3> QED
      OBVIOUS
  <2> HIDE DEF both, t
  <2> QED
    BY <2>1, <2>2
<1>2. Bounded(DOMAIN calls)
  <2> HIDE DEF call
  <2> QED
    BY BoundedGrows DEF IsState
<1> HIDE DEF calls, call
<1>3. GoesOn(s, known)
  BY <1>2, SettingCalls
<1>4. "nextOutput" \notin Tracked
  BY DEF Tracked
<1> HIDE DEF known
<1>5. GoesOn(known, t)
  BY <1>3, <1>4, SettingOther DEF GoesOn
<1> HIDE DEF t
<1>6. GoesOn(s, t)
  BY <1>3, <1>5, GoingOn
<1> QED
  BY <1>1, <1>6, NothingDone

\* One call with something of it changed.
LEMMA ChangingCalls ==
    ASSUME NEW s, IsState(s), Plain(s.out), NEW index, NEW call
    PROVE  GoesOn(s, [s EXCEPT !.toolCalls[index] = call])
<1> DEFINE calls == [s.toolCalls EXCEPT ![index] = call]
           t == [s EXCEPT !.toolCalls[index] = call]
<1>1. Bounded(DOMAIN calls)
  BY DEF IsState
<1>2. t = [s EXCEPT !["toolCalls"] = calls]
  OBVIOUS
<1> HIDE DEF calls, t
<1>3. GoesOn(s, [s EXCEPT !["toolCalls"] = calls])
  BY <1>1, SettingCalls
<1>4. GoesOn(s, t)
  BY <1>2, <1>3
<1> QED
  BY <1>4 DEF t

LEMMA CallsAreFlushed ==
    ASSUME NEW s, IsState(s), Plain(s.out), NEW index \in Nat, NEW finalize
    PROVE  GoesOn(s, FlushCall(s, index, finalize))
<1> DEFINE reserved == ReserveOutput(s, index)
           call == reserved.toolCalls[index]
           unwraps == IsWrapped(call) /\ Decodes(call.args)
           told == IF unwraps THEN [call EXCEPT !.type = "custom", !.args = Decoded(@)] ELSE call
           changed == [reserved EXCEPT !.toolCalls[index] = [told EXCEPT !.added = TRUE]]
           added == Send(changed, ItemAdded(told.block, TypeOf(told), told.id))
           delta == ItemDelta(told.block, TypeOf(told), told.args)
<1>1. FlushCall(s, index, finalize) =
        IF call.added \/ call.id = None THEN reserved
        ELSE IF IsWrapped(call) /\ ~ unwraps /\ ~ finalize THEN reserved
        ELSE IF told.args = <<>> THEN added
        ELSE Send(added, delta)
  BY DEF FlushCall
<1>2. GoesOn(s, reserved)
  BY OutputsAreReserved
<1>3. IsPlain(ItemAdded(told.block, TypeOf(told), told.id)) /\ IsPlain(delta)
  BY DEF IsPlain, IsEnd, ItemAdded, ItemDelta, Terminals
<1> HIDE DEF reserved, unwraps, call, told, delta
<1>4. GoesOn(s, changed)
  <2>1. GoesOn(reserved, changed)
    BY <1>2, ChangingCalls DEF GoesOn
  <2> HIDE DEF changed
  <2> QED
    BY <1>2, <2>1, GoingOn
<1> HIDE DEF changed
<1>5. GoesOn(s, added)
  <2>1. GoesOn(changed, added)
    BY <1>3, <1>4, SendingPlain DEF GoesOn
  <2> HIDE DEF added
  <2> QED
    BY <1>4, <2>1, GoingOn
<1> HIDE DEF added
<1>6. GoesOn(s, Send(added, delta))
  <2>1. GoesOn(added, Send(added, delta))
    BY <1>3, <1>5, SendingPlain DEF GoesOn
  <2> QED
    BY <1>5, <2>1, GoingOn
<1> QED
  BY <1>1, <1>2, <1>5, <1>6

\* The step of FlushAll.
Flushed(t, i) == FlushCall(t, i, TRUE)

LEMMA FlushingAll ==
    ASSUME NEW s, IsState(s), Plain(s.out)
    PROVE  GoesOn(s, FlushAll(s))
<1> DEFINE how == <<"flush">>
           keys == DOMAIN s.toolCalls
           at == [i \in keys |-> i]
           E(iter) == iter = [S \in SUBSET keys |->
                                IF S = {} THEN s ELSE Flushed(iter[S \ {Max(S)}], Max(S))]
<1>0. PICK n \in Nat : keys \in SUBSET (0..n)
  BY DEF IsState, Bounded
<1>1. \A iter : E(iter) <=> Iterates(iter, how, s, keys, at)
  <2>1. ASSUME NEW S \in SUBSET keys, S # {} PROVE at[Max(S)] = Max(S)
    BY <1>0, <2>1, Greatest
  <2>2. ASSUME NEW t, NEW x PROVE Step(how, t, x) = Flushed(t, x)
    BY DEF Step, Flushed
  <2> HIDE DEF keys, at, how
  <2> QED
    BY <2>1, <2>2 DEF Iterates
<1>2. \E iter : E(iter)
  BY <1>0, <1>1, IteratesExist
<1>3. E(CHOOSE iter : E(iter))
  BY <1>2, Zenon
<1>4. \A S, t : Keeps(how, s, S, t) <=> GoesOn(s, t)
  BY DEF Keeps
<1>5. Keeps(how, s, {}, s)
  BY <1>4, NothingDone
<1>6. ASSUME NEW S \in SUBSET keys, NEW x \in keys, NEW t, Keeps(how, s, S, t)
      PROVE  Keeps(how, s, S \cup {x}, Step(how, t, at[x]))
  <2>1. Step(how, t, at[x]) = FlushCall(t, x, TRUE)
    BY DEF Step
  <2>2. x \in Nat
    BY <1>0
  <2>3. GoesOn(s, t)
    BY <1>4, <1>6
  <2>4. GoesOn(t, FlushCall(t, x, TRUE))
    <3>1. IsState(t) /\ Plain(t.out)
      BY <2>3 DEF GoesOn
    <3> QED
      BY <2>2, <3>1, CallsAreFlushed
  <2> HIDE DEF how, at
  <2> QED
    BY <1>4, <2>1, <2>3, <2>4, GoingOn
<1>7. Keeps(how, s, keys, (CHOOSE iter : E(iter))[keys])
  <2> HIDE DEF how, E, keys, at
  <2> QED
    BY <1>0, <1>1, <1>3, <1>5, <1>6, IterationKeeps
<1>8. FlushAll(s) = (CHOOSE iter : E(iter))[keys]
  BY DEF FlushAll, OverKeys, MapThenFoldSet, Flushed
<1>9. GoesOn(s, (CHOOSE iter : E(iter))[keys])
  <2> HIDE DEF E, how, keys
  <2> QED
    BY <1>4, <1>7
<1> QED
  BY <1>8, <1>9

\* The end of one call, for the step of CallsDone.
EndCall(t, i, finish) ==
    LET call == t.toolCalls[i]
    IN IF ~ call.added \/ call.done THEN t
       ELSE Send([t EXCEPT !.toolCalls[i].done = TRUE], ItemDone(call.block, CallItem(call, finish)))

LEMMA CallsEnd ==
    ASSUME NEW s, IsState(s), Plain(s.out), NEW i, NEW finish
    PROVE  GoesOn(s, EndCall(s, i, finish))
<1> DEFINE call == s.toolCalls[i]
           event == ItemDone(call.block, CallItem(call, finish))
           changed == [s EXCEPT !.toolCalls[i].done = TRUE]
           ended == [s.toolCalls[i] EXCEPT !.done = TRUE]
<1>1. EndCall(s, i, finish) = IF ~ call.added \/ call.done THEN s ELSE Send(changed, event)
  BY DEF EndCall
<1>2. IsPlain(event)
  BY DEF IsPlain, IsEnd, ItemDone, Terminals
<1>3. changed = [s EXCEPT !.toolCalls[i] = ended]
  OBVIOUS
<1> HIDE DEF call, event, changed, ended
<1>4. GoesOn(s, changed)
  BY <1>3, ChangingCalls
<1>5. GoesOn(changed, Send(changed, event))
  BY <1>2, <1>4, SendingPlain DEF GoesOn
<1>6. GoesOn(s, Send(changed, event))
  BY <1>4, <1>5, GoingOn
<1> QED
  BY <1>1, <1>6, NothingDone

LEMMA EndingCalls ==
    ASSUME NEW s, IsState(s), Plain(s.out), NEW finish
    PROVE  GoesOn(s, CallsDone(s, finish))
<1> DEFINE how == <<"call done", finish>>
           keys == DOMAIN s.toolCalls
           at == [i \in keys |-> i]
           E(iter) == iter = [S \in SUBSET keys |->
                                IF S = {} THEN s ELSE EndCall(iter[S \ {Max(S)}], Max(S), finish)]
<1>0. PICK n \in Nat : keys \in SUBSET (0..n)
  BY DEF IsState, Bounded
<1>1. \A iter : E(iter) <=> Iterates(iter, how, s, keys, at)
  <2>1. ASSUME NEW S \in SUBSET keys, S # {} PROVE at[Max(S)] = Max(S)
    BY <1>0, <2>1, Greatest
  <2>2. ASSUME NEW t, NEW x PROVE Step(how, t, x) = EndCall(t, x, finish)
    BY DEF Step, EndCall
  <2> HIDE DEF keys, at, how
  <2> QED
    BY <2>1, <2>2 DEF Iterates
<1>2. \E iter : E(iter)
  BY <1>0, <1>1, IteratesExist
<1>3. E(CHOOSE iter : E(iter))
  BY <1>2, Zenon
<1>4. \A S, t : Keeps(how, s, S, t) <=> GoesOn(s, t)
  BY DEF Keeps
<1>5. Keeps(how, s, {}, s)
  BY <1>4, NothingDone
<1>6. ASSUME NEW S \in SUBSET keys, NEW x \in keys, NEW t, Keeps(how, s, S, t)
      PROVE  Keeps(how, s, S \cup {x}, Step(how, t, at[x]))
  <2>1. Step(how, t, at[x]) = EndCall(t, x, finish)
    BY DEF Step, EndCall
  <2>3. GoesOn(s, t)
    BY <1>4, <1>6
  <2>4. GoesOn(t, EndCall(t, x, finish))
    BY <2>3, CallsEnd DEF GoesOn
  <2> HIDE DEF how, at
  <2> QED
    BY <1>4, <2>1, <2>3, <2>4, GoingOn
<1>7. Keeps(how, s, keys, (CHOOSE iter : E(iter))[keys])
  <2> HIDE DEF how, E, keys, at
  <2> QED
    BY <1>0, <1>1, <1>3, <1>5, <1>6, IterationKeeps
<1>8. CallsDone(s, finish) = (CHOOSE iter : E(iter))[keys]
  BY DEF CallsDone, OverKeys, MapThenFoldSet, EndCall
<1>9. GoesOn(s, (CHOOSE iter : E(iter))[keys])
  <2> HIDE DEF E, how, keys
  <2> QED
    BY <1>4, <1>7
<1> QED
  BY <1>8, <1>9

LEMMA ToolCalls ==
    ASSUME NEW s, IsState(s), Plain(s.out), NEW delta, delta.index \in Nat
    PROVE  GoesOn(s, ToolCall(s, delta))
<1> DEFINE moved == [s EXCEPT !["toolCalls"] = Dedupe(@, delta.index, delta.id)]
           reserved == ReserveOutput(moved, delta.index)
           was == reserved.toolCalls[delta.index]
           call == [was EXCEPT !.id = OrElse(delta.id, @), !.name = OrElse(delta.name, @),
                               !.type = IF @ = None \/ delta.type # None
                                        THEN OrElse(delta.type, "function") ELSE @,
                               !.args = @ \o delta.args]
           merged == [reserved EXCEPT !.toolCalls[delta.index] = call]
           event == ItemDelta(call.block, TypeOf(call), delta.args)
<1>1. ToolCall(s, delta) =
        IF ~ was.added THEN IF call.id = None THEN merged ELSE FlushCall(merged, delta.index, FALSE)
        ELSE IF delta.args = <<>> THEN merged
        ELSE Send(merged, event)
  BY DEF ToolCall
<1>2. GoesOn(s, moved)
  <2>1. Bounded(DOMAIN Dedupe(s.toolCalls, delta.index, delta.id))
    BY CallsMove DEF IsState
  <2> QED
    BY <2>1, SettingCalls
<1> HIDE DEF moved
<1>3. GoesOn(s, reserved)
  <2>1. GoesOn(moved, reserved)
    BY <1>2, OutputsAreReserved DEF GoesOn
  <2> HIDE DEF reserved
  <2> QED
    BY <1>2, <2>1, GoingOn
<1>4. IsPlain(event)
  BY DEF IsPlain, IsEnd, ItemDelta, Terminals
<1> HIDE DEF reserved, was, call, event
<1>5. GoesOn(s, merged)
  <2>1. GoesOn(reserved, merged)
    BY <1>3, ChangingCalls DEF GoesOn
  <2> HIDE DEF merged
  <2> QED
    BY <1>3, <2>1, GoingOn
<1> HIDE DEF merged
<1>6. GoesOn(s, FlushCall(merged, delta.index, FALSE))
  <2>1. GoesOn(merged, FlushCall(merged, delta.index, FALSE))
    <3>1. IsState(merged) /\ Plain(merged.out)
      BY <1>5 DEF GoesOn
    <3> QED
      BY <3>1, CallsAreFlushed
  <2> QED
    BY <1>5, <2>1, GoingOn
<1>7. GoesOn(s, Send(merged, event))
  <2>1. GoesOn(merged, Send(merged, event))
    BY <1>4, <1>5, SendingPlain DEF GoesOn
  <2> QED
    BY <1>5, <2>1, GoingOn
<1> QED
  BY <1>1, <1>5, <1>6, <1>7

LEMMA ToolCallsFold ==
    ASSUME NEW s, IsState(s), Plain(s.out), NEW calls, IsList(calls),
           \A i \in 1..Len(calls) : calls[i].index \in Nat
    PROVE  GoesOn(s, FoldLeft(ToolCall, s, calls))
<1> DEFINE how == <<"tool call">>
           E(iter) == iter = [S \in SUBSET DOMAIN calls |->
                                IF S = {} THEN s ELSE ToolCall(iter[S \ {Max(S)}], calls[Max(S)])]
<1>0. Len(calls) \in Nat /\ DOMAIN calls = 1..Len(calls) /\ DOMAIN calls \in SUBSET (0..Len(calls))
  BY DEF IsList
<1>1. \A iter : E(iter) <=> Iterates(iter, how, s, DOMAIN calls, calls)
  BY DEF Iterates, Step
<1>2. \E iter : E(iter)
  BY <1>0, <1>1, IteratesExist
<1>3. E(CHOOSE iter : E(iter))
  BY <1>2, Zenon
<1>4. \A S, t : Keeps(how, s, S, t) <=> GoesOn(s, t)
  BY DEF Keeps
<1>5. Keeps(how, s, {}, s)
  BY <1>4, NothingDone
<1>6. ASSUME NEW S \in SUBSET DOMAIN calls, NEW x \in DOMAIN calls, NEW t, Keeps(how, s, S, t)
      PROVE  Keeps(how, s, S \cup {x}, Step(how, t, calls[x]))
  <2>1. Step(how, t, calls[x]) = ToolCall(t, calls[x])
    BY DEF Step
  <2>2. GoesOn(s, t) /\ calls[x].index \in Nat
    BY <1>0, <1>4, <1>6
  <2>3. GoesOn(t, ToolCall(t, calls[x]))
    BY <2>2, ToolCalls DEF GoesOn
  <2> HIDE DEF how
  <2> QED
    BY <1>4, <2>1, <2>2, <2>3, GoingOn
<1>7. Keeps(how, s, DOMAIN calls, (CHOOSE iter : E(iter))[DOMAIN calls])
  <2> HIDE DEF how, E
  <2> QED
    BY <1>0, <1>1, <1>3, <1>5, <1>6, IterationKeeps
<1>8. FoldLeft(ToolCall, s, calls) = (CHOOSE iter : E(iter))[DOMAIN calls]
  BY DEF FoldLeft, MapThenFoldSet
<1> HIDE DEF E, how
<1> QED
  BY <1>4, <1>7, <1>8

LEMMA ResponsesStart ==
    ASSUME NEW s, IsState(s), Plain(s.out)
    PROVE  GoesOn(s, Created(s))
<1> DEFINE sent == Send(s, [type |-> "created"])
           t == [sent EXCEPT !["responsesStarted"] = TRUE]
<1>1. Created(s) = IF s.responsesStarted THEN s ELSE t
  BY DEF Created
<1>2. IsPlain([type |-> "created"])
  BY DEF IsPlain, IsEnd, Terminals
<1>3. GoesOn(s, sent)
  BY <1>2, SendingPlain
<1>4. "responsesStarted" \notin Tracked
  BY DEF Tracked
<1> HIDE DEF sent
<1>5. GoesOn(sent, t)
  BY <1>3, <1>4, SettingOther DEF GoesOn
<1> HIDE DEF t
<1>6. GoesOn(s, t)
  BY <1>3, <1>5, GoingOn
<1> QED
  BY <1>1, <1>6, NothingDone

\* The terminal event, and what it leaves alone.
IsOver(s, t, u) == IsState(t) /\ t.fatal = s.fatal /\ t.terminalSent = TRUE /\ Over(t.out, u)

LEMMA ResponsesEnd ==
    ASSUME NEW s, IsState(s), Plain(s.out), NEW u
    PROVE  IsOver(s, Terminal(s), u)
<1> DEFINE event == ItemDone(s.reasoning.index, ReasoningItem(s))
           thought == IF s.reasoning.index = None THEN s ELSE Send(s, event)
           called == CallsDone(thought, s.finish)
           done == MessageDone(called)
           marked == [done EXCEPT !.terminalSent = TRUE]
           terminal == [type |-> Status(s.finish), output |-> Output(done)]
<1>1. Terminal(s) = Send(marked, terminal)
  BY DEF Terminal
<1>2. GoesOn(s, thought)
  <2>1. IsPlain(event)
    BY DEF IsPlain, IsEnd, ItemDone, Terminals
  <2> HIDE DEF event
  <2>2. GoesOn(s, Send(s, event))
    BY <2>1, SendingPlain
  <2> QED
    BY <2>2, NothingDone
<1> HIDE DEF thought
<1>3. GoesOn(s, called)
  <2>1. GoesOn(thought, called)
    BY <1>2, EndingCalls DEF GoesOn
  <2> HIDE DEF called
  <2> QED
    BY <1>2, <2>1, GoingOn
<1> HIDE DEF called
<1>4. GoesOn(s, done)
  <2>1. GoesOn(called, done)
    BY <1>3, MessagesEnd DEF GoesOn
  <2> HIDE DEF done
  <2> QED
    BY <1>3, <2>1, GoingOn
<1>5. IsEnd(terminal) /\ terminal.type # "message_delta"
  BY DEF IsEnd, Terminals, Status
<1> HIDE DEF done, terminal
<1>6. IsState(marked) /\ Plain(marked.out) /\ marked.terminalSent = TRUE /\ marked.fatal = s.fatal
  <2>1. Tracked \subseteq DOMAIN done
    BY <1>4 DEF GoesOn, IsState
  <2>2. /\ DOMAIN marked = DOMAIN done /\ marked.terminalSent = TRUE
        /\ \A f \in Tracked \ {"terminalSent"} : marked[f] = done[f]
    BY <2>1 DEF Tracked
  <2> HIDE DEF marked
  <2> QED
    BY <1>4, <2>1, <2>2 DEF GoesOn, IsState, Same, Tracked
<1> HIDE DEF marked
<1>7. IsState(Send(marked, terminal)) /\ Same(marked, Send(marked, terminal)) /\ Over(Send(marked, terminal).out, u)
  BY <1>5, <1>6, SendingAnEnd
<1> QED
  BY <1>1, <1>6, <1>7 DEF IsOver, Same

\* What a client's last word is when the rest of its calls are told first.
LEMMA FlushedEnd ==
    ASSUME NEW s, IsState(s), Plain(s.out), NEW u
    PROVE  IsOver(s, Terminal(FlushAll(s)), u)
<1> DEFINE t == FlushAll(s)
<1>1. IsState(t) /\ Plain(t.out) /\ t.fatal = s.fatal
  BY FlushingAll DEF GoesOn, Same
<1> HIDE DEF t
<1>2. IsOver(t, Terminal(t), u)
  BY <1>1, ResponsesEnd
<1> QED
  BY <1>1, <1>2 DEF IsOver, t

\* What a chunk adds to a response before its end is looked at.
Itemized(before, chunk) ==
    LET new == Normalized(before, chunk)
        texts == MessageDelta(
                    MessageDelta(ReasoningDelta(Created(Seen(before, new)), new.reasoning),
                                 "text", new.content),
                    "refusal", new.refusal)
    IN IF chunk.calls = <<>> THEN texts
       ELSE FoldLeft(ToolCall, MessageDone(texts), chunk.calls)

LEMMA ItemsGoOn ==
    ASSUME NEW s, IsState(s), Plain(s.out), NEW c, IsChunk(c)
    PROVE  GoesOn(s, Itemized(s, c))
<1> DEFINE new == Normalized(s, c)
           seen == Seen(s, new)
           started == Created(seen)
           thought == ReasoningDelta(started, new.reasoning)
           told == MessageDelta(thought, "text", new.content)
           texts == MessageDelta(told, "refusal", new.refusal)
           done == MessageDone(texts)
           calls == FoldLeft(ToolCall, done, c.calls)
<1>1. Itemized(s, c) = IF c.calls = <<>> THEN texts ELSE calls
  BY DEF Itemized
<1> HIDE DEF new
<1>2. GoesOn(s, seen)
  BY Seeing
<1> HIDE DEF seen
<1>3. GoesOn(s, started)
  BY <1>2, ResponsesStart, GoingOn DEF GoesOn
<1> HIDE DEF started
<1>4. GoesOn(s, thought)
  BY <1>3, ReasoningDeltas, GoingOn DEF GoesOn
<1> HIDE DEF thought
<1>5. GoesOn(s, told)
  BY <1>4, MessageDeltas, GoingOn DEF GoesOn
<1> HIDE DEF told
<1>6. GoesOn(s, texts)
  BY <1>5, MessageDeltas, GoingOn DEF GoesOn
<1> HIDE DEF texts
<1>7. GoesOn(s, done)
  BY <1>6, MessagesEnd, GoingOn DEF GoesOn
<1> HIDE DEF done
<1>8. GoesOn(s, calls)
  <2>1. GoesOn(done, calls)
    BY <1>7, ToolCallsFold DEF GoesOn, IsChunk
  <2> HIDE DEF calls
  <2> QED
    BY <1>7, <2>1, GoingOn
<1> QED
  BY <1>1, <1>6, <1>8

\* A chunk's items, usage and finish are known.
Finishing(before, chunk) ==
    [Itemized(before, chunk) EXCEPT !.usage = @ \/ chunk.usage, !.finish = OrElse(chunk.finish, @)]

LEMMA ResponsesCases ==
    ASSUME NEW before, NEW chunk, NEW waits
    PROVE  LET s == Finishing(before, chunk)
               flushed == IF chunk.finish = "tool_calls" THEN CallsDone(FlushAll(s), "tool_calls") ELSE s
           IN ResponsesSink(before, chunk, waits) =
                IF before.terminalSent THEN before
                ELSE IF chunk.finish \in FailingFinishes THEN Terminal(FlushAll(s))
                ELSE IF ShouldFinalize(flushed, chunk, waits) THEN Terminal(FlushAll(flushed))
                ELSE flushed
BY DEF ResponsesSink, Finishing, Itemized

\* A response that is not over: its finish is not known, or its usage still to come.
IsWaiting(s, t, f) ==
    /\ IsState(t) /\ Plain(t.out)
    /\ t.fatal = s.fatal /\ t.terminalSent = s.terminalSent /\ t.finishSent = s.finishSent
    /\ t.finish = f

LEMMA FinishIsKnown ==
    ASSUME NEW s, IsState(s), Plain(s.out), NEW c, IsChunk(c)
    PROVE  IsWaiting(s, Finishing(s, c), OrElse(c.finish, s.finish))
<1> DEFINE item == Itemized(s, c)
           t == [item EXCEPT !.usage = @ \/ c.usage, !.finish = OrElse(c.finish, @)]
<1>1. GoesOn(s, item)
  BY ItemsGoOn
<1>2. Finishing(s, c) = t
  BY DEF Finishing
<1> HIDE DEF item
<1>3. Tracked \subseteq DOMAIN item /\ item.finish = s.finish
  BY <1>1 DEF GoesOn, IsState, Same
<1>4. /\ DOMAIN t = DOMAIN item /\ t.finish = OrElse(c.finish, item.finish)
      /\ \A f \in Tracked \ {"usage", "finish"} : t[f] = item[f]
  BY <1>3 DEF Tracked
<1> HIDE DEF t
<1>5. IsState(t)
  BY <1>1, <1>3, <1>4 DEF GoesOn, IsState, Tracked
<1>6. /\ Plain(t.out) /\ t.fatal = s.fatal /\ t.terminalSent = s.terminalSent /\ t.finishSent = s.finishSent
      /\ t.finish = OrElse(c.finish, s.finish)
  BY <1>1, <1>3, <1>4 DEF GoesOn, Same, Tracked
<1> QED
  BY <1>2, <1>5, <1>6 DEF IsWaiting

LEMMA ResponsesGoOn ==
    ASSUME NEW s, IsState(s), Plain(s.out), ~ s.terminalSent, NEW c, IsChunk(c), NEW waits, NEW u
    PROVE  LET t == ResponsesSink(s, c, waits)
               f == OrElse(c.finish, s.finish)
           IN \/ IsOver(s, t, u) /\ f # None
              \/ IsWaiting(s, t, f) /\ (f = None \/ (waits /\ ~ c.usage /\ c.finish \notin FailingFinishes))
<1> DEFINE f == OrElse(c.finish, s.finish)
           known == Finishing(s, c)
           told == CallsDone(FlushAll(known), "tool_calls")
           flushed == IF c.finish = "tool_calls" THEN told ELSE known
<1>1. ResponsesSink(s, c, waits) =
        IF c.finish \in FailingFinishes THEN Terminal(FlushAll(known))
        ELSE IF ShouldFinalize(flushed, c, waits) THEN Terminal(FlushAll(flushed))
        ELSE flushed
  BY ResponsesCases
<1>2. IsWaiting(s, known, f)
  BY FinishIsKnown
<1>3. c.finish \in FailingFinishes => f # None
  BY NoneAssumption DEF OrElse, FailingFinishes
<1> HIDE DEF known, f
<1>4. IsWaiting(s, told, f)
  <2> DEFINE t == FlushAll(known)
  <2>1. GoesOn(known, t)
    BY <1>2, FlushingAll DEF IsWaiting
  <2> HIDE DEF t
  <2>2. GoesOn(t, told)
    BY <2>1, EndingCalls DEF GoesOn, t
  <2> HIDE DEF told
  <2> QED
    BY <1>2, <2>1, <2>2 DEF IsWaiting, GoesOn, Same
<1> HIDE DEF told
<1>5. IsWaiting(s, flushed, f)
  BY <1>2, <1>4
<1> HIDE DEF flushed
<1>6. IsOver(s, Terminal(FlushAll(known)), u) /\ IsOver(s, Terminal(FlushAll(flushed)), u)
  BY <1>2, <1>5, FlushedEnd DEF IsWaiting, IsOver
<1>7. ShouldFinalize(flushed, c, waits) => f # None
  BY <1>5 DEF ShouldFinalize, IsWaiting
<1>8. ~ ShouldFinalize(flushed, c, waits) => f = None \/ (waits /\ ~ c.usage)
  <2>1. flushed.finish = f
    BY <1>5 DEF IsWaiting
  <2> QED
    BY <2>1, Zenon DEF ShouldFinalize
<1>9. \/ IsOver(s, ResponsesSink(s, c, waits), u) /\ f # None
      \/ IsWaiting(s, ResponsesSink(s, c, waits), f) /\ (f = None \/ (waits /\ ~ c.usage /\ c.finish \notin FailingFinishes))
  BY <1>1, <1>3, <1>5, <1>6, <1>7, <1>8
<1> QED
  BY <1>9 DEF f

-----------------------------------------------------------------------------
(* A chunk, for each client *)

LEMMA ChunksAreSent ==
    ASSUME NEW s, IsState(s), Plain(s.out), NEW c, NEW u
    PROVE  LET t == Send(s, [type |-> "chunk", chunk |-> c])
           IN /\ c.finish = None => GoesOn(s, t)
              /\ c.finish # None => IsState(t) /\ Same(s, t) /\ Over(t.out, u)
<1> DEFINE event == [type |-> "chunk", chunk |-> c]
<1>1. event.type # "message_delta" /\ (IsEnd(event) <=> c.finish # None)
  BY DEF IsEnd, Terminals
<1> HIDE DEF event
<1>2. c.finish = None => GoesOn(s, Send(s, event))
  BY <1>1, SendingPlain DEF IsPlain
<1>3. c.finish # None => IsState(Send(s, event)) /\ Same(s, Send(s, event)) /\ Over(Send(s, event).out, u)
  BY <1>1, SendingAnEnd
<1> QED
  BY <1>2, <1>3 DEF event

LEMMA QuietChunks ==
    ASSUME pair \in Pairs, NEW s, ~ s.fatal, ~ s.terminalSent, NEW u, NEW t, Sinks(s, u, t),
           NEW c, Quiet(c)
    PROVE  Sinks(s, u, ToClient(t, c))
<1>1. pair[2] \in Formats
  BY PairsAssumption
<1>2. c.finish = None /\ c.error = FALSE /\ IsChunk(c)
  BY DEF Quiet
<1>3. CASE pair[2] = "chat"
  <2> DEFINE r == Send(t, [type |-> "chunk", chunk |-> c])
  <2>1. ToClient(t, c) = r
    BY <1>3 DEF ToClient
  <2>2. IsState(t) /\ Plain(t.out) /\ Like(s, t)
    BY <1>3 DEF Sinks
  <2>3. GoesOn(t, r)
    BY <1>2, <2>2, ChunksAreSent
  <2> HIDE DEF r
  <2> QED
    BY <2>1, <2>2, <2>3 DEF Sinks, GoesOn, Same, Like
<1>4. CASE pair[2] = "anthropic"
  <2> DEFINE r == AnthropicSink(t, c)
  <2>1. ToClient(t, c) = r
    BY <1>4 DEF ToClient
  <2>2. CASE IsState(t) /\ Plain(t.out) /\ Like(s, t)
    <3>1. ~ t.fatal
      BY <2>2 DEF Like
    <3>2. GoesOn(t, r) \/ (IsState(r) /\ r.fatal /\ Over(r.out, u))
      BY <2>2, <3>1, AnthropicGoesOn
    <3> HIDE DEF r
    <3> QED
      BY <1>4, <2>1, <2>2, <3>2 DEF Sinks, GoesOn, Same, Like
  <2>3. CASE IsState(t) /\ Over(t.out, u) /\ t.fatal
    <3>1. r = t
      BY <1>2, <2>3, AnthropicCases
    <3> HIDE DEF r
    <3> QED
      BY <2>1, <3>1
  <2> QED
    BY <1>4, <2>2, <2>3 DEF Sinks
<1>5. CASE pair[2] = "responses"
  <2> DEFINE r == ResponsesSink(t, c, cumulative)
  <2>1. ToClient(t, c) = r
    BY <1>5 DEF ToClient
  <2>2. CASE IsState(t) /\ Plain(t.out) /\ Like(s, t)
    <3>1. ~ t.terminalSent /\ OrElse(c.finish, t.finish) = s.finish
      BY <1>2, <2>2 DEF Like, OrElse
    <3>2. (IsOver(t, r, u) /\ s.finish # None) \/ IsWaiting(t, r, s.finish)
      BY <1>2, <2>2, <3>1, ResponsesGoOn
    <3> HIDE DEF r
    <3> QED
      BY <1>5, <2>1, <2>2, <3>2 DEF Sinks, IsOver, IsWaiting, Like
  <2>3. CASE IsState(t) /\ Over(t.out, u) /\ t.terminalSent
    <3>1. r = t
      BY <2>3, ResponsesCases
    <3> HIDE DEF r
    <3> QED
      BY <2>1, <3>1
  <2> QED
    BY <1>5, <2>2, <2>3 DEF Sinks
<1> QED
  BY <1>1, <1>3, <1>4, <1>5 DEF Formats

\* The chunk that ends the stream of an upstream that is no chat upstream.
LEMMA LastChunk ==
    ASSUME pair \in Pairs, ~ cumulative, NEW s, ~ s.fatal, ~ s.terminalSent, NEW u, NEW t, Sinks(s, u, t),
           NEW c, IsChunk(c), c.choices = TRUE, c.error = FALSE, c.finish # None,
           pair[2] = "anthropic" => IsErrorFinish(c.finish) \/ (c.usage = TRUE /\ u = TRUE)
    PROVE  IsState(ToClient(t, c)) /\ Over(ToClient(t, c).out, u)
<1>1. pair[2] \in Formats
  BY PairsAssumption
<1>3. CASE pair[2] = "chat"
  <2>1. ToClient(t, c) = Send(t, [type |-> "chunk", chunk |-> c])
    BY <1>3 DEF ToClient
  <2>2. IsState(t) /\ Plain(t.out) /\ Like(s, t)
    BY <1>3 DEF Sinks
  <2> QED
    BY <2>1, <2>2, ChunksAreSent
<1>4. CASE pair[2] = "anthropic"
  <2> DEFINE r == AnthropicSink(t, c)
  <2>1. ToClient(t, c) = r
    BY <1>4 DEF ToClient
  <2>2. CASE IsState(t) /\ Plain(t.out) /\ Like(s, t)
    <3>1. ~ t.fatal
      BY <2>2 DEF Like
    <3>2. IsState(r) /\ Over(r.out, u)
      BY <1>4, <2>2, <3>1, AnthropicEnds
    <3> QED
      BY <2>1, <3>2
  <2>3. CASE IsState(t) /\ Over(t.out, u) /\ t.fatal
    <3>1. r = t
      BY <2>3, AnthropicCases
    <3> HIDE DEF r
    <3> QED
      BY <2>1, <2>3, <3>1
  <2> QED
    BY <1>4, <2>2, <2>3 DEF Sinks
<1>5. CASE pair[2] = "responses"
  <2> DEFINE r == ResponsesSink(t, c, cumulative)
  <2>1. ToClient(t, c) = r
    BY <1>5 DEF ToClient
  <2>2. CASE IsState(t) /\ Plain(t.out) /\ Like(s, t)
    <3>1. ~ t.terminalSent /\ OrElse(c.finish, t.finish) # None
      BY <2>2 DEF Like, OrElse
    <3>2. IsOver(t, r, u)
      BY <2>2, <3>1, ResponsesGoOn
    <3> QED
      BY <2>1, <3>2 DEF IsOver
  <2>3. CASE IsState(t) /\ Over(t.out, u) /\ t.terminalSent
    <3>1. r = t
      BY <2>3, ResponsesCases
    <3> HIDE DEF r
    <3> QED
      BY <2>1, <2>3, <3>1
  <2> QED
    BY <1>5, <2>2, <2>3 DEF Sinks
<1> QED
  BY <1>1, <1>3, <1>4, <1>5 DEF Formats

-----------------------------------------------------------------------------
(* The chunks of one event *)

\* A chunk that ends the stream of an upstream other than a chat one.
Closes(c, u) ==
    /\ IsChunk(c) /\ c.choices = TRUE /\ c.error = FALSE /\ c.finish # None
    /\ pair[2] = "anthropic" => IsErrorFinish(c.finish) \/ (c.usage = TRUE /\ u = TRUE)

LEMMA ChunksAreGiven ==
    ASSUME pair \in Pairs, NEW s, IsState(s), Plain(s.out), ~ s.fatal, ~ s.terminalSent, NEW u,
           NEW chunks, IsList(chunks), NEW last \in Nat,
           \A i \in 1..Len(chunks) : i # last => Quiet(chunks[i]),
           last \in 1..Len(chunks) => last = Len(chunks) /\ ~ cumulative /\ Closes(chunks[last], u)
    PROVE  LET t == FoldLeft(ToClient, s, chunks)
           IN IF last \in 1..Len(chunks) THEN IsState(t) /\ Over(t.out, u) ELSE Sinks(s, u, t)
<1> DEFINE how == <<"chunk", u, last>>
           E(iter) == iter = [S \in SUBSET DOMAIN chunks |->
                                IF S = {} THEN s ELSE ToClient(iter[S \ {Max(S)}], chunks[Max(S)])]
<1>0. Len(chunks) \in Nat /\ DOMAIN chunks = 1..Len(chunks) /\ DOMAIN chunks \in SUBSET (0..Len(chunks))
  BY DEF IsList
<1>1. \A iter : E(iter) <=> Iterates(iter, how, s, DOMAIN chunks, chunks)
  BY DEF Iterates, Step
<1>2. \E iter : E(iter)
  BY <1>0, <1>1, IteratesExist
<1>3. E(CHOOSE iter : E(iter))
  BY <1>2, Zenon
<1>4. \A S, t : Keeps(how, s, S, t) <=> IF last \in S THEN IsState(t) /\ Over(t.out, u) ELSE Sinks(s, u, t)
  BY DEF Keeps
<1>5. Keeps(how, s, {}, s)
  BY <1>4 DEF Sinks, Like
<1>6. ASSUME NEW S \in SUBSET DOMAIN chunks, NEW x \in DOMAIN chunks, NEW t,
             \A i \in S : i < x, Keeps(how, s, S, t)
      PROVE  Keeps(how, s, S \cup {x}, Step(how, t, chunks[x]))
  <2>1. Step(how, t, chunks[x]) = ToClient(t, chunks[x])
    BY DEF Step
  <2>2. x \in 1..Len(chunks)
    BY <1>0
  <2>3. last \notin S
    <3>1. SUFFICES ASSUME last \in S PROVE FALSE
      OBVIOUS
    <3>2. last \in 1..Len(chunks) /\ last < x
      BY <1>0, <1>6, <3>1
    <3>3. last = Len(chunks)
      BY <3>2
    <3>5. Len(chunks) \in Nat
      BY <1>0
    <3>4. x <= Len(chunks) /\ x \in Nat
      BY <2>2, <3>5
    <3> QED
      BY <3>2, <3>3, <3>4, <3>5
  <2>4. Sinks(s, u, t)
    BY <1>4, <1>6, <2>3
  <2>5. CASE x = last
    <3>1. ~ cumulative /\ Closes(chunks[x], u)
      BY <2>2, <2>5
    <3>2. IsState(ToClient(t, chunks[x])) /\ Over(ToClient(t, chunks[x]).out, u)
      BY <2>4, <3>1, LastChunk DEF Closes
    <3>3. last \in S \cup {x}
      BY <2>5
    <3> HIDE DEF how
    <3> QED
      BY <1>4, <2>1, <3>2, <3>3
  <2>6. CASE x # last
    <3>1. Quiet(chunks[x])
      BY <2>2, <2>6
    <3>2. Sinks(s, u, ToClient(t, chunks[x]))
      BY <2>4, <3>1, QuietChunks
    <3>3. last \notin S \cup {x}
      BY <2>3, <2>6
    <3> HIDE DEF how
    <3> QED
      BY <1>4, <2>1, <3>2, <3>3
  <2> QED
    BY <2>5, <2>6
<1>7. Keeps(how, s, DOMAIN chunks, (CHOOSE iter : E(iter))[DOMAIN chunks])
  <2> HIDE DEF how, E
  <2> QED
    BY <1>0, <1>1, <1>3, <1>5, <1>6, IterationKeeps
<1>8. FoldLeft(ToClient, s, chunks) = (CHOOSE iter : E(iter))[DOMAIN chunks]
  BY DEF FoldLeft, MapThenFoldSet
<1> HIDE DEF E, how
<1> QED
  BY <1>0, <1>4, <1>7, <1>8

LEMMA NoChunks ==
    ASSUME NEW s
    PROVE  FoldLeft(ToClient, s, <<>>) = s
<1> DEFINE E(iter) == iter = [S \in SUBSET DOMAIN <<>> |->
                                IF S = {} THEN s ELSE ToClient(iter[S \ {Max(S)}], <<>>[Max(S)])]
<1>0. DOMAIN <<>> = {} /\ DOMAIN <<>> \in SUBSET (0..0)
  OBVIOUS
<1>1. \A iter : E(iter) <=> Iterates(iter, <<"chunk">>, s, DOMAIN <<>>, <<>>)
  BY DEF Iterates, Step
<1>2. \E iter : E(iter)
  <2>1. \E iter : Iterates(iter, <<"chunk">>, s, {}, <<>>)
    BY {} \in SUBSET (0..0), IteratesExist
  <2> HIDE DEF E
  <2> QED
    BY <1>0, <1>1, <2>1
<1>3. E(CHOOSE iter : E(iter))
  BY <1>2, Zenon
<1>4. FoldLeft(ToClient, s, <<>>) = (CHOOSE iter : E(iter))[DOMAIN <<>>]
  BY DEF FoldLeft, MapThenFoldSet
<1>5. \A iter : E(iter) => iter[DOMAIN <<>>] = s
  BY <1>0
<1> HIDE DEF E
<1> QED
  BY <1>3, <1>4, <1>5

LEMMA OneChunk ==
    ASSUME NEW s, NEW c
    PROVE  FoldLeft(ToClient, s, <<c>>) = ToClient(s, c)
<1> DEFINE E(iter) == iter = [S \in SUBSET DOMAIN <<c>> |->
                                IF S = {} THEN s ELSE ToClient(iter[S \ {Max(S)}], <<c>>[Max(S)])]
<1>0. DOMAIN <<c>> = {1} /\ DOMAIN <<c>> \in SUBSET (0..1) /\ 1 \in DOMAIN <<c>> /\ <<c>>[1] = c
  OBVIOUS
<1>1. \A iter : E(iter) <=> Iterates(iter, <<"chunk">>, s, DOMAIN <<c>>, <<c>>)
  BY DEF Iterates, Step
<1>2. \E iter : E(iter)
  BY <1>0, <1>1, IteratesExist
<1>3. E(CHOOSE iter : E(iter))
  BY <1>2, Zenon
<1>4. FoldLeft(ToClient, s, <<c>>) = (CHOOSE iter : E(iter))[DOMAIN <<c>>]
  BY DEF FoldLeft, MapThenFoldSet
<1>5. Max(DOMAIN <<c>>) = 1 /\ DOMAIN <<c>> \ {1} = {} /\ DOMAIN <<c>> # {}
  BY <1>0, Greatest
<1>6. ASSUME NEW iter, E(iter) PROVE iter[DOMAIN <<c>>] = ToClient(s, c)
  <2>1. iter[{}] = s
    BY <1>6
  <2>2. iter[DOMAIN <<c>>] = ToClient(iter[{}], c)
    BY <1>0, <1>5, <1>6
  <2> QED
    BY <2>1, <2>2
<1> HIDE DEF E
<1> QED
  BY <1>3, <1>4, <1>6

\* A refused stream ends with one error.
LEMMA Refusing ==
    ASSUME pair \in Pairs, NEW s, IsState(s), Plain(s.out), ~ s.terminalSent, NEW u
    PROVE  LET t == FoldLeft(ToClient, Rejected(s).state, Rejected(s).chunks)
           IN IsState(t) /\ t.fatal /\ Over(t.out, u)
<1> DEFINE r == Rejected(s).state
           c == [EmptyChunk EXCEPT !.finish = "error", !.error = TRUE, !.usage = s.usage]
           t == ToClient(r, c)
<1>1. Rejected(s).chunks = <<c>>
  BY DEF Rejected
<1>2. IsState(r) /\ Plain(r.out) /\ r.fatal = TRUE /\ ~ r.terminalSent
  <2>1. Tracked \subseteq DOMAIN s
    BY DEF IsState
  <2>2. r = [s EXCEPT !.fatal = TRUE, !.finish = "error", !.finishSent = TRUE]
    BY DEF Rejected
  <2>3. DOMAIN r = DOMAIN s /\ r.fatal = TRUE /\ \A f \in Tracked \ {"fatal", "finish", "finishSent"} : r[f] = s[f]
    BY <2>1, <2>2 DEF Tracked
  <2> HIDE DEF r
  <2> QED
    BY <2>1, <2>3 DEF IsState, Tracked
<1>3. /\ IsChunk(c) /\ c.choices = TRUE /\ c.error = TRUE /\ c.finish = "error"
      /\ c.finish # None /\ c.finish \in FailingFinishes /\ IsErrorFinish(c.finish)
  BY NoneAssumption DEF IsChunk, IsList, EmptyChunk, FailingFinishes, IsErrorFinish
<1>4. pair[2] \in Formats
  BY PairsAssumption
<1> HIDE DEF r, c
<1>5. CASE pair[2] = "chat"
  <2>1. t = Send(r, [type |-> "chunk", chunk |-> c])
    BY <1>5 DEF ToClient
  <2>2. IsState(t) /\ Same(r, t) /\ Over(t.out, u)
    BY <1>2, <1>3, <2>1, ChunksAreSent
  <2> HIDE DEF t
  <2>3. IsState(t) /\ t.fatal /\ Over(t.out, u)
    BY <1>2, <2>2 DEF Same
  <2> QED
    BY <1>1, <2>3, OneChunk DEF r, t
<1>6. CASE pair[2] = "anthropic"
  <2>1. t = AnthropicSink(r, c)
    BY <1>6 DEF ToClient
  <2>2. IsState(t) /\ t.fatal /\ Over(t.out, u)
    BY <1>2, <1>3, <2>1, AnthropicEnds
  <2> QED
    BY <1>1, <2>2, OneChunk DEF r, t
<1>7. CASE pair[2] = "responses"
  <2>1. t = ResponsesSink(r, c, cumulative)
    BY <1>7 DEF ToClient
  <2>2. OrElse(c.finish, r.finish) # None
    BY <1>3 DEF OrElse
  <2>3. IsOver(r, t, u)
    BY <1>2, <1>3, <2>1, <2>2, ResponsesGoOn
  <2> HIDE DEF t
  <2>4. IsState(t) /\ t.fatal /\ Over(t.out, u)
    BY <1>2, <2>3 DEF IsOver
  <2> QED
    BY <1>1, <2>4, OneChunk DEF r, t
<1> QED
  BY <1>4, <1>5, <1>6, <1>7 DEF Formats

LEMMA OverThenDone ==
    ASSUME NEW l, IsList(l), NEW u, Over(l, u)
    PROVE  Over(Append(l, [type |-> "done"]), u)
<1> DEFINE e == [type |-> "done"]
           k == Append(l, e)
<1>1. IsList(k) /\ Len(k) = Len(l) + 1 /\ (\A i \in 1..Len(l) : k[i] = l[i]) /\ k[Len(l) + 1] = e
  BY Appending
<1>2. ~ IsEnd(e) /\ e.type = "done" /\ e.type # "message_delta"
  BY DEF IsEnd, Terminals
<1>3. Len(l) \in Nat
  BY DEF IsList
<1> HIDE DEF k, e
<1>4. \A i \in 1..Len(k) : i \in 1..Len(l) \/ i = Len(l) + 1
  BY <1>1, <1>3
<1>5. \E i \in 1..Len(k) : IsEnd(k[i])
  <2>1. PICK i \in 1..Len(l) : IsEnd(l[i])
    BY DEF Over
  <2>2. i \in 1..Len(k) /\ k[i] = l[i]
    BY <1>1, <1>3
  <2> QED
    BY <2>1, <2>2
<1>6. ASSUME NEW i \in 1..Len(k), NEW j \in 1..Len(k), i < j, IsEnd(k[i]) PROVE k[j].type = "done"
  <2>1. i \in 1..Len(l) /\ k[i] = l[i]
    BY <1>1, <1>2, <1>4, <1>6
  <2>2. CASE j \in 1..Len(l)
    BY <1>1, <1>6, <2>1, <2>2 DEF Over
  <2>3. CASE j = Len(l) + 1
    BY <1>1, <1>2, <2>3
  <2> QED
    BY <1>4, <2>2, <2>3
<1>7. ASSUME NEW i \in 1..Len(k), k[i].type = "message_delta" PROVE k[i].usage = u
  <2>1. i \in 1..Len(l) /\ k[i] = l[i]
    BY <1>1, <1>2, <1>4, <1>7
  <2> QED
    BY <1>7, <2>1 DEF Over
<1>8. Over(k, u)
  BY <1>5, <1>6, <1>7 DEF Over
<1> QED
  BY <1>8 DEF k, e

\* An upstream's error is told each client in its way.
LEMMA ErrorsEnd ==
    ASSUME pair \in Pairs, NEW s, IsState(s), Plain(s.out), NEW u
    PROVE  IsState(ErrorToClient(s)) /\ Over(ErrorToClient(s).out, u)
<1>1. pair[2] \in Formats
  BY PairsAssumption
<1>2. CASE pair[2] = "chat"
  <2> DEFINE c == [EmptyChunk EXCEPT !.finish = "error", !.error = TRUE]
             sent == Send(s, [type |-> "chunk", chunk |-> c])
             e == [type |-> "done"]
  <2>1. ErrorToClient(s) = Send(sent, e)
    BY <1>2 DEF ErrorToClient
  <2>2. c.finish # None
    BY NoneAssumption DEF EmptyChunk
  <2> HIDE DEF c
  <2>3. IsState(sent) /\ Over(sent.out, u)
    BY <2>2, ChunksAreSent
  <2> HIDE DEF sent
  <2>4. IsList(sent.out)
    BY <2>3 DEF IsState
  <2>5. Over(Append(sent.out, e), u)
    BY <2>3, <2>4, OverThenDone
  <2> HIDE DEF e
  <2>6. IsState(Send(sent, e)) /\ Send(sent, e).out = Append(sent.out, e)
    BY <2>3, Sending
  <2> QED
    BY <2>1, <2>5, <2>6
<1>3. CASE pair[2] = "anthropic"
  <2>1. ErrorToClient(s) = Send(s, ErrorEvent)
    BY <1>3 DEF ErrorToClient
  <2>2. IsEnd(ErrorEvent) /\ ErrorEvent.type # "message_delta"
    BY DEF IsEnd, ErrorEvent
  <2> QED
    BY <2>1, <2>2, SendingAnEnd
<1>4. CASE pair[2] = "responses"
  <2> DEFINE t == [s EXCEPT !.fatal = TRUE, !.terminalSent = TRUE]
             e == [type |-> "failed", output |-> <<>>]
  <2>1. ErrorToClient(s) = Send(t, e)
    BY <1>4 DEF ErrorToClient, FailResponses
  <2>2. IsEnd(e) /\ e.type # "message_delta"
    BY DEF IsEnd, Terminals
  <2> HIDE DEF e
  <2>3. IsState(t) /\ Plain(t.out)
    <3>1. Tracked \subseteq DOMAIN s
      BY DEF IsState
    <3>2. DOMAIN t = DOMAIN s /\ \A f \in Tracked \ {"fatal", "terminalSent"} : t[f] = s[f]
      BY <3>1 DEF Tracked
    <3> HIDE DEF t
    <3> QED
      BY <3>1, <3>2 DEF IsState, Tracked
  <2> HIDE DEF t
  <2> QED
    BY <2>1, <2>2, <2>3, SendingAnEnd
<1> QED
  BY <1>1, <1>2, <1>3, <1>4 DEF Formats

-----------------------------------------------------------------------------
(* What a source adds *)

LEMMA QuietlyOn ==
    ASSUME NEW s, NEW t, NEW r, Quietly(s, t), Quietly(t, r)
    PROVE  Quietly(s, r)
BY DEF Quietly, Like

\* A source's field that nothing here is said about.
LEMMA QuietSetting ==
    ASSUME NEW s, IsState(s), NEW f, f \notin Tracked, NEW v
    PROVE  Quietly(s, [s EXCEPT ![f] = v])
<1>1. IsState([s EXCEPT ![f] = v]) /\ Same(s, [s EXCEPT ![f] = v]) /\ [s EXCEPT ![f] = v].out = s.out
  BY Setting
<1> QED
  BY <1>1 DEF Quietly, Same, Like

LEMMA QuietUses ==
    ASSUME NEW s, IsState(s), NEW uses, Bounded(DOMAIN uses), \A i \in DOMAIN uses : uses[i].index \in Nat
    PROVE  Quietly(s, [s EXCEPT !["claudeToolUses"] = uses])
<1> DEFINE t == [s EXCEPT !["claudeToolUses"] = uses]
<1>1. Tracked \subseteq DOMAIN s
  BY DEF IsState
<1>2. DOMAIN t = DOMAIN s /\ t.claudeToolUses = uses /\ \A g \in Tracked \ {"claudeToolUses"} : t[g] = s[g]
  BY <1>1 DEF Tracked
<1> HIDE DEF t
<1>3. Quietly(s, t)
  BY <1>1, <1>2 DEF IsState, Quietly, Like, Tracked
<1> QED
  BY <1>3 DEF t

LEMMA QuietCalls ==
    ASSUME NEW s, IsState(s), NEW calls, Bounded(DOMAIN calls)
    PROVE  Quietly(s, [s EXCEPT !["toolCalls"] = calls])
<1> DEFINE t == [s EXCEPT !["toolCalls"] = calls]
<1>1. Tracked \subseteq DOMAIN s
  BY DEF IsState
<1>2. DOMAIN t = DOMAIN s /\ t.toolCalls = calls /\ \A g \in Tracked \ {"toolCalls"} : t[g] = s[g]
  BY <1>1 DEF Tracked
<1> HIDE DEF t
<1>3. Quietly(s, t)
  BY <1>1, <1>2 DEF IsState, Quietly, Like, Tracked
<1> QED
  BY <1>3 DEF t

\* The numbers of the calls and of the tool uses.
LEMMA QuietCounting ==
    ASSUME NEW s, IsState(s), NEW f \in {"toolCallIndex", "claudeToolUseIndex"}, NEW n \in Nat
    PROVE  Quietly(s, [s EXCEPT ![f] = n])
<1> DEFINE t == [s EXCEPT ![f] = n]
<1>1. Tracked \subseteq DOMAIN s
  BY DEF IsState
<1>2. DOMAIN t = DOMAIN s /\ t[f] = n /\ \A g \in Tracked \ {f} : t[g] = s[g]
  BY <1>1 DEF Tracked
<1> HIDE DEF t
<1>3. Quietly(s, t)
  BY <1>1, <1>2 DEF IsState, Quietly, Like, Tracked
<1> QED
  BY <1>3 DEF t

LEMMA ReadingNothing ==
    ASSUME NEW s, NEW t, Quietly(s, t)
    PROVE  Reads(From(s), From(t))
BY DEF Reads, From, IsList

\* A quiet chunk more, and a state changed quietly.
LEMMA Giving ==
    ASSUME NEW r, NEW q, Reads(r, q), NEW c, Quiet(c)
    PROVE  /\ Reads(r, Give(q, c)) /\ Give(q, c).state = q.state
           /\ Give(q, c).chunks = Append(q.chunks, c)
<1> DEFINE g == Give(q, c)
<1>1. g.state = q.state /\ g.chunks = Append(q.chunks, c) /\ {"state", "chunks"} \subseteq DOMAIN g
  BY DEF Reads, Give
<1> HIDE DEF g
<1>2. IsList(q.chunks) /\ Len(q.chunks) \in Nat
  BY DEF Reads, IsList
<1>3. IsList(g.chunks)
  BY <1>1, <1>2, Appending
<1>4. ASSUME NEW i \in 1..Len(g.chunks) PROVE Quiet(g.chunks[i])
  <2>1. i \in 1..Len(q.chunks) \/ i = Len(q.chunks) + 1
    BY <1>1, <1>2, Appending
  <2> QED
    BY <1>1, <1>2, <2>1, Appending DEF Reads
<1>5. Reads(r, g)
  BY <1>1, <1>3, <1>4 DEF Reads
<1> QED
  BY <1>1, <1>5 DEF g

LEMMA Reading ==
    ASSUME NEW r, NEW q, Reads(r, q), NEW s, Quietly(q.state, s)
    PROVE  /\ Reads(r, [q EXCEPT !["state"] = s])
           /\ [q EXCEPT !["state"] = s].state = s /\ [q EXCEPT !["state"] = s].chunks = q.chunks
<1> DEFINE g == [q EXCEPT !["state"] = s]
<1>1. g.state = s /\ g.chunks = q.chunks /\ {"state", "chunks"} \subseteq DOMAIN g
  BY DEF Reads
<1>2. Quietly(r.state, s)
  BY QuietlyOn DEF Reads
<1> HIDE DEF g
<1>3. Reads(r, g)
  BY <1>1, <1>2 DEF Reads
<1> QED
  BY <1>1, <1>3 DEF g

LEMMA GivingRole ==
    ASSUME NEW r, NEW q, Reads(r, q)
    PROVE  Reads(r, GiveRole(q)) /\ Quietly(q.state, GiveRole(q).state)
<1> DEFINE c == [EmptyChunk EXCEPT !.role = TRUE]
           g == Give(q, c)
           s == [g.state EXCEPT !["roleSent"] = TRUE]
           t == [g EXCEPT !["state"] = s]
<1>1. GiveRole(q) = IF q.state.roleSent THEN q ELSE t
  BY DEF GiveRole
<1>2. Quiet(c)
  BY DEF Quiet, IsChunk, IsList, EmptyChunk
<1> HIDE DEF c
<1>3. Reads(r, g) /\ g.state = q.state
  BY <1>2, Giving
<1> HIDE DEF g
<1>4. "roleSent" \notin Tracked /\ IsState(g.state)
  BY <1>3 DEF Tracked, Reads, Quietly
<1>5. Quietly(g.state, s)
  BY <1>4, QuietSetting
<1> HIDE DEF s
<1>6. Reads(r, t) /\ t.state = s
  BY <1>3, <1>5, Reading
<1>7. Quietly(q.state, q.state)
  BY DEF Reads, Quietly, Like
<1> HIDE DEF t
<1> QED
  BY <1>1, <1>3, <1>5, <1>6, <1>7

-----------------------------------------------------------------------------
(* The source of an Anthropic upstream *)

\* A tool use's fields other than its index.
LEMMA UsesChange ==
    ASSUME NEW s, IsState(s), NEW i, NEW use,
           i \in DOMAIN s.claudeToolUses => use.index = s.claudeToolUses[i].index
    PROVE  Quietly(s, [s EXCEPT !["claudeToolUses"] = [@ EXCEPT ![i] = use]])
<1> DEFINE uses == [s.claudeToolUses EXCEPT ![i] = use]
<1>1. Bounded(DOMAIN uses)
  BY DEF IsState
<1>2. \A j \in DOMAIN uses : uses[j].index \in Nat
  BY DEF IsState
<1> HIDE DEF uses
<1>3. Quietly(s, [s EXCEPT !["claudeToolUses"] = uses])
  BY <1>1, <1>2, QuietUses
<1> QED
  BY <1>3 DEF uses

LEMMA Flagging ==
    ASSUME NEW r, NEW q, Reads(r, q), NEW i
    PROVE  /\ Reads(r, [q EXCEPT !.state.claudeToolUses[i].finalized = TRUE])
           /\ Reads(r, [q EXCEPT !.state.claudeToolUses[i].emitted = TRUE])
<1> DEFINE use == q.state.claudeToolUses[i]
           final == [use EXCEPT !.finalized = TRUE]
           emitted == [use EXCEPT !.emitted = TRUE]
           s == [q.state EXCEPT !["claudeToolUses"] = [@ EXCEPT ![i] = final]]
           t == [q.state EXCEPT !["claudeToolUses"] = [@ EXCEPT ![i] = emitted]]
<1>1. IsState(q.state)
  BY DEF Reads, Quietly
<1>2. final.index = use.index /\ emitted.index = use.index
  OBVIOUS
<1>3. [q EXCEPT !.state.claudeToolUses[i].finalized = TRUE] = [q EXCEPT !["state"] = s]
  OBVIOUS
<1>4. [q EXCEPT !.state.claudeToolUses[i].emitted = TRUE] = [q EXCEPT !["state"] = t]
  OBVIOUS
<1> HIDE DEF final, emitted
<1>5. Quietly(q.state, s) /\ Quietly(q.state, t)
  BY <1>1, <1>2, UsesChange
<1> HIDE DEF s, t
<1>6. Reads(r, [q EXCEPT !["state"] = s]) /\ Reads(r, [q EXCEPT !["state"] = t])
  BY <1>5, Reading
<1> QED
  BY <1>3, <1>4, <1>6

LEMMA ToolUsesAreFinal ==
    ASSUME NEW r, NEW q, Reads(r, q), NEW index
    PROVE  Reads(r, FinalizeToolUse(q, index))
<1> DEFINE tool == q.state.claudeToolUses[index]
           args == IF tool.zeroArg /\ tool.args = <<>> THEN <<"{", "}">> ELSE tool.args
           given == GiveRole(q)
           called == [EmptyChunk EXCEPT !.calls = <<CallDelta(tool.index, tool.id, tool.name, "function", args)>>]
           cut == [EmptyChunk EXCEPT !.content = DegradedText]
           told == Give(given, called)
           noted == Give(given, cut)
           whole == [told EXCEPT !.state.claudeToolUses[index].finalized = TRUE,
                                 !.state.claudeToolUses[index].emitted = TRUE]
           broken == [noted EXCEPT !.state.claudeToolUses[index].finalized = TRUE]
<1>1. FinalizeToolUse(q, index) =
        IF index \notin DOMAIN q.state.claudeToolUses THEN q
        ELSE IF tool.finalized THEN q
        ELSE IF IsObject(args) THEN whole ELSE broken
  BY DEF FinalizeToolUse
<1>2. CASE index \notin DOMAIN q.state.claudeToolUses
  BY <1>1, <1>2
<1>3. CASE index \in DOMAIN q.state.claudeToolUses
  <2>1. tool.index \in Nat
    BY <1>3 DEF Reads, Quietly, IsState
  <2>2. Quiet(called)
    <3> HIDE DEF tool, args
    <3>1. called.calls = <<CallDelta(tool.index, tool.id, tool.name, "function", args)>>
      BY DEF EmptyChunk
    <3>2. IsChunk(called)
      BY <2>1, <3>1 DEF IsChunk, IsList, CallDelta
    <3> QED
      BY <3>2 DEF Quiet, EmptyChunk
  <2>3. Quiet(cut)
    BY DEF Quiet, IsChunk, IsList, EmptyChunk
  <2>4. Reads(r, given)
    BY GivingRole
  <2> HIDE DEF called, cut, given, tool, args
  <2>5. Reads(r, told) /\ Reads(r, noted)
    BY <2>2, <2>3, <2>4, Giving
  <2> HIDE DEF told, noted
  <2>6. Reads(r, broken)
    BY <2>5, Flagging
  <2>7. Reads(r, whole)
    <3> DEFINE first == [told EXCEPT !.state.claudeToolUses[index].finalized = TRUE]
               both == [first EXCEPT !.state.claudeToolUses[index].emitted = TRUE]
    <3>1. whole = both
      OBVIOUS
    <3> HIDE DEF whole
    <3>2. Reads(r, first)
      BY <2>5, Flagging
    <3> HIDE DEF first
    <3>3. Reads(r, both)
      BY <3>2, Flagging
    <3> QED
      BY <3>1, <3>3
  <2> HIDE DEF whole, broken
  <2> QED
    BY <1>1, <1>3, <2>6, <2>7
<1> QED
  BY <1>2, <1>3

LEMMA FinalizingAll ==
    ASSUME NEW s, IsState(s)
    PROVE  Reads(From(s), OverKeys(FinalizeToolUse, From(s), s.claudeToolUses))
<1> DEFINE how == <<"tool use">>
           r == From(s)
           keys == DOMAIN s.claudeToolUses
           at == [i \in keys |-> i]
           E(iter) == iter = [S \in SUBSET keys |->
                                IF S = {} THEN r ELSE FinalizeToolUse(iter[S \ {Max(S)}], Max(S))]
<1>0. PICK n \in Nat : keys \in SUBSET (0..n)
  BY DEF IsState, Bounded
<1>1. \A iter : E(iter) <=> Iterates(iter, how, r, keys, at)
  <2>1. ASSUME NEW S \in SUBSET keys, S # {} PROVE at[Max(S)] = Max(S)
    BY <1>0, <2>1, Greatest
  <2>2. ASSUME NEW t, NEW x PROVE Step(how, t, x) = FinalizeToolUse(t, x)
    BY DEF Step
  <2> HIDE DEF keys, at, how, r
  <2>3. ASSUME NEW iter, NEW S \in SUBSET keys
        PROVE  (IF S = {} THEN r ELSE FinalizeToolUse(iter[S \ {Max(S)}], Max(S)))
                = (IF S = {} THEN r ELSE Step(how, iter[S \ {Max(S)}], at[Max(S)]))
    BY <2>1, <2>2
  <2>4. ASSUME NEW iter
        PROVE  [S \in SUBSET keys |-> IF S = {} THEN r ELSE FinalizeToolUse(iter[S \ {Max(S)}], Max(S))]
                = [S \in SUBSET keys |-> IF S = {} THEN r ELSE Step(how, iter[S \ {Max(S)}], at[Max(S)])]
    BY <2>3
  <2> QED
    BY <2>4 DEF Iterates
<1>2. \E iter : E(iter)
  <2> HIDE DEF r
  <2> QED
    BY <1>0, <1>1, IteratesExist
<1>3. E(CHOOSE iter : E(iter))
  BY <1>2, Zenon
<1>4. \A S, t : Keeps(how, r, S, t) <=> Reads(r, t)
  BY DEF Keeps
<1>5. Keeps(how, r, {}, r)
  <2>1. Quietly(s, s)
    BY DEF Quietly, Like
  <2>2. Reads(r, r)
    BY <2>1, ReadingNothing
  <2> HIDE DEF r, how
  <2> QED
    BY <1>4, <2>2
<1>6. ASSUME NEW S \in SUBSET keys, NEW x \in keys, NEW t, Keeps(how, r, S, t)
      PROVE  Keeps(how, r, S \cup {x}, Step(how, t, at[x]))
  <2>1. Step(how, t, at[x]) = FinalizeToolUse(t, x)
    BY DEF Step
  <2> HIDE DEF how, at, r
  <2>2. Reads(r, t)
    BY <1>4, <1>6
  <2>3. Reads(r, FinalizeToolUse(t, x))
    BY <2>2, ToolUsesAreFinal
  <2> QED
    BY <1>4, <2>1, <2>3
<1>7. Keeps(how, r, keys, (CHOOSE iter : E(iter))[keys])
  <2> HIDE DEF how, E, keys, at, r
  <2> QED
    BY <1>0, <1>1, <1>3, <1>5, <1>6, IterationKeeps
<1>8. OverKeys(FinalizeToolUse, r, s.claudeToolUses) = (CHOOSE iter : E(iter))[keys]
  BY DEF OverKeys, MapThenFoldSet
<1>9. Reads(r, (CHOOSE iter : E(iter))[keys])
  <2> HIDE DEF E, how, keys, r
  <2> QED
    BY <1>4, <1>7
<1> QED
  BY <1>8, <1>9

LEMMA MessageStartIsRead ==
    ASSUME NEW s, IsState(s)
    PROVE  Reads(From(s), GiveRole(From([s EXCEPT !.claudeBlocks = NoBlocks,
                                                  !.claudeToolUses = NoBlocks,
                                                  !.claudeToolUseIndex = 0])))
<1> DEFINE a == [s EXCEPT !["claudeBlocks"] = NoBlocks]
           b == [a EXCEPT !["claudeToolUses"] = NoBlocks]
           c == [b EXCEPT !["claudeToolUseIndex"] = 0]
           all == [s EXCEPT !.claudeBlocks = NoBlocks, !.claudeToolUses = NoBlocks, !.claudeToolUseIndex = 0]
<1>1. all = c
  OBVIOUS
<1> HIDE DEF all
<1>2. Quietly(s, a)
  BY QuietSetting DEF Tracked
<1> HIDE DEF a
<1>3. Quietly(a, b)
  <2>1. DOMAIN NoBlocks = {} /\ Bounded(DOMAIN NoBlocks)
    BY DEF NoBlocks, Bounded
  <2> QED
    BY <1>2, <2>1, QuietUses DEF Quietly
<1> HIDE DEF b
<1>4. Quietly(b, c)
  BY <1>3, QuietCounting DEF Quietly
<1> HIDE DEF c
<1>5. Quietly(s, all)
  BY <1>1, <1>2, <1>3, <1>4, QuietlyOn
<1>6. Reads(From(s), From(all))
  BY <1>5, ReadingNothing
<1>7. Reads(From(s), GiveRole(From(all)))
  BY <1>6, GivingRole
<1> QED
  BY <1>7 DEF all

LEMMA BlockStartIsRead ==
    ASSUME NEW s, IsState(s), NEW event, event.index \in Nat
    PROVE  BlockStarted(s, event) = Rejected(s) \/ Reads(From(s), BlockStarted(s, event))
<1> DEFINE known == [s EXCEPT !["claudeBlocks"] = With(@, event.index, event.kind)]
           tool == [index |-> s.claudeToolUseIndex, id |-> event.id, name |-> event.name, args |-> event.input,
                    zeroArg |-> event.input = <<>>, seeded |-> event.input # <<>>,
                    emitted |-> FALSE, finalized |-> FALSE]
           uses == With(known.claudeToolUses, event.index, tool)
           using == [known EXCEPT !["claudeToolUses"] = uses]
           counted == [using EXCEPT !["claudeToolUseIndex"] = s.claudeToolUseIndex + 1]
<1>1. \/ BlockStarted(s, event) = Rejected(s)
      \/ BlockStarted(s, event) = From(known)
      \/ BlockStarted(s, event) = From(counted)
  <2> DEFINE both == [known EXCEPT !.claudeToolUses = With(@, event.index, tool), !.claudeToolUseIndex = @ + 1]
  <2>1. known.claudeToolUseIndex = s.claudeToolUseIndex
    OBVIOUS
  <2>2. both = counted
    <3> HIDE DEF known, tool
    <3> QED
      BY <2>1
  <2>3. BlockStarted(s, event) =
          CASE event.kind \in {"text", "thinking"} -> From(known)
            [] event.kind = "tool_use" -> From(both)
            [] OTHER -> Rejected(s)
    BY DEF BlockStarted
  <2> HIDE DEF known, both, counted
  <2> QED
    BY <2>2, <2>3
<1>2. Quietly(s, known)
  BY QuietSetting DEF Tracked
<1>3. tool.index \in Nat /\ s.claudeToolUseIndex \in Nat
  BY DEF IsState
<1> HIDE DEF known, tool
<1>4. Bounded(DOMAIN uses) /\ \A i \in DOMAIN uses : uses[i].index \in Nat
  <2>1. IsState(known)
    BY <1>2 DEF Quietly
  <2>2. Bounded(DOMAIN uses)
    BY <2>1, BoundedGrows DEF IsState
  <2>3. \A i \in DOMAIN uses : uses[i].index \in Nat
    BY <1>3, <2>1 DEF IsState, With
  <2> QED
    BY <2>2, <2>3
<1> HIDE DEF uses
<1>5. Quietly(known, using)
  BY <1>2, <1>4, QuietUses DEF Quietly
<1> HIDE DEF using
<1>6. Quietly(using, counted)
  <2>1. s.claudeToolUseIndex + 1 \in Nat
    BY <1>3
  <2> QED
    BY <1>5, <2>1, QuietCounting DEF Quietly
<1> HIDE DEF counted
<1>7. Reads(From(s), From(known)) /\ Reads(From(s), From(counted))
  BY <1>2, <1>5, <1>6, QuietlyOn, ReadingNothing
<1> QED
  BY <1>1, <1>7

\* A text of some kind, after the role.
LEMMA TextIsRead ==
    ASSUME NEW s, IsState(s), NEW c, Quiet(c)
    PROVE  Reads(From(s), From(s)) /\ Reads(From(s), Give(GiveRole(From(s)), c))
<1>1. Reads(From(s), From(s))
  <2>1. Quietly(s, s)
    BY DEF Quietly, Like
  <2> QED
    BY <2>1, ReadingNothing
<1>2. Reads(From(s), GiveRole(From(s)))
  BY <1>1, GivingRole
<1> QED
  BY <1>1, <1>2, Giving

LEMMA ArgumentsAreRead ==
    ASSUME NEW s, IsState(s), NEW event
    PROVE  Reads(From(s), ArgumentsDelta(s, event))
<1> DEFINE use == s.claudeToolUses[event.index]
           changed == Continued(use, event.args)
           t == [s EXCEPT !["claudeToolUses"] = [@ EXCEPT ![event.index] = changed]]
<1>1. ArgumentsDelta(s, event) = IF event.index \notin DOMAIN s.claudeToolUses THEN From(s) ELSE From(t)
  BY DEF ArgumentsDelta
<1>2. changed.index = use.index
  BY DEF Continued
<1> HIDE DEF changed
<1>3. Quietly(s, t)
  BY <1>2, UsesChange
<1>4. Quietly(s, s)
  BY DEF Quietly, Like
<1> HIDE DEF t
<1> QED
  BY <1>1, <1>3, <1>4, ReadingNothing

LEMMA BlockStopIsRead ==
    ASSUME NEW s, IsState(s), NEW event
    PROVE  Reads(From(s), BlockStopped(s, event))
<1> DEFINE final == FinalizeToolUse(From(s), event.index)
           t == [final.state EXCEPT !["claudeBlocks"] = Without(@, event.index)]
<1>1. BlockStopped(s, event) = [final EXCEPT !["state"] = t]
  BY DEF BlockStopped
<1>2. Reads(From(s), From(s))
  <2>1. Quietly(s, s)
    BY DEF Quietly, Like
  <2> QED
    BY <2>1, ReadingNothing
<1>3. Reads(From(s), final)
  BY <1>2, ToolUsesAreFinal
<1> HIDE DEF final
<1>4. Quietly(final.state, t)
  <2>1. IsState(final.state)
    BY <1>3 DEF Reads, Quietly
  <2> QED
    BY <2>1, QuietSetting DEF Tracked
<1> HIDE DEF t
<1>5. Reads(From(s), [final EXCEPT !["state"] = t])
  BY <1>3, <1>4, Reading
<1> QED
  BY <1>1, <1>5

\* The events before the upstream's last two.
LEMMA AnthropicEventIsRead ==
    ASSUME NEW s, IsState(s), ~ s.fatal, NEW event, event.type = "block_start" => event.index \in Nat,
           event.type \in {"message_start", "block_start", "text_delta", "thinking_delta",
                           "input_json_delta", "block_stop"}
    PROVE  AnthropicSource(s, event) = Rejected(s) \/ Reads(From(s), AnthropicSource(s, event))
<1>1. CASE event.type = "message_start"
  BY <1>1, MessageStartIsRead DEF AnthropicSource
<1>2. CASE event.type = "block_start"
  <2>1. AnthropicSource(s, event) = BlockStarted(s, event)
    BY <1>2 DEF AnthropicSource
  <2> QED
    BY <1>2, <2>1, BlockStartIsRead
<1>3. CASE event.type = "text_delta"
  <2> DEFINE c == [EmptyChunk EXCEPT !.content = event.text]
  <2>1. AnthropicSource(s, event) = IF event.text = <<>> THEN From(s) ELSE Give(GiveRole(From(s)), c)
    BY <1>3 DEF AnthropicSource, TextDeltaGiven
  <2>2. Quiet(c)
    BY DEF Quiet, IsChunk, IsList, EmptyChunk
  <2> HIDE DEF c
  <2> QED
    BY <2>1, <2>2, TextIsRead
<1>4. CASE event.type = "thinking_delta"
  <2> DEFINE c == [EmptyChunk EXCEPT !.reasoning = event.text]
  <2>1. AnthropicSource(s, event) =
            IF event.index \notin DOMAIN s.claudeBlocks \/ s.claudeBlocks[event.index] # "thinking"
            THEN Rejected(s)
            ELSE IF event.text = <<>> THEN From(s) ELSE Give(GiveRole(From(s)), c)
    BY <1>4 DEF AnthropicSource, ThinkingDelta
  <2>2. Quiet(c)
    BY DEF Quiet, IsChunk, IsList, EmptyChunk
  <2> HIDE DEF c
  <2> QED
    BY <2>1, <2>2, TextIsRead
<1>5. CASE event.type = "input_json_delta"
  <2>1. AnthropicSource(s, event) = ArgumentsDelta(s, event)
    BY <1>5 DEF AnthropicSource
  <2> QED
    BY <2>1, ArgumentsAreRead
<1>6. CASE event.type = "block_stop"
  <2>1. AnthropicSource(s, event) = BlockStopped(s, event)
    BY <1>6 DEF AnthropicSource
  <2> QED
    BY <2>1, BlockStopIsRead
<1> QED
  BY <1>1, <1>2, <1>3, <1>4, <1>5, <1>6

\* What a source makes of the upstream's end: quiet chunks, and the one that closes.
Concludes(s, q, u) ==
    /\ IsState(q.state) /\ q.state.out = s.out
    /\ q.state.fatal = s.fatal /\ q.state.terminalSent = s.terminalSent
    /\ IsList(q.chunks) /\ Len(q.chunks) # 0 /\ Closes(q.chunks[Len(q.chunks)], u)
    /\ \A i \in 1..Len(q.chunks) : i # Len(q.chunks) => Quiet(q.chunks[i])

LEMMA Concluding ==
    ASSUME NEW s, NEW q, Reads(From(s), q), NEW u, NEW c, Closes(c, u)
    PROVE  Concludes(s, [Give(q, c) EXCEPT !.state.finishSent = TRUE], u)
<1> DEFINE g == Give(q, c)
           ended == [g.state EXCEPT !.finishSent = TRUE]
           t == [g EXCEPT !.state.finishSent = TRUE]
<1>0. From(s).state = s
  BY DEF From
<1>1. g.state = q.state /\ g.chunks = Append(q.chunks, c) /\ {"state", "chunks"} \subseteq DOMAIN g
  BY DEF Reads, Give
<1>2. IsList(q.chunks) /\ Len(q.chunks) \in Nat
  BY DEF Reads, IsList
<1> HIDE DEF g
<1>3. t.state = ended /\ t.chunks = g.chunks
  BY <1>1
<1> HIDE DEF t
<1>4. IsState(ended) /\ ended.out = s.out /\ ended.fatal = s.fatal /\ ended.terminalSent = s.terminalSent
  <2>1. IsState(q.state) /\ Like(s, q.state) /\ q.state.out = s.out
    BY <1>0 DEF Reads, Quietly
  <2>2. Tracked \subseteq DOMAIN q.state
    BY <2>1 DEF IsState
  <2>3. DOMAIN ended = DOMAIN q.state /\ \A f \in Tracked \ {"finishSent"} : ended[f] = q.state[f]
    BY <1>1, <2>2 DEF Tracked
  <2> HIDE DEF ended
  <2>4. IsState(ended)
    BY <2>1, <2>2, <2>3 DEF IsState, Tracked
  <2> QED
    BY <2>1, <2>3, <2>4 DEF Like, Tracked
<1>5. IsList(t.chunks) /\ Len(t.chunks) = Len(q.chunks) + 1 /\ t.chunks[Len(t.chunks)] = c
  BY <1>1, <1>2, <1>3, Appending
<1>6. ASSUME NEW i \in 1..Len(t.chunks), i # Len(t.chunks) PROVE Quiet(t.chunks[i])
  <2>1. i \in 1..Len(q.chunks)
    BY <1>2, <1>5, <1>6
  <2>2. t.chunks[i] = q.chunks[i]
    BY <1>1, <1>2, <1>3, <2>1, Appending
  <2> QED
    BY <2>1, <2>2 DEF Reads
<1>7. Len(t.chunks) # 0
  BY <1>2, <1>5
<1>8. Concludes(s, t, u)
  BY <1>3, <1>4, <1>5, <1>6, <1>7 DEF Concludes
<1> QED
  BY <1>8 DEF t, g

\* The finish of an upstream's message is known, and waits for its end.
LEMMA FinishIsRead ==
    ASSUME NEW s, IsState(s), ~ s.fatal, NEW event, event.type = "message_delta"
    PROVE  \E t : /\ AnthropicSource(s, event) = From(t)
                  /\ IsState(t) /\ t.out = s.out /\ t.fatal = s.fatal
                  /\ t.terminalSent = s.terminalSent /\ t.finishSent = s.finishSent
<1> DEFINE t == [s EXCEPT !.finish = IF event.stop = None THEN @ ELSE FinishOf(event.stop), !.usage = @ \/ event.usage]
<1>1. AnthropicSource(s, event) = From(t)
  BY DEF AnthropicSource, MessageDeltaRead
<1>2. Tracked \subseteq DOMAIN s
  BY DEF IsState
<1>3. DOMAIN t = DOMAIN s /\ \A f \in Tracked \ {"finish", "usage"} : t[f] = s[f]
  BY <1>2 DEF Tracked
<1> HIDE DEF t
<1>4. IsState(t)
  BY <1>2, <1>3 DEF IsState, Tracked
<1>5. t.out = s.out /\ t.fatal = s.fatal /\ t.terminalSent = s.terminalSent /\ t.finishSent = s.finishSent
  BY <1>3 DEF Tracked
<1> QED
  BY <1>1, <1>4, <1>5

LEMMA StopIsRead ==
    ASSUME NEW s, IsState(s), ~ s.fatal, ~ s.finishSent, NEW event, event.type = "message_stop",
           NEW u, pair[2] # "anthropic"
    PROVE  Concludes(s, AnthropicSource(s, event), u)
<1> DEFINE final == OverKeys(FinalizeToolUse, From(s), s.claudeToolUses)
           uses == final.state.claudeToolUses
           hasCalls == \E i \in DOMAIN uses : uses[i].emitted
           finish == IF s.finish = None THEN IF hasCalls THEN "tool_calls" ELSE "stop"
                     ELSE IF s.finish = "tool_calls" /\ ~ hasCalls THEN "stop" ELSE s.finish
           c == [EmptyChunk EXCEPT !.finish = finish, !.usage = s.usage]
<1>1. AnthropicSource(s, event) = [Give(final, c) EXCEPT !.state.finishSent = TRUE]
  BY DEF AnthropicSource, MessageStopped
<1>2. Reads(From(s), final)
  BY FinalizingAll
<1> HIDE DEF final, hasCalls
<1>3. finish # None
  BY NoneAssumption
<1> HIDE DEF finish
<1>4. Closes(c, u)
  <2>1. c.calls = <<>> /\ c.choices = TRUE /\ c.error = FALSE /\ c.finish = finish
    BY DEF EmptyChunk
  <2>2. IsChunk(c)
    BY <2>1 DEF IsChunk, IsList
  <2> HIDE DEF c
  <2> QED
    BY <1>3, <2>1, <2>2 DEF Closes
<1> HIDE DEF c
<1>5. Concludes(s, [Give(final, c) EXCEPT !.state.finishSent = TRUE], u)
  BY <1>2, <1>4, Concluding
<1> QED
  BY <1>1, <1>5

-----------------------------------------------------------------------------
(* The source of a Responses upstream *)

\* A part of a call.
LEMMA CallDeltasAreQuiet ==
    ASSUME NEW index \in Nat, NEW id, NEW name, NEW type, NEW args
    PROVE  Quiet([EmptyChunk EXCEPT !.calls = <<CallDelta(index, id, name, type, args)>>])
<1> DEFINE delta == CallDelta(index, id, name, type, args)
           c == [EmptyChunk EXCEPT !.calls = <<delta>>]
<1>1. delta.index \in Nat
  BY DEF CallDelta
<1> HIDE DEF delta
<1>2. c.calls = <<delta>> /\ c.finish = None /\ c.error = FALSE /\ c.usage = FALSE
  BY DEF EmptyChunk
<1> HIDE DEF c
<1>3. Quiet(c)
  BY <1>1, <1>2 DEF Quiet, IsChunk, IsList
<1> QED
  BY <1>3 DEF c, delta

LEMMA CustomInputIsFinal ==
    ASSUME NEW r, NEW q, Reads(r, q), NEW index \in DOMAIN q.state.toolCalls, NEW input
    PROVE  Reads(r, FinalizeCustom(q, index, input))
<1> DEFINE call == q.state.toolCalls[index]
           final == Finalized(call, input)
           s == [q.state EXCEPT !["toolCalls"] = [@ EXCEPT ![index] = final]]
           changed == [q EXCEPT !["state"] = s]
           rest == SubSeq(final.args, Len(call.args) + 1, Len(final.args))
           c == [EmptyChunk EXCEPT !.calls = <<CallDelta(index, call.id, None, "function", rest)>>]
<1>1. FinalizeCustom(q, index, input) = IF call.customInput = None \/ call.customDone THEN q ELSE Give(changed, c)
  BY DEF FinalizeCustom, GiveCall
<1>2. IsState(q.state)
  BY DEF Reads, Quietly
<1>3. index \in Nat
  BY <1>2 DEF IsState, Bounded
<1>4. Quiet(c)
  BY <1>3, CallDeltasAreQuiet
<1> HIDE DEF c, final
<1>5. Quietly(q.state, s)
  <2> DEFINE calls == [q.state.toolCalls EXCEPT ![index] = final]
  <2>1. Bounded(DOMAIN calls)
    BY <1>2 DEF IsState
  <2>2. s = [q.state EXCEPT !["toolCalls"] = calls]
    OBVIOUS
  <2> HIDE DEF calls, s
  <2>3. Quietly(q.state, [q.state EXCEPT !["toolCalls"] = calls])
    BY <1>2, <2>1, QuietCalls
  <2> QED
    BY <2>2, <2>3
<1> HIDE DEF s
<1>6. Reads(r, changed)
  BY <1>5, Reading
<1> HIDE DEF changed
<1>7. Reads(r, Give(changed, c))
  BY <1>4, <1>6, Giving
<1> QED
  BY <1>1, <1>7

\* The index of the call that an event names is a number.
LEMMA CallIndexIsNat ==
    ASSUME NEW s, IsState(s), NEW event
    PROVE  CallIndex(s, event) \in Nat
<1> DEFINE byItem == {i \in DOMAIN s.toolCalls : event.item # None /\ s.toolCalls[i].itemId = event.item}
           byOutput == {i \in DOMAIN s.toolCalls : event.output # None /\ s.toolCalls[i].block = event.output}
<1>1. CallIndex(s, event) =
        IF byItem # {} THEN CHOOSE i \in byItem : TRUE
        ELSE IF byOutput # {} THEN CHOOSE i \in byOutput : TRUE
        ELSE IF s.toolCallIndex = 0 THEN 0 ELSE s.toolCallIndex - 1
  BY DEF CallIndex
<1>2. \A i \in DOMAIN s.toolCalls : i \in Nat
  BY DEF IsState, Bounded
<1>3. byItem \subseteq Nat /\ byOutput \subseteq Nat
  BY <1>2
<1> HIDE DEF byItem, byOutput
<1>4. byItem # {} => (CHOOSE i \in byItem : TRUE) \in Nat
  BY <1>3
<1>5. byOutput # {} => (CHOOSE i \in byOutput : TRUE) \in Nat
  BY <1>3
<1>6. (IF s.toolCallIndex = 0 THEN 0 ELSE s.toolCallIndex - 1) \in Nat
  BY DEF IsState
<1> QED
  BY <1>1, <1>4, <1>5, <1>6

LEMMA CallIsRead ==
    ASSUME NEW s, IsState(s), NEW event
    PROVE  Reads(From(s), CallAdded(s, event))
<1> DEFINE index == s.toolCallIndex
           args == IF event.kind = "custom" THEN WrapperStart \o event.args ELSE event.args
           call == [NewCall EXCEPT !.id = event.id, !.name = event.name, !.args = args,
                                   !.type = "function", !.itemId = event.item,
                                   !.block = event.output,
                                   !.customInput = IF event.kind = "custom" THEN event.args ELSE None]
           calls == With(s.toolCalls, index, call)
           known == [s EXCEPT !["toolCalls"] = calls]
           t == [known EXCEPT !["toolCallIndex"] = index + 1]
           c == [EmptyChunk EXCEPT !.calls = <<CallDelta(index, event.id, event.name, "function", args)>>]
<1>1. CallAdded(s, event) = Give(From(t), c)
  <2> DEFINE both == [s EXCEPT !.toolCalls = With(@, index, call), !.toolCallIndex = @ + 1]
  <2>1. CallAdded(s, event) = Give(From(both), c)
    BY DEF CallAdded, GiveCall
  <2>2. both = t
    <3> HIDE DEF call
    <3> QED
      OBVIOUS
  <2> HIDE DEF both, t, c
  <2> QED
    BY <2>1, <2>2
<1>2. index \in Nat
  BY DEF IsState
<1> HIDE DEF call, index, args
<1>3. Bounded(DOMAIN calls)
  BY <1>2, BoundedGrows DEF IsState
<1>4. Quiet(c)
  BY <1>2, CallDeltasAreQuiet
<1> HIDE DEF calls, c
<1>5. Quietly(s, known)
  BY <1>3, QuietCalls
<1> HIDE DEF known
<1>6. Quietly(known, t)
  <2>1. index + 1 \in Nat
    BY <1>2
  <2> QED
    BY <1>5, <2>1, QuietCounting DEF Quietly
<1> HIDE DEF t
<1>7. Reads(From(s), From(t))
  BY <1>5, <1>6, QuietlyOn, ReadingNothing
<1> QED
  BY <1>1, <1>4, <1>7, Giving

LEMMA CallArgumentsAreRead ==
    ASSUME NEW s, IsState(s), NEW event
    PROVE  Reads(From(s), CallArguments(s, event))
<1> DEFINE index == CallIndex(s, event)
           was == IF index \in DOMAIN s.toolCalls THEN s.toolCalls[index] ELSE NewCall
           call == [was EXCEPT !.type = IF @ = None THEN "function" ELSE @,
                               !.itemId = IF @ = None THEN event.item ELSE @,
                               !.block = IF @ = None THEN event.output ELSE @,
                               !.args = @ \o event.args,
                               !.customInput = IF event.type # "input_delta" THEN @
                                               ELSE IF @ = None THEN event.args ELSE @ \o event.args]
           t == [s EXCEPT !["toolCalls"] = With(s.toolCalls, index, call)]
           c == [EmptyChunk EXCEPT !.calls = <<CallDelta(index, None, None, "function", event.args)>>]
<1>1. CallArguments(s, event) = IF event.args = <<>> THEN From(s) ELSE Give(From(t), c)
  BY DEF CallArguments, GiveCall
<1>2. index \in Nat
  BY CallIndexIsNat
<1> HIDE DEF call, was, index
<1>3. Bounded(DOMAIN With(s.toolCalls, index, call))
  BY <1>2, BoundedGrows DEF IsState
<1>4. Quiet(c)
  BY <1>2, CallDeltasAreQuiet
<1> HIDE DEF c
<1>5. Quietly(s, t) /\ Quietly(s, s)
  BY <1>3, QuietCalls DEF Quietly, Like
<1> HIDE DEF t
<1>6. Reads(From(s), From(t)) /\ Reads(From(s), From(s))
  BY <1>5, ReadingNothing
<1>7. Reads(From(s), Give(From(t), c))
  BY <1>4, <1>6, Giving
<1> QED
  BY <1>1, <1>6, <1>7

LEMMA InputIsRead ==
    ASSUME NEW s, IsState(s), NEW event
    PROVE  Reads(From(s), InputDone(s, event))
<1> DEFINE index == CallIndex(s, event)
           r == From(s)
<1>1. Reads(r, r) /\ r.state = s
  BY ReadingNothing DEF Quietly, Like, From
<1>2. InputDone(s, event) = IF index \notin DOMAIN s.toolCalls THEN r ELSE FinalizeCustom(r, index, event.args)
  BY DEF InputDone
<1> HIDE DEF index, r
<1>3. index \in DOMAIN s.toolCalls => Reads(r, FinalizeCustom(r, index, event.args))
  BY <1>1, CustomInputIsFinal
<1>4. Reads(r, InputDone(s, event))
  BY <1>1, <1>2, <1>3
<1> QED
  BY <1>4 DEF r

LEMMA RefusalIsRead ==
    ASSUME NEW s, IsState(s), NEW event
    PROVE  Reads(From(s), RefusalDelta(s, event))
<1> DEFINE new == NewText(event.text, s.seen.refusal)
           seen == [s.seen EXCEPT !.refusal = @ \o new]
           t == [s EXCEPT !["seen"] = seen]
           c == [EmptyChunk EXCEPT !.refusal = new]
<1>1. RefusalDelta(s, event) = IF new = <<>> THEN From(s) ELSE Give(From(t), c)
  BY DEF RefusalDelta
<1>2. Quiet(c)
  BY DEF Quiet, IsChunk, IsList, EmptyChunk
<1> HIDE DEF c, new, seen
<1>3. Quietly(s, t) /\ Quietly(s, s)
  BY QuietSetting DEF Tracked, Quietly, Like
<1> HIDE DEF t
<1>4. Reads(From(s), From(t)) /\ Reads(From(s), From(s))
  BY <1>3, ReadingNothing
<1>5. Reads(From(s), Give(From(t), c))
  BY <1>2, <1>4, Giving
<1> QED
  BY <1>1, <1>4, <1>5

\* The step of TerminalCustomCalls.
EndCustom(r, item) ==
    LET known == {i \in DOMAIN r.state.toolCalls : r.state.toolCalls[i].id = item.id}
    IN IF item.kind # "custom" \/ known = {} THEN r
       ELSE FinalizeCustom(r, CHOOSE i \in known : TRUE, item.args)

LEMMA CustomCallsEnd ==
    ASSUME NEW r, NEW q, Reads(r, q), NEW item
    PROVE  Reads(r, EndCustom(q, item))
<1> DEFINE known == {i \in DOMAIN q.state.toolCalls : q.state.toolCalls[i].id = item.id}
           i == CHOOSE j \in known : TRUE
<1>1. EndCustom(q, item) = IF item.kind # "custom" \/ known = {} THEN q ELSE FinalizeCustom(q, i, item.args)
  BY DEF EndCustom
<1>2. known # {} => i \in DOMAIN q.state.toolCalls
  OBVIOUS
<1> HIDE DEF known, i
<1>3. known # {} => Reads(r, FinalizeCustom(q, i, item.args))
  BY <1>2, CustomInputIsFinal
<1> QED
  BY <1>1, <1>3

LEMMA EndingCustomCalls ==
    ASSUME NEW s, IsState(s), NEW output, IsList(output)
    PROVE  Reads(From(s), TerminalCustomCalls(s, output))
<1> DEFINE how == <<"custom call">>
           r == From(s)
           E(iter) == iter = [S \in SUBSET DOMAIN output |->
                                IF S = {} THEN r ELSE EndCustom(iter[S \ {Max(S)}], output[Max(S)])]
<1>0. Len(output) \in Nat /\ DOMAIN output = 1..Len(output) /\ DOMAIN output \in SUBSET (0..Len(output))
  BY DEF IsList
<1>1. \A iter : E(iter) <=> Iterates(iter, how, r, DOMAIN output, output)
  <2>1. ASSUME NEW t, NEW x PROVE Step(how, t, x) = EndCustom(t, x)
    BY DEF Step, EndCustom
  <2> HIDE DEF how, r
  <2>2. ASSUME NEW iter
        PROVE  [S \in SUBSET DOMAIN output |-> IF S = {} THEN r ELSE EndCustom(iter[S \ {Max(S)}], output[Max(S)])]
                = [S \in SUBSET DOMAIN output |-> IF S = {} THEN r ELSE Step(how, iter[S \ {Max(S)}], output[Max(S)])]
    BY <2>1
  <2> QED
    BY <2>2 DEF Iterates
<1>2. \E iter : E(iter)
  <2> HIDE DEF r
  <2> QED
    BY <1>0, <1>1, IteratesExist
<1>3. E(CHOOSE iter : E(iter))
  BY <1>2, Zenon
<1>4. \A S, t : Keeps(how, r, S, t) <=> Reads(r, t)
  BY DEF Keeps
<1>5. Keeps(how, r, {}, r)
  <2>1. Quietly(s, s)
    BY DEF Quietly, Like
  <2>2. Reads(r, r)
    BY <2>1, ReadingNothing
  <2> HIDE DEF r, how
  <2> QED
    BY <1>4, <2>2
<1>6. ASSUME NEW S \in SUBSET DOMAIN output, NEW x \in DOMAIN output, NEW t, Keeps(how, r, S, t)
      PROVE  Keeps(how, r, S \cup {x}, Step(how, t, output[x]))
  <2>1. Step(how, t, output[x]) = EndCustom(t, output[x])
    BY DEF Step, EndCustom
  <2> HIDE DEF how, r
  <2>2. Reads(r, t)
    BY <1>4, <1>6
  <2>3. Reads(r, EndCustom(t, output[x]))
    BY <2>2, CustomCallsEnd
  <2> QED
    BY <1>4, <2>1, <2>3
<1>7. Keeps(how, r, DOMAIN output, (CHOOSE iter : E(iter))[DOMAIN output])
  <2> HIDE DEF how, E, r
  <2> QED
    BY <1>0, <1>1, <1>3, <1>5, <1>6, IterationKeeps
<1>8. TerminalCustomCalls(s, output) = (CHOOSE iter : E(iter))[DOMAIN output]
  BY DEF TerminalCustomCalls, FoldLeft, MapThenFoldSet, EndCustom
<1>9. Reads(r, (CHOOSE iter : E(iter))[DOMAIN output])
  <2> HIDE DEF E, how, r
  <2> QED
    BY <1>4, <1>7
<1> QED
  BY <1>8, <1>9

LEMMA QuietUsage ==
    ASSUME NEW s, IsState(s), NEW v
    PROVE  Quietly(s, [s EXCEPT !["usage"] = v])
<1> DEFINE t == [s EXCEPT !["usage"] = v]
<1>1. Tracked \subseteq DOMAIN s
  BY DEF IsState
<1>2. DOMAIN t = DOMAIN s /\ \A g \in Tracked \ {"usage"} : t[g] = s[g]
  BY <1>1 DEF Tracked
<1> HIDE DEF t
<1>3. Quietly(s, t)
  BY <1>1, <1>2 DEF IsState, Quietly, Like, Tracked
<1> QED
  BY <1>3 DEF t

LEMMA TerminalIsRead ==
    ASSUME NEW s, IsState(s), ~ s.finishSent, NEW event, IsList(event.output), event.usage = TRUE,
           event.type # "completed" => event.reason \in {"length", "error"}
    PROVE  Concludes(s, TerminalRead(s, event), TRUE)
<1> DEFINE ended == TerminalCustomCalls(s, event.output)
           hasCalls == DOMAIN ended.state.toolCalls # {} \/ event.output # <<>>
           finish == IF event.type # "completed" THEN event.reason
                     ELSE IF hasCalls THEN "tool_calls" ELSE "stop"
           t == [ended.state EXCEPT !["usage"] = @ \/ event.usage]
           told == [ended EXCEPT !["state"] = t]
           c == [EmptyChunk EXCEPT !.finish = finish, !.usage = told.state.usage]
<1>1. TerminalRead(s, event) = [Give(told, c) EXCEPT !.state.finishSent = TRUE]
  <2> DEFINE told2 == [ended EXCEPT !.state.usage = @ \/ event.usage]
             c2 == [EmptyChunk EXCEPT !.finish = finish, !.usage = told2.state.usage]
  <2>1. TerminalRead(s, event) = [Give(told2, c2) EXCEPT !.state.finishSent = TRUE]
    BY DEF TerminalRead
  <2>2. told2 = told
    <3> HIDE DEF ended
    <3> QED
      OBVIOUS
  <2>3. c2 = c
    <3> HIDE DEF told, told2, finish
    <3> QED
      BY <2>2
  <2> HIDE DEF told, told2, c, c2
  <2> QED
    BY <2>1, <2>2, <2>3
<1>2. Reads(From(s), ended)
  BY EndingCustomCalls
<1> HIDE DEF ended, hasCalls
<1>3. finish # None
  BY NoneAssumption
<1> HIDE DEF finish
<1>4. IsState(ended.state) /\ "usage" \in DOMAIN ended.state
  BY <1>2 DEF Reads, Quietly, IsState, Tracked
<1>5. t.usage = TRUE
  BY <1>4
<1>6. Quietly(ended.state, t)
  BY <1>4, QuietUsage
<1> HIDE DEF t
<1>7. Reads(From(s), told) /\ told.state = t
  BY <1>2, <1>6, Reading
<1> HIDE DEF told
<1>8. Closes(c, TRUE)
  <2>1. c.calls = <<>> /\ c.choices = TRUE /\ c.error = FALSE /\ c.finish = finish /\ c.usage = TRUE
    BY <1>5, <1>7 DEF EmptyChunk
  <2>2. IsChunk(c)
    BY <2>1 DEF IsChunk, IsList
  <2> HIDE DEF c
  <2> QED
    BY <1>3, <2>1, <2>2 DEF Closes
<1> HIDE DEF c
<1>9. Concludes(s, [Give(told, c) EXCEPT !.state.finishSent = TRUE], TRUE)
  BY <1>7, <1>8, Concluding
<1> QED
  BY <1>1, <1>9

\* The events before the upstream's last.
LEMMA ResponsesEventIsRead ==
    ASSUME NEW s, IsState(s), NEW event,
           event.type \in {"created", "audio", "text_delta", "refusal_delta", "refusal_done", "reasoning_delta",
                           "call_added", "arguments_delta", "input_delta", "input_done"}
    PROVE  ResponsesSource(s, event) = Rejected(s) \/ Reads(From(s), ResponsesSource(s, event))
<1>0. Reads(From(s), From(s))
  BY ReadingNothing DEF Quietly, Like
<1>1. CASE event.type = "created"
  <2>1. ResponsesSource(s, event) = GiveRole(From(s))
    BY <1>1 DEF ResponsesSource
  <2> QED
    BY <1>0, <2>1, GivingRole
<1>2. CASE event.type = "audio"
  BY <1>2 DEF ResponsesSource
<1>3. CASE event.type = "text_delta"
  <2> DEFINE c == [EmptyChunk EXCEPT !.content = event.text]
  <2>1. ResponsesSource(s, event) = Give(From(s), c)
    BY <1>3 DEF ResponsesSource
  <2>2. Quiet(c)
    BY DEF Quiet, IsChunk, IsList, EmptyChunk
  <2> HIDE DEF c
  <2> QED
    BY <1>0, <2>1, <2>2, Giving
<1>4. CASE event.type = "reasoning_delta"
  <2> DEFINE c == [EmptyChunk EXCEPT !.reasoning = event.text]
  <2>1. ResponsesSource(s, event) = Give(From(s), c)
    BY <1>4 DEF ResponsesSource
  <2>2. Quiet(c)
    BY DEF Quiet, IsChunk, IsList, EmptyChunk
  <2> HIDE DEF c
  <2> QED
    BY <1>0, <2>1, <2>2, Giving
<1>5. CASE event.type \in {"refusal_delta", "refusal_done"}
  <2>1. ResponsesSource(s, event) = RefusalDelta(s, event)
    BY <1>5 DEF ResponsesSource
  <2> QED
    BY <2>1, RefusalIsRead
<1>6. CASE event.type = "call_added"
  <2>1. ResponsesSource(s, event) = CallAdded(s, event)
    BY <1>6 DEF ResponsesSource
  <2> QED
    BY <2>1, CallIsRead
<1>7. CASE event.type \in {"arguments_delta", "input_delta"}
  <2>1. ResponsesSource(s, event) = CallArguments(s, event)
    BY <1>7 DEF ResponsesSource
  <2> QED
    BY <2>1, CallArgumentsAreRead
<1>8. CASE event.type = "input_done"
  <2>1. ResponsesSource(s, event) = InputDone(s, event)
    BY <1>8 DEF ResponsesSource
  <2> QED
    BY <2>1, InputIsRead
<1> QED
  BY <1>1, <1>2, <1>3, <1>4, <1>5, <1>6, <1>7, <1>8

-----------------------------------------------------------------------------
(* The inductive invariant *)

\* The client's stream is under way.
Live(s) == IsState(s) /\ Plain(s.out) /\ ~ s.fatal /\ ~ s.terminalSent /\ ~ s.finishSent

\* The client's stream is over, and told the usage as u.
Closed(s, u) == IsState(s) /\ Over(s.out, u)

\* A chat upstream's usage may come too late.
HasEnded == \E u : Closed(state, u) /\ (pair[1] # "chat" => u = up.usage)

\* Calls with indices, and what the upstream keeps to.
IsCalls(l) == IsList(l) /\ \A i \in 1..Len(l) : "index" \in DOMAIN l[i] /\ l[i].index \in Nat
KeepsOn(q) ==
    /\ {"phase", "events", "calls", "block", "blocks", "reason", "usage", "last",
        "text", "thought", "refusal", "customs"} \subseteq DOMAIN q
    /\ q.phase \in {"start", "open", "finished", "ended"}
    /\ pair[1] = "anthropic" /\ q.phase # "open" => q.block = None
    /\ q.phase \in {"start", "open"} => q.reason = None
    /\ pair[1] = "chat" /\ q.phase = "finished" => q.reason # None
    /\ q.blocks \in Nat
    /\ IsCalls(q.calls)

\* While the upstream speaks, the stream is under way or was refused; when its turn is over
\* the client's is. In between, when the finish is known and the end still to come, an
\* Anthropic upstream's client was told nothing yet, a chat upstream's Anthropic client was
\* told the end, and its Responses client either.
StreamInv ==
    /\ up.phase \in {"start", "open"} => (Live(state) /\ state.finish = None) \/ (state.fatal /\ HasEnded)
    /\ up.phase = "finished" =>
        /\ pair = <<"chat", "anthropic">> => HasEnded
        /\ pair = <<"chat", "responses">> =>
            (state.terminalSent /\ HasEnded) \/ (~ state.terminalSent /\ IsState(state) /\ Plain(state.out))
        /\ pair[1] = "anthropic" => Live(state)
        /\ pair[1] # "responses"
    /\ up.phase = "ended" =>
        \/ HasEnded
        \/ pair = <<"chat", "anthropic">> /\ up.reason = None /\ IsState(state) /\ Plain(state.out)

EndsInv ==
    /\ pair \in Pairs
    /\ cumulative => pair[1] = "chat"
    /\ KeepsOn(up)
    /\ StreamInv

-----------------------------------------------------------------------------
(* One event *)

\* The stream is under way with no finish known, or over for good.
Passes(t, u) == (Live(t) /\ t.finish = None) \/ (t.fatal /\ Closed(t, u))

LEMMA GivenGoesOn ==
    ASSUME pair \in Pairs, NEW s, Live(s), s.finish = None, NEW given,
           given = Rejected(s) \/ Reads(From(s), given), NEW u
    PROVE  Passes(FoldLeft(ToClient, given.state, given.chunks), u)
<1> DEFINE t == FoldLeft(ToClient, given.state, given.chunks)
<1>1. CASE given = Rejected(s)
  <2>1. IsState(t) /\ t.fatal /\ Over(t.out, u)
    BY <1>1, Refusing DEF Live
  <2> QED
    BY <2>1 DEF Passes, Closed
<1>2. CASE Reads(From(s), given)
  <2> DEFINE r == given.state
  <2>1. /\ IsState(r) /\ Like(s, r) /\ r.out = s.out
        /\ IsList(given.chunks) /\ \A i \in 1..Len(given.chunks) : Quiet(given.chunks[i])
    BY <1>2 DEF Reads, Quietly, From
  <2>2. Plain(r.out) /\ ~ r.fatal /\ ~ r.terminalSent /\ ~ r.finishSent /\ r.finish = None
    BY <2>1 DEF Live, Like
  <2> HIDE DEF r
  <2>3. Sinks(r, u, FoldLeft(ToClient, r, given.chunks))
    <3>1. 0 \in Nat /\ ~ (0 \in 1..Len(given.chunks))
      BY <2>1 DEF IsList
    <3> QED
      BY <2>1, <2>2, <3>1, ChunksAreGiven
  <2>4. Sinks(r, u, t)
    BY <2>3 DEF r
  <2> HIDE DEF t
  <2>5. ASSUME IsState(t), Plain(t.out), Like(r, t)
        PROVE  Passes(t, u)
    <3>1. ~ t.fatal /\ ~ t.terminalSent /\ ~ t.finishSent /\ t.finish = None
      BY <2>2, <2>5 DEF Like
    <3> QED
      BY <2>5, <3>1 DEF Passes, Live
  <2>6. ASSUME IsState(t), Over(t.out, u), t.fatal
        PROVE  Passes(t, u)
    BY <2>6 DEF Passes, Closed
  <2>7. Passes(t, u)
    BY <2>2, <2>4, <2>5, <2>6 DEF Sinks
  <2> QED
    BY <2>7 DEF t
<1> QED
  BY <1>1, <1>2

LEMMA GivenEnds ==
    ASSUME pair \in Pairs, ~ cumulative, NEW s, Live(s), NEW u, NEW given, Concludes(s, given, u)
    PROVE  Closed(FoldLeft(ToClient, given.state, given.chunks), u)
<1> DEFINE r == given.state
           last == Len(given.chunks)
<1>1. /\ IsState(r) /\ Plain(r.out) /\ ~ r.fatal /\ ~ r.terminalSent
      /\ IsList(given.chunks) /\ last # 0 /\ Closes(given.chunks[last], u)
      /\ \A i \in 1..Len(given.chunks) : i # last => Quiet(given.chunks[i])
  BY DEF Concludes, Live
<1>2. Len(given.chunks) \in Nat
  BY <1>1 DEF IsList
<1>3. last \in Nat /\ last \in 1..Len(given.chunks)
  BY <1>1, <1>2
<1>4. last = Len(given.chunks)
  OBVIOUS
<1> HIDE DEF r, last
<1>5. IsState(FoldLeft(ToClient, r, given.chunks)) /\ Over(FoldLeft(ToClient, r, given.chunks).out, u)
  BY <1>1, <1>3, <1>4, ChunksAreGiven
<1> QED
  BY <1>5 DEF r, Closed

\* The events of an upstream before its last ones.
Passing(event) ==
    \/ pair[1] = "chat" /\ event.type = "second_choice"
    \/ pair[1] = "chat" /\ event.type = "chunk" /\ Quiet(event.chunk)
    \/ /\ pair[1] = "anthropic"
       /\ event.type \in {"message_start", "block_start", "text_delta", "thinking_delta",
                          "input_json_delta", "block_stop"}
       /\ event.type = "block_start" => event.index \in Nat
    \/ /\ pair[1] = "responses"
       /\ event.type \in {"created", "audio", "text_delta", "refusal_delta", "refusal_done", "reasoning_delta",
                          "call_added", "arguments_delta", "input_delta", "input_done"}

LEMMA ChatChunkIsRead ==
    ASSUME NEW s, IsState(s), NEW c, Quiet(c)
    PROVE  Reads(From(s), Give(From([s EXCEPT !.usage = @ \/ c.usage]), c))
<1> DEFINE t == [s EXCEPT !["usage"] = @ \/ c.usage]
<1>1. Quietly(s, t)
  BY QuietUsage
<1> HIDE DEF t
<1>2. Reads(From(s), Give(From(t), c))
  BY <1>1, ReadingNothing, Giving
<1> QED
  BY <1>2 DEF t

LEMMA PassingEvents ==
    ASSUME pair \in Pairs, NEW s, Live(s), s.finish = None, NEW event, Passing(event), NEW u
    PROVE  Passes(Translate(s, event), u)
<1> DEFINE given == IF IsRefused(event) THEN Rejected(s) ELSE Source(s, event)
<1>1. event.type # "done" /\ event.type # "error"
  BY DEF Passing
<1>2. ~ s.fatal /\ IsState(s)
  BY DEF Live
<1>3. Translate(s, event) = FoldLeft(ToClient, given.state, given.chunks)
  BY <1>1, <1>2 DEF Translate
<1>4. given = Rejected(s) \/ Reads(From(s), given)
  <2>1. CASE IsRefused(event)
    BY <2>1
  <2>2. CASE ~ IsRefused(event) /\ pair[1] = "chat"
    <3>1. event.type # "second_choice"
      BY <2>2 DEF IsRefused
    <3>2. event.type = "chunk" /\ Quiet(event.chunk)
      BY <2>2, <3>1 DEF Passing
    <3>3. given = Give(From([s EXCEPT !.usage = @ \/ event.chunk.usage]), event.chunk)
      BY <1>1, <2>2 DEF Source
    <3>4. Reads(From(s), Give(From([s EXCEPT !.usage = @ \/ event.chunk.usage]), event.chunk))
      BY <1>2, <3>2, ChatChunkIsRead
    <3> QED
      BY <3>3, <3>4
  <2>3. CASE ~ IsRefused(event) /\ pair[1] = "anthropic"
    <3>1. given = AnthropicSource(s, event)
      BY <1>1, <2>3 DEF Source
    <3>2. /\ event.type \in {"message_start", "block_start", "text_delta", "thinking_delta",
                             "input_json_delta", "block_stop"}
          /\ event.type = "block_start" => event.index \in Nat
      BY <2>3 DEF Passing
    <3> HIDE DEF given
    <3> QED
      BY <1>2, <3>1, <3>2, AnthropicEventIsRead
  <2>4. CASE ~ IsRefused(event) /\ pair[1] = "responses"
    <3>1. given = ResponsesSource(s, event)
      BY <1>1, <2>4 DEF Source
    <3>2. event.type \in {"created", "audio", "text_delta", "refusal_delta", "refusal_done", "reasoning_delta",
                          "call_added", "arguments_delta", "input_delta", "input_done"}
      BY <2>4 DEF Passing
    <3> HIDE DEF given
    <3> QED
      BY <1>2, <3>1, <3>2, ResponsesEventIsRead
  <2> QED
    BY <2>1, <2>2, <2>3, <2>4 DEF Passing
<1> HIDE DEF given
<1>5. Passes(FoldLeft(ToClient, given.state, given.chunks), u)
  BY <1>4, GivenGoesOn
<1> QED
  BY <1>3, <1>5

-----------------------------------------------------------------------------
(* The upstream's events *)

\* The next event is one of those before the last ones, and the upstream goes on.
Goes(q, event) == Passing(event) /\ KeepsOn(q) /\ q.phase \in {"start", "open"}

\* What it keeps to does not depend on how many events there were.
LEMMA Receiving ==
    ASSUME NEW q, NEW event, KeepsOn(q)
    PROVE  LET w == [q EXCEPT !.events = @ + 1, !.last = event]
           IN /\ KeepsOn(w) /\ w.last = event /\ w.phase = q.phase /\ w.usage = q.usage /\ w.reason = q.reason
<1> DEFINE w == [q EXCEPT !.events = @ + 1, !.last = event]
<1>1. DOMAIN w = DOMAIN q /\ {"events", "last"} \subseteq DOMAIN q
  BY DEF KeepsOn
<1>2. \A f \in DOMAIN q : f # "events" /\ f # "last" => w[f] = q[f]
  OBVIOUS
<1>3. w.last = event
  BY <1>1
<1> HIDE DEF w
<1>4. /\ w.phase = q.phase /\ w.usage = q.usage /\ w.reason = q.reason /\ w.block = q.block
      /\ w.blocks = q.blocks /\ w.calls = q.calls
  BY <1>2 DEF KeepsOn
<1>5. KeepsOn(w)
  BY <1>1, <1>4 DEF KeepsOn
<1> QED
  BY <1>3, <1>4, <1>5 DEF w

LEMMA Goings ==
    ASSUME NEW q, NEW event, Receive(event, q), Goes(q, event)
    PROVE  Goes(up', up'.last) /\ ~ state.fatal
<1>1. KeepsOn(q)
  BY DEF Goes
<1> DEFINE w == [q EXCEPT !.events = @ + 1, !.last = event]
<1>2. up' = w /\ ~ state.fatal
  BY DEF Receive
<1>3. KeepsOn(w) /\ w.last = event /\ w.phase = q.phase
  BY <1>1, Receiving
<1> HIDE DEF w
<1>4. Goes(w, w.last)
  BY <1>3 DEF Goes
<1> QED
  BY <1>2, <1>4

\* A chunk with one call.
LEMMA OneCall ==
    ASSUME NEW index \in Nat, NEW id, NEW name, NEW type, NEW args
    PROVE  Quiet([EmptyChunk EXCEPT !.calls = <<CallDelta(index, id, name, type, args)>>])
<1> DEFINE c == [EmptyChunk EXCEPT !.calls = <<CallDelta(index, id, name, type, args)>>]
<1>1. /\ c.calls = <<CallDelta(index, id, name, type, args)>>
      /\ c.finish = None /\ c.error = FALSE /\ c.usage = FALSE
  BY DEF EmptyChunk
<1> HIDE DEF c
<1>2. Len(c.calls) = 1 /\ c.calls[1].index = index
  BY <1>1 DEF CallDelta
<1>3. IsList(c.calls)
  <2> DEFINE d == CallDelta(index, id, name, type, args)
  <2> HIDE DEF d
  <2>1. <<d>> \in Seq({d})
    OBVIOUS
  <2>2. IsList(<<d>>)
    BY <2>1, SequencesAreLists
  <2> QED
    BY <1>1, <2>2 DEF d
<1>4. Quiet(c)
  BY <1>1, <1>2, <1>3 DEF Quiet, IsChunk
<1> QED
  BY <1>4 DEF c

LEMMA NoCall ==
    ASSUME NEW content, NEW reasoning, NEW refusal
    PROVE  /\ Quiet([EmptyChunk EXCEPT !.content = content, !.reasoning = reasoning])
           /\ Quiet([EmptyChunk EXCEPT !.refusal = refusal])
<1>1. Len(<<>>) = 0 /\ IsList(<<>>)
  <2>1. <<>> \in Seq({})
    OBVIOUS
  <2> QED
    BY <2>1, SequencesAreLists
<1> QED
  BY <1>1 DEF Quiet, IsChunk, EmptyChunk

LEMMA CallsChange ==
    ASSUME NEW l, IsCalls(l), NEW i, NEW call, "index" \in DOMAIN call, call.index \in Nat
    PROVE  IsCalls([l EXCEPT ![i] = call])
<1> DEFINE m == [l EXCEPT ![i] = call]
<1>1. Len(l) \in Nat /\ DOMAIN l = 1..Len(l) /\ \A j \in 1..Len(l) : "index" \in DOMAIN l[j] /\ l[j].index \in Nat
  BY DEF IsCalls, IsList
<1>2. DOMAIN m = 1..Len(l) /\ m = [j \in DOMAIN m |-> m[j]]
  BY <1>1
<1>3. \A j \in DOMAIN m : m[j] = l[j] \/ m[j] = call
  BY <1>1
<1> HIDE DEF m
<1> DEFINE T == {m[j] : j \in DOMAIN m}
<1>4. m \in [1..Len(l) -> T]
  BY <1>2
<1> HIDE DEF T
<1>5. m \in Seq(T) /\ Len(m) = Len(l)
  BY <1>1, <1>2, <1>4
<1>6. IsList(m)
  BY <1>5, SequencesAreLists
<1>7. IsCalls(m)
  BY <1>1, <1>2, <1>3, <1>5, <1>6 DEF IsCalls
<1> QED
  BY <1>7 DEF m

LEMMA CallsGrow ==
    ASSUME NEW l, IsCalls(l), NEW call, "index" \in DOMAIN call, call.index \in Nat
    PROVE  IsCalls(Append(l, call))
<1>1. IsList(l) /\ Len(l) \in Nat
  BY DEF IsCalls, IsList
<1>2. ASSUME NEW i \in 1..Len(Append(l, call))
      PROVE  "index" \in DOMAIN Append(l, call)[i] /\ Append(l, call)[i].index \in Nat
  <2>1. i \in 1..Len(l) \/ i = Len(l) + 1
    BY <1>1, Appending
  <2> QED
    BY <1>1, <2>1, Appending DEF IsCalls
<1> QED
  BY <1>1, <1>2, Appending DEF IsCalls

\* A call's arguments go on, and a call is added.
LEMMA AddingKeeps ==
    ASSUME KeepsOn(up), up.phase \in {"start", "open"}, NEW i \in DOMAIN up.calls, NEW piece
    PROVE  /\ KeepsOn(Adding(i, piece)) /\ Adding(i, piece).phase = up.phase
           /\ DOMAIN Adding(i, piece) = DOMAIN up
<1> DEFINE call == [up.calls[i] EXCEPT !.args = @ \o piece]
           calls == [up.calls EXCEPT ![i] = call]
           q == [up EXCEPT !["calls"] = calls]
<1>1. IsCalls(up.calls) /\ i \in 1..Len(up.calls)
  BY DEF KeepsOn, IsCalls, IsList
<1>2. "index" \in DOMAIN up.calls[i] /\ up.calls[i].index \in Nat
  BY <1>1 DEF IsCalls
<1>3. "index" \in DOMAIN call /\ call.index \in Nat
  BY <1>2
<1>4. Adding(i, piece) = q
  BY DEF Adding
<1> HIDE DEF call
<1>5. IsCalls(calls)
  BY <1>1, <1>3, CallsChange
<1> HIDE DEF calls
<1>6. KeepsOn(q) /\ q.phase = up.phase /\ DOMAIN q = DOMAIN up
  BY <1>5 DEF KeepsOn
<1> HIDE DEF q
<1> QED
  BY <1>4, <1>6

LEMMA CallingKeeps ==
    ASSUME KeepsOn(up), up.phase \in {"start", "open"}, NEW name, NEW args
    PROVE  /\ KeepsOn(Calling(name, args)) /\ Calling(name, args).phase = "open"
           /\ DOMAIN Calling(name, args) = DOMAIN up
<1> DEFINE call == [id |-> NewCallId, index |-> Len(up.calls), name |-> name, args |-> args]
           calls == Append(up.calls, call)
           q == [up EXCEPT !["phase"] = "open", !["calls"] = calls]
<1>1. IsCalls(up.calls) /\ Len(up.calls) \in Nat
  BY DEF KeepsOn, IsCalls, IsList
<1>2. "index" \in DOMAIN call /\ call.index \in Nat
  BY <1>1
<1>3. Calling(name, args) = q
  BY DEF Calling
<1> HIDE DEF call
<1>4. IsCalls(calls)
  BY <1>1, <1>2, CallsGrow
<1> HIDE DEF calls
<1>5. KeepsOn(q) /\ q.phase = "open" /\ DOMAIN q = DOMAIN up
  BY <1>4 DEF KeepsOn
<1> HIDE DEF q
<1> QED
  BY <1>3, <1>5

\* An upstream that speaks is in its turn.
SaysMore == Goes(up', up'.last) /\ ~ state.fatal /\ up.phase \in {"start", "open"}

LEMMA ChatSaysText ==
    ASSUME KeepsOn(up), ChatText
    PROVE  SaysMore
<1>1. PICK text, thought :
        ChatChunk([EmptyChunk EXCEPT
                        !.content = IF text = up.text THEN <<>> ELSE Told(up.text, text),
                        !.reasoning = IF thought = up.thought THEN <<>> ELSE Told(up.thought, thought)],
                  [up EXCEPT !.phase = "open", !.text = text, !.thought = thought])
  BY DEF ChatText
<1> DEFINE content == IF text = up.text THEN <<>> ELSE Told(up.text, text)
           reasoning == IF thought = up.thought THEN <<>> ELSE Told(up.thought, thought)
           c == [EmptyChunk EXCEPT !.content = content, !.reasoning = reasoning]
           q == [up EXCEPT !.phase = "open", !.text = text, !.thought = thought]
           event == [type |-> "chunk", chunk |-> c]
<1>2. Receive(event, q)
  BY <1>1 DEF ChatChunk
<1> HIDE DEF content, reasoning
<1>3. Quiet(c)
  BY NoCall
<1>4. pair[1] = "chat" /\ up.phase \in {"start", "open"}
  BY DEF ChatText, Saying
<1>5. KeepsOn(q) /\ q.phase = "open"
  BY <1>4 DEF KeepsOn
<1> HIDE DEF c, q
<1>6. Goes(q, event)
  BY <1>3, <1>4, <1>5 DEF Goes, Passing
<1> HIDE DEF event
<1> QED
  BY <1>2, <1>4, <1>6, Goings DEF SaysMore

LEMMA ChatRefuses ==
    ASSUME KeepsOn(up), ChatRefusal
    PROVE  SaysMore
<1> DEFINE c == [EmptyChunk EXCEPT !.refusal = <<1>>]
           q == [up EXCEPT !.phase = "open", !.refusal = <<1>>]
           event == [type |-> "chunk", chunk |-> c]
<1>1. Receive(event, q) /\ pair[1] = "chat" /\ up.phase \in {"start", "open"}
  BY DEF ChatRefusal, ChatChunk, Saying
<1>2. Quiet(c)
  BY NoCall
<1>3. KeepsOn(q) /\ q.phase = "open"
  BY <1>1 DEF KeepsOn
<1> HIDE DEF c, q
<1>4. Goes(q, event)
  BY <1>1, <1>2, <1>3 DEF Goes, Passing
<1> HIDE DEF event
<1> QED
  BY <1>1, <1>4, Goings DEF SaysMore

LEMMA ChatTellsCalls ==
    ASSUME KeepsOn(up), ChatCall
    PROVE  SaysMore
<1>1. PICK name, args :
        ChatChunk([EmptyChunk EXCEPT
                    !.calls = <<CallDelta(Len(up.calls), NewCallId, name, "function", args)>>],
                  Calling(name, args))
  BY DEF ChatCall
<1> DEFINE c == [EmptyChunk EXCEPT !.calls = <<CallDelta(Len(up.calls), NewCallId, name, "function", args)>>]
           event == [type |-> "chunk", chunk |-> c]
<1>2. Receive(event, Calling(name, args)) /\ pair[1] = "chat" /\ up.phase \in {"start", "open"}
  BY <1>1 DEF ChatCall, ChatChunk, Saying
<1>3. Len(up.calls) \in Nat
  BY DEF KeepsOn, IsCalls, IsList
<1>4. Quiet(c)
  BY <1>3, OneCall
<1>5. KeepsOn(Calling(name, args)) /\ Calling(name, args).phase = "open"
  BY <1>2, CallingKeeps
<1> HIDE DEF c
<1>6. Goes(Calling(name, args), event)
  BY <1>2, <1>4, <1>5 DEF Goes, Passing
<1> HIDE DEF event
<1> QED
  BY <1>2, <1>6, Goings DEF SaysMore

LEMMA ChatSaysArguments ==
    ASSUME KeepsOn(up), ChatArguments
    PROVE  SaysMore
<1>1. PICK i, piece :
        /\ i \in DOMAIN up.calls
        /\ ChatChunk([EmptyChunk EXCEPT !.calls = <<CallDelta(up.calls[i].index, None, None, None, piece)>>],
                     Adding(i, piece))
  BY DEF ChatArguments
<1> DEFINE c == [EmptyChunk EXCEPT !.calls = <<CallDelta(up.calls[i].index, None, None, None, piece)>>]
           event == [type |-> "chunk", chunk |-> c]
<1>2. Receive(event, Adding(i, piece)) /\ pair[1] = "chat" /\ up.phase \in {"start", "open"}
  BY <1>1 DEF ChatArguments, ChatChunk, Saying
<1>3. up.calls[i].index \in Nat
  BY <1>1 DEF KeepsOn, IsCalls, IsList
<1>4. Quiet(c)
  BY <1>3, OneCall
<1>5. KeepsOn(Adding(i, piece)) /\ Adding(i, piece).phase = up.phase
  BY <1>1, <1>2, AddingKeeps
<1> HIDE DEF c
<1>6. Goes(Adding(i, piece), event)
  BY <1>2, <1>4, <1>5 DEF Goes, Passing
<1> HIDE DEF event
<1> QED
  BY <1>2, <1>6, Goings DEF SaysMore

LEMMA ChatRenumbers ==
    ASSUME KeepsOn(up), ChatRenumbered
    PROVE  SaysMore
<1> DEFINE c == [EmptyChunk EXCEPT !.calls = <<CallDelta(MaxCalls, 1, None, None, <<>>)>>]
           event == [type |-> "chunk", chunk |-> c]
           call == [up.calls[1] EXCEPT !.index = MaxCalls]
           calls == [up.calls EXCEPT ![1] = call]
           q == [up EXCEPT !["calls"] = calls]
<1>1. /\ Receive(event, [up EXCEPT !.calls[1].index = MaxCalls])
      /\ pair[1] = "chat" /\ up.phase \in {"start", "open"} /\ up.calls # <<>>
  BY DEF ChatRenumbered, ChatChunk, Saying
<1>2. [up EXCEPT !.calls[1].index = MaxCalls] = q
  OBVIOUS
<1>3. MaxCalls \in Nat
  BY StreamBoundsAssumption
<1>4. Quiet(c)
  BY <1>3, OneCall
<1>5. KeepsOn(q) /\ q.phase = up.phase
  <2>1. IsCalls(up.calls)
    BY DEF KeepsOn
  <2>2. "index" \in DOMAIN up.calls[1]
    <3>1. IsList(up.calls) /\ Len(up.calls) # 0 /\ Len(up.calls) \in Nat
      <4>1. Len(up.calls) \in Nat /\ up.calls = [j \in 1..Len(up.calls) |-> up.calls[j]]
        BY <2>1 DEF IsCalls, IsList
      <4>2. ASSUME Len(up.calls) = 0 PROVE FALSE
        <5>1. DOMAIN up.calls = {}
          BY <4>1, <4>2
        <5>2. up.calls = [j \in {} |-> up.calls[j]]
          BY <4>1, <5>1
        <5> QED
          BY <1>1, <5>2
      <4> QED
        BY <2>1, <4>1, <4>2 DEF IsCalls
    <3>2. 1 \in 1..Len(up.calls)
      BY <3>1
    <3> QED
      BY <2>1, <3>2 DEF IsCalls
  <2>3. "index" \in DOMAIN call /\ call.index \in Nat
    BY <1>3, <2>2
  <2> HIDE DEF call
  <2>4. IsCalls(calls)
    BY <2>1, <2>3, CallsChange
  <2> HIDE DEF calls
  <2> QED
    BY <1>1, <2>4 DEF KeepsOn
<1> HIDE DEF c, q
<1>6. Goes(q, event)
  BY <1>1, <1>4, <1>5 DEF Goes, Passing
<1> HIDE DEF event
<1> QED
  BY <1>1, <1>2, <1>6, Goings DEF SaysMore

LEMMA ChatChooses ==
    ASSUME KeepsOn(up), ChatSecondChoice
    PROVE  SaysMore
<1> DEFINE event == [type |-> "second_choice"]
<1>1. Receive(event, up) /\ pair[1] = "chat" /\ up.phase \in {"start", "open"}
  BY DEF ChatSecondChoice, Saying
<1>2. Goes(up, event)
  BY <1>1 DEF Goes, Passing
<1> HIDE DEF event
<1> QED
  BY <1>1, <1>2, Goings DEF SaysMore

LEMMA AnthropicStarts ==
    ASSUME KeepsOn(up), AnthropicStart
    PROVE  SaysMore
<1> DEFINE event == [type |-> "message_start"]
           q == [up EXCEPT !.phase = "open"]
<1>1. Receive(event, q) /\ pair[1] = "anthropic" /\ up.phase = "start"
  BY DEF AnthropicStart
<1>2. KeepsOn(q) /\ q.phase = "open"
  BY <1>1 DEF KeepsOn
<1> HIDE DEF q
<1>3. Goes(q, event)
  BY <1>1, <1>2 DEF Goes, Passing
<1> HIDE DEF event
<1> QED
  BY <1>1, <1>3, Goings DEF SaysMore

LEMMA AnthropicStartsBlock ==
    ASSUME KeepsOn(up), AnthropicBlock
    PROVE  SaysMore
<1>1. PICK kind :
        Receive([type |-> "block_start", index |-> up.blocks, kind |-> kind, name |-> None],
                [up EXCEPT !.block = [kind |-> kind], !.blocks = @ + 1])
  BY DEF AnthropicBlock
<1> DEFINE event == [type |-> "block_start", index |-> up.blocks, kind |-> kind, name |-> None]
           q == [up EXCEPT !.block = [kind |-> kind], !.blocks = @ + 1]
<1>2. pair[1] = "anthropic" /\ up.phase = "open" /\ up.blocks \in Nat
  BY DEF AnthropicBlock, KeepsOn
<1>3. KeepsOn(q) /\ q.phase = "open"
  BY <1>2 DEF KeepsOn
<1>4. Receive(event, q)
  BY <1>1
<1> HIDE DEF q
<1>5. Goes(q, event)
  BY <1>2, <1>3 DEF Goes, Passing
<1> HIDE DEF event
<1> QED
  BY <1>2, <1>4, <1>5, Goings DEF SaysMore

LEMMA AnthropicTellsCalls ==
    ASSUME KeepsOn(up), AnthropicCall
    PROVE  SaysMore
<1>1. PICK name, input :
        Receive([type |-> "block_start", index |-> up.blocks, kind |-> "tool_use", id |-> NewCallId,
                 name |-> name, input |-> input],
                [Calling(name, input) EXCEPT !.block = [kind |-> IF input = <<>> THEN "tool_use" ELSE "seeded"],
                                              !.blocks = @ + 1])
  BY DEF AnthropicCall
<1> DEFINE event == [type |-> "block_start", index |-> up.blocks, kind |-> "tool_use", id |-> NewCallId,
                     name |-> name, input |-> input]
           block == [kind |-> IF input = <<>> THEN "tool_use" ELSE "seeded"]
           calling == Calling(name, input)
           q == [calling EXCEPT !.block = block, !.blocks = @ + 1]
<1>2. pair[1] = "anthropic" /\ up.phase = "open" /\ up.blocks \in Nat
  BY DEF AnthropicCall, KeepsOn
<1>3. KeepsOn(calling) /\ calling.phase = "open"
  BY <1>2, CallingKeeps
<1>4. Receive(event, q)
  BY <1>1
<1> HIDE DEF calling, block
<1>5. KeepsOn(q) /\ q.phase = "open"
  BY <1>3 DEF KeepsOn
<1> HIDE DEF q
<1>6. Goes(q, event)
  BY <1>2, <1>5 DEF Goes, Passing
<1> HIDE DEF event
<1> QED
  BY <1>2, <1>4, <1>6, Goings DEF SaysMore

LEMMA AnthropicSaysText ==
    ASSUME KeepsOn(up), AnthropicText \/ AnthropicThinking
    PROVE  SaysMore
<1>1. pair[1] = "anthropic" /\ up.block # None
  BY DEF AnthropicText, AnthropicThinking, Block
<1>2. up.phase = "open"
  BY <1>1 DEF KeepsOn
<1>3. CASE AnthropicText
  <2> DEFINE event == [type |-> "text_delta", index |-> Index, text |-> <<Letter(up.text)>>]
             q == [up EXCEPT !.text = Append(@, Letter(@))]
  <2>1. Receive(event, q)
    BY <1>3 DEF AnthropicText
  <2>2. KeepsOn(q) /\ q.phase = "open"
    BY <1>2 DEF KeepsOn
  <2> HIDE DEF q
  <2>3. Goes(q, event)
    BY <1>1, <2>2 DEF Goes, Passing
  <2> HIDE DEF event
  <2> QED
    BY <1>2, <2>1, <2>3, Goings DEF SaysMore
<1>4. CASE AnthropicThinking
  <2> DEFINE event == [type |-> "thinking_delta", index |-> Index, text |-> <<Letter(up.thought)>>]
             q == [up EXCEPT !.thought = Append(@, Letter(@))]
  <2>1. Receive(event, q)
    BY <1>4 DEF AnthropicThinking
  <2>2. KeepsOn(q) /\ q.phase = "open"
    BY <1>2 DEF KeepsOn
  <2> HIDE DEF q
  <2>3. Goes(q, event)
    BY <1>1, <2>2 DEF Goes, Passing
  <2> HIDE DEF event
  <2> QED
    BY <1>2, <2>1, <2>3, Goings DEF SaysMore
<1> QED
  BY <1>3, <1>4

\* The call at i, if there is one, is given other arguments.
LEMMA ChangingCall ==
    ASSUME KeepsOn(up), up.phase = "open", NEW i, NEW args, NEW q, DOMAIN q = DOMAIN up,
           q.calls = [up.calls EXCEPT ![i] = [@ EXCEPT !.args = args]],
           q.phase = up.phase, q.reason = up.reason, q.blocks = up.blocks
    PROVE  KeepsOn(q)
<1> DEFINE call == [up.calls[i] EXCEPT !.args = args]
<1>1. IsCalls(up.calls)
  BY DEF KeepsOn
<1>2. IsCalls(q.calls)
  <2>1. CASE i \in DOMAIN up.calls
    <3>1. "index" \in DOMAIN up.calls[i] /\ up.calls[i].index \in Nat
      BY <1>1, <2>1 DEF IsCalls, IsList
    <3>2. "index" \in DOMAIN call /\ call.index \in Nat
      BY <3>1
    <3>3. q.calls = [up.calls EXCEPT ![i] = call]
      OBVIOUS
    <3> HIDE DEF call
    <3>4. IsCalls([up.calls EXCEPT ![i] = call])
      BY <1>1, <3>2, CallsChange
    <3> QED
      BY <3>3, <3>4
  <2>2. CASE i \notin DOMAIN up.calls
    <3>1. up.calls = [j \in 1..Len(up.calls) |-> up.calls[j]]
      BY <1>1 DEF IsCalls, IsList
    <3>2. q.calls = [j \in DOMAIN up.calls |-> up.calls[j]]
      BY <2>2
    <3>3. q.calls = up.calls
      BY <3>1, <3>2
    <3> QED
      BY <1>1, <3>3
  <2> QED
    BY <2>1, <2>2
<1> QED
  BY <1>2 DEF KeepsOn

LEMMA AnthropicSaysArguments ==
    ASSUME KeepsOn(up), AnthropicArguments \/ AnthropicSeededArguments
    PROVE  SaysMore
<1>1. pair[1] = "anthropic" /\ up.block # None
  BY DEF AnthropicArguments, AnthropicSeededArguments, Block
<1>2. up.phase = "open"
  BY <1>1 DEF KeepsOn
<1>3. CASE AnthropicArguments
  <2> DEFINE last == Len(up.calls)
  <2>1. PICK piece : Receive([type |-> "input_json_delta", index |-> Index, args |-> piece], Adding(last, piece))
    BY <1>3 DEF AnthropicArguments
  <2> DEFINE event == [type |-> "input_json_delta", index |-> Index, args |-> piece]
             q == Adding(last, piece)
             args == up.calls[last].args \o piece
  <2>2. /\ DOMAIN q = DOMAIN up /\ q.phase = up.phase /\ q.reason = up.reason /\ q.blocks = up.blocks
        /\ q.calls = [up.calls EXCEPT ![last] = [@ EXCEPT !.args = args]]
    BY DEF Adding, KeepsOn
  <2> HIDE DEF q, args, last
  <2>3. KeepsOn(q) /\ q.phase = "open"
    BY <1>2, <2>2, ChangingCall
  <2>4. Goes(q, event)
    BY <1>1, <2>3 DEF Goes, Passing
  <2>5. Receive(event, q)
    BY <2>1 DEF q, last
  <2> HIDE DEF event
  <2> QED
    BY <1>2, <2>4, <2>5, Goings DEF SaysMore
<1>4. CASE AnthropicSeededArguments
  <2> DEFINE last == Len(up.calls)
  <2>1. PICK piece :
          Receive([type |-> "input_json_delta", index |-> Index, args |-> piece],
                  [up EXCEPT !.block = [kind |-> "tool_use"],
                             !.calls[last].args = IF piece = Whole THEN Whole
                                                  ELSE SubSeq(@, 1, Len(@) - 1) \o piece])
    BY <1>4 DEF AnthropicSeededArguments
  <2> DEFINE event == [type |-> "input_json_delta", index |-> Index, args |-> piece]
             args == IF piece = Whole THEN Whole
                     ELSE SubSeq(up.calls[last].args, 1, Len(up.calls[last].args) - 1) \o piece
             q == [up EXCEPT !.block = [kind |-> "tool_use"],
                             !.calls[last].args = IF piece = Whole THEN Whole
                                                  ELSE SubSeq(@, 1, Len(@) - 1) \o piece]
  <2>2. /\ DOMAIN q = DOMAIN up /\ q.phase = up.phase /\ q.reason = up.reason /\ q.blocks = up.blocks
        /\ q.calls = [up.calls EXCEPT ![last] = [@ EXCEPT !.args = args]]
    BY DEF KeepsOn
  <2>3. Receive(event, q)
    BY <2>1
  <2> HIDE DEF q, args, last
  <2>4. KeepsOn(q) /\ q.phase = "open"
    BY <1>2, <2>2, ChangingCall
  <2>5. Goes(q, event)
    BY <1>1, <2>4 DEF Goes, Passing
  <2> HIDE DEF event
  <2> QED
    BY <1>2, <2>3, <2>5, Goings DEF SaysMore
<1> QED
  BY <1>3, <1>4

LEMMA AnthropicStopsBlock ==
    ASSUME KeepsOn(up), AnthropicBlockStop
    PROVE  SaysMore
<1> DEFINE event == [type |-> "block_stop", index |-> Index]
           q == [up EXCEPT !.block = None]
<1>1. Receive(event, q) /\ pair[1] = "anthropic" /\ up.block # None
  BY DEF AnthropicBlockStop
<1>2. up.phase = "open"
  BY <1>1 DEF KeepsOn
<1>3. KeepsOn(q) /\ q.phase = "open"
  BY <1>2 DEF KeepsOn
<1> HIDE DEF q
<1>4. Goes(q, event)
  BY <1>1, <1>3 DEF Goes, Passing
<1> HIDE DEF event
<1> QED
  BY <1>1, <1>2, <1>4, Goings DEF SaysMore

LEMMA ResponsesStarts ==
    ASSUME KeepsOn(up), ResponsesCreated
    PROVE  SaysMore
<1> DEFINE event == [type |-> "created"]
           q == [up EXCEPT !.phase = "open"]
<1>1. Receive(event, q) /\ pair[1] = "responses" /\ up.phase = "start"
  BY DEF ResponsesCreated
<1>2. KeepsOn(q) /\ q.phase = "open"
  BY <1>1 DEF KeepsOn
<1> HIDE DEF q
<1>3. Goes(q, event)
  BY <1>1, <1>2 DEF Goes, Passing
<1> HIDE DEF event
<1> QED
  BY <1>1, <1>3, Goings DEF SaysMore

LEMMA ResponsesSaysText ==
    ASSUME KeepsOn(up), ResponsesText \/ ResponsesRefusal \/ ResponsesReasoning
    PROVE  SaysMore
<1>1. pair[1] = "responses" /\ up.phase = "open"
  BY DEF ResponsesText, ResponsesRefusal, ResponsesReasoning
<1>2. CASE ResponsesText
  <2> DEFINE event == [type |-> "text_delta", text |-> <<Letter(up.text)>>]
             q == [up EXCEPT !.text = Append(@, Letter(@))]
  <2>1. Receive(event, q)
    BY <1>2 DEF ResponsesText
  <2>2. KeepsOn(q) /\ q.phase = "open"
    BY <1>1 DEF KeepsOn
  <2> HIDE DEF q
  <2>3. Goes(q, event)
    BY <1>1, <2>2 DEF Goes, Passing
  <2> HIDE DEF event
  <2> QED
    BY <1>1, <2>1, <2>3, Goings DEF SaysMore
<1>3. CASE ResponsesRefusal
  <2> DEFINE event == [type |-> "refusal_delta", text |-> <<Letter(up.refusal)>>]
             q == [up EXCEPT !.refusal = Append(@, Letter(@))]
  <2>1. Receive(event, q)
    BY <1>3 DEF ResponsesRefusal
  <2>2. KeepsOn(q) /\ q.phase = "open"
    BY <1>1 DEF KeepsOn
  <2> HIDE DEF q
  <2>3. Goes(q, event)
    BY <1>1, <2>2 DEF Goes, Passing
  <2> HIDE DEF event
  <2> QED
    BY <1>1, <2>1, <2>3, Goings DEF SaysMore
<1>4. CASE ResponsesReasoning
  <2> DEFINE event == [type |-> "reasoning_delta", text |-> <<Letter(up.thought)>>]
             q == [up EXCEPT !.thought = Append(@, Letter(@))]
  <2>1. Receive(event, q)
    BY <1>4 DEF ResponsesReasoning
  <2>2. KeepsOn(q) /\ q.phase = "open"
    BY <1>1 DEF KeepsOn
  <2> HIDE DEF q
  <2>3. Goes(q, event)
    BY <1>1, <2>2 DEF Goes, Passing
  <2> HIDE DEF event
  <2> QED
    BY <1>1, <2>1, <2>3, Goings DEF SaysMore
<1> QED
  BY <1>2, <1>3, <1>4

LEMMA ResponsesRepeats ==
    ASSUME KeepsOn(up), ResponsesRefusalDone \/ ResponsesAudio
    PROVE  SaysMore
<1>1. pair[1] = "responses" /\ up.phase = "open"
  BY DEF ResponsesRefusalDone, ResponsesAudio
<1>2. CASE ResponsesRefusalDone
  <2> DEFINE event == [type |-> "refusal_done", text |-> up.refusal]
  <2>1. Receive(event, up)
    BY <1>2 DEF ResponsesRefusalDone
  <2>2. Goes(up, event)
    BY <1>1 DEF Goes, Passing
  <2> HIDE DEF event
  <2> QED
    BY <1>1, <2>1, <2>2, Goings DEF SaysMore
<1>3. CASE ResponsesAudio
  <2> DEFINE event == [type |-> "audio"]
  <2>1. Receive(event, up)
    BY <1>3 DEF ResponsesAudio
  <2>2. Goes(up, event)
    BY <1>1 DEF Goes, Passing
  <2> HIDE DEF event
  <2> QED
    BY <1>1, <2>1, <2>2, Goings DEF SaysMore
<1> QED
  BY <1>2, <1>3

LEMMA ResponsesTellsCalls ==
    ASSUME KeepsOn(up), ResponsesCall
    PROVE  SaysMore
<1>1. PICK name, kind :
        Receive([type |-> "call_added", kind |-> kind, id |-> NewCallId, name |-> name, args |-> <<>>,
                 item |-> NewCallId, output |-> NewCallId],
                [Calling(name, IF kind = "custom" THEN <<"{">> ELSE <<>>) EXCEPT
                    !.blocks = @ + 1, !.customs = IF kind = "custom" THEN @ \cup {NewCallId} ELSE @])
  BY DEF ResponsesCall
<1> DEFINE event == [type |-> "call_added", kind |-> kind, id |-> NewCallId, name |-> name, args |-> <<>>,
                     item |-> NewCallId, output |-> NewCallId]
           args == IF kind = "custom" THEN <<"{">> ELSE <<>>
           calling == Calling(name, args)
           q == [calling EXCEPT !.blocks = @ + 1, !.customs = IF kind = "custom" THEN @ \cup {NewCallId} ELSE @]
<1>2. pair[1] = "responses" /\ up.phase = "open"
  BY DEF ResponsesCall
<1>3. Receive(event, q)
  BY <1>1
<1> HIDE DEF args
<1>4. KeepsOn(calling) /\ calling.phase = "open"
  BY <1>2, CallingKeeps
<1> HIDE DEF calling
<1>5. KeepsOn(q) /\ q.phase = "open"
  BY <1>4 DEF KeepsOn
<1> HIDE DEF q
<1>6. Goes(q, event)
  BY <1>2, <1>5 DEF Goes, Passing
<1> HIDE DEF event
<1> QED
  BY <1>2, <1>3, <1>6, Goings DEF SaysMore

LEMMA ResponsesSaysArguments ==
    ASSUME KeepsOn(up), ResponsesArguments
    PROVE  SaysMore
<1>1. PICK i, piece, how, type :
        /\ i \in DOMAIN up.calls /\ type \in {"arguments_delta", "input_delta"}
        /\ Receive(Naming(type, i, how, piece), Adding(i, piece))
  BY DEF ResponsesArguments
<1> DEFINE event == Naming(type, i, how, piece)
           q == Adding(i, piece)
<1>2. pair[1] = "responses" /\ up.phase = "open"
  BY DEF ResponsesArguments
<1>3. KeepsOn(q) /\ q.phase = "open"
  BY <1>1, <1>2, AddingKeeps
<1>4. Receive(event, q)
  BY <1>1
<1> HIDE DEF q
<1>5. event.type \in {"arguments_delta", "input_delta"}
  BY <1>1 DEF Naming
<1> HIDE DEF event
<1>6. Goes(q, event)
  BY <1>2, <1>3, <1>5 DEF Goes, Passing
<1> QED
  BY <1>2, <1>4, <1>6, Goings DEF SaysMore

LEMMA ResponsesEndsInput ==
    ASSUME KeepsOn(up), ResponsesInputDone
    PROVE  SaysMore
<1>1. PICK i, input :
        /\ i \in DOMAIN up.calls
        /\ Receive(Naming("input_done", i, "item", input), [up EXCEPT !.calls[i] = Ended(i, input)])
  BY DEF ResponsesInputDone
<1> DEFINE event == Naming("input_done", i, "item", input)
           args == <<"{">> \o input \o <<"}">>
           q == [up EXCEPT !.calls[i] = Ended(i, input)]
<1>2. pair[1] = "responses" /\ up.phase = "open"
  BY DEF ResponsesInputDone
<1>3. Receive(event, q)
  BY <1>1
<1>4. /\ DOMAIN q = DOMAIN up /\ q.phase = up.phase /\ q.reason = up.reason /\ q.blocks = up.blocks
      /\ q.calls = [up.calls EXCEPT ![i] = Ended(i, input)]
  BY DEF KeepsOn
<1>5. q.calls = [up.calls EXCEPT ![i] = [@ EXCEPT !.args = args]]
  BY <1>4 DEF Ended
<1> HIDE DEF args, q
<1>6. KeepsOn(q) /\ q.phase = "open"
  BY <1>2, <1>4, <1>5, ChangingCall
<1>7. event.type = "input_done"
  BY DEF Naming
<1> HIDE DEF event
<1>8. Goes(q, event)
  BY <1>2, <1>6, <1>7 DEF Goes, Passing
<1> QED
  BY <1>2, <1>3, <1>8, Goings DEF SaysMore

-----------------------------------------------------------------------------
(* The steps of the inductive invariant *)

IsTold == state' = Translate(state, up'.last) /\ UNCHANGED <<pair, cumulative>>

LEMMA Reassembling ==
    ASSUME EndsInv, IsTold, KeepsOn(up'), StreamInv'
    PROVE  EndsInv'
<1>1. pair \in Pairs /\ (cumulative => pair[1] = "chat") /\ pair' = pair /\ cumulative' = cumulative
  BY DEF EndsInv, IsTold
<1>2. KeepsOn(up)'
  BY <1>1 DEF KeepsOn
<1> QED
  BY <1>1, <1>2 DEF EndsInv

LEMMA GoingOnKeeps ==
    ASSUME EndsInv, SaysMore, IsTold
    PROVE  EndsInv'
<1> DEFINE event == up'.last
           u == up'.usage
<1>1. /\ pair \in Pairs /\ ~ state.fatal /\ up.phase \in {"start", "open"}
      /\ Passing(event) /\ KeepsOn(up') /\ up'.phase \in {"start", "open"}
  BY DEF EndsInv, SaysMore, Goes
<1>2. Live(state) /\ state.finish = None
  BY <1>1 DEF EndsInv, StreamInv
<1>3. state' = Translate(state, event) /\ pair' = pair /\ cumulative' = cumulative
  BY DEF IsTold
<1>4. u = up'.usage
  OBVIOUS
<1> HIDE DEF event, u
<1>5. Passes(Translate(state, event), u)
  BY <1>1, <1>2, PassingEvents
<1>6. Passes(state', u)
  BY <1>3, <1>5
<1>7. (Live(state') /\ state'.finish = None) \/ (state'.fatal /\ Closed(state', u))
  BY <1>6 DEF Passes
<1>8. state'.fatal /\ Closed(state', u) => HasEnded'
  BY <1>4 DEF HasEnded
<1>9. StreamInv'
  BY <1>1, <1>7, <1>8 DEF StreamInv
<1> QED
  BY <1>1, <1>9, Reassembling

\* A chunk without calls.
LEMMA ChunkIsTold ==
    ASSUME pair[1] = "chat", NEW s, ~ s.fatal, NEW c, c.calls = <<>>
    PROVE  Translate(s, [type |-> "chunk", chunk |-> c]) = ToClient([s EXCEPT !.usage = @ \/ c.usage], c)
<1> DEFINE event == [type |-> "chunk", chunk |-> c]
           t == [s EXCEPT !.usage = @ \/ c.usage]
<1>1. ~ IsRefused(event)
  BY DEF IsRefused
<1>2. Source(s, event) = Give(From(t), c)
  BY DEF Source
<1>3. Translate(s, event) = FoldLeft(ToClient, Give(From(t), c).state, Give(From(t), c).chunks)
  BY <1>1, <1>2 DEF Translate
<1> HIDE DEF t
<1>4. Give(From(t), c).state = t /\ Give(From(t), c).chunks = Append(<<>>, c)
  BY DEF Give, From
<1>5. Append(<<>>, c) = <<c>>
  OBVIOUS
<1>6. Translate(s, event) = ToClient(t, c)
  BY <1>3, <1>4, <1>5, OneChunk
<1> QED
  BY <1>6 DEF t

\* A "done" of an upstream whose client does not need it.
LEMMA DoneIsTold ==
    ASSUME NEW s, pair # <<"chat", "responses">>
    PROVE  Translate(s, [type |-> "done"]) = s
<1> DEFINE event == [type |-> "done"]
<1>1. ~ IsRefused(event) /\ event.type = "done"
  BY DEF IsRefused
<1>2. Source(s, event) = From(s)
  BY <1>1 DEF Source
<1>3. Translate(s, event) = IF s.fatal THEN s ELSE FoldLeft(ToClient, From(s).state, From(s).chunks)
  BY <1>1, <1>2 DEF Translate
<1>4. From(s).state = s /\ From(s).chunks = <<>>
  BY DEF From
<1> QED
  BY <1>3, <1>4, NoChunks

LEMMA Received ==
    ASSUME NEW q, NEW event, Receive(event, q), KeepsOn(q)
    PROVE  /\ KeepsOn(up') /\ up'.last = event /\ ~ state.fatal
           /\ up'.phase = q.phase /\ up'.usage = q.usage /\ up'.reason = q.reason
<1> DEFINE w == [q EXCEPT !.events = @ + 1, !.last = event]
<1>1. up' = w /\ ~ state.fatal
  BY DEF Receive
<1>2. KeepsOn(w) /\ w.last = event /\ w.phase = q.phase /\ w.usage = q.usage /\ w.reason = q.reason
  BY Receiving
<1> HIDE DEF w
<1> QED
  BY <1>1, <1>2

LEMMA ChatFinishKeeps ==
    ASSUME EndsInv, ChatFinish, IsTold
    PROVE  EndsInv'
<1>1. PICK finish \in {"stop", "length", "error", "tool_calls"}, usage \in BOOLEAN :
        ChatChunk([EmptyChunk EXCEPT !.finish = finish, !.usage = usage],
                  [up EXCEPT !.phase = "finished", !.usage = usage, !.reason = finish])
  BY DEF ChatFinish
<1> DEFINE c == [EmptyChunk EXCEPT !.finish = finish, !.usage = usage]
           q == [up EXCEPT !.phase = "finished", !.usage = usage, !.reason = finish]
           event == [type |-> "chunk", chunk |-> c]
           t == [state EXCEPT !.usage = @ \/ c.usage]
<1>2. Receive(event, q) /\ pair[1] = "chat" /\ up.phase \in {"start", "open"}
  BY <1>1 DEF ChatChunk, ChatFinish, Saying
<1>3. finish # None
  BY NoneAssumption
<1>4. KeepsOn(q) /\ q.phase = "finished"
  BY <1>2, <1>3 DEF KeepsOn, EndsInv
<1>5. /\ c.calls = <<>> /\ c.choices = TRUE /\ c.error = FALSE /\ c.finish = finish
      /\ c.usage = usage
  BY DEF EmptyChunk
<1>6. IsChunk(c)
  <2>1. <<>> \in Seq({}) /\ Len(<<>>) = 0
    OBVIOUS
  <2>2. IsList(<<>>)
    BY <2>1, SequencesAreLists
  <2> QED
    BY <1>5, <2>1, <2>2 DEF IsChunk
<1> HIDE DEF c, q
<1>7. KeepsOn(up') /\ up'.phase = "finished" /\ up'.last = event /\ ~ state.fatal
  BY <1>2, <1>4, Received
<1>8. state' = ToClient(t, c)
  BY <1>2, <1>5, <1>7, ChunkIsTold DEF IsTold
<1>9. IsState(state) /\ Plain(state.out) /\ ~ state.terminalSent /\ state.finish = None
  BY <1>2, <1>7 DEF EndsInv, StreamInv, Live
<1>10. IsState(t) /\ Plain(t.out) /\ ~ t.fatal /\ ~ t.terminalSent
  <2> DEFINE v == state.usage \/ c.usage
  <2>1. t = [state EXCEPT !["usage"] = v]
    OBVIOUS
  <2> HIDE DEF t, v
  <2>2. Quietly(state, t)
    BY <1>9, <2>1, QuietUsage
  <2> QED
    BY <1>7, <1>9, <2>2 DEF Quietly, Like
<1> HIDE DEF t
<1>11. pair \in Pairs /\ pair' = pair /\ cumulative' = cumulative
  BY DEF EndsInv, IsTold
<1>12. pair = <<"chat", "anthropic">> \/ pair = <<"chat", "responses">>
  BY <1>2, <1>11, PairsAssumption DEF Formats
<1>13. CASE pair = <<"chat", "anthropic">>
  <2>1. state' = AnthropicSink(t, c)
    BY <1>8, <1>13 DEF ToClient
  <2>2. PICK u : IsErrorFinish(c.finish) \/ (c.usage = TRUE /\ u = TRUE) \/ (c.usage = FALSE /\ u = t.usage)
    BY <1>5
  <2>3. IsState(state') /\ Over(state'.out, u)
    BY <1>3, <1>5, <1>6, <1>10, <2>1, <2>2, AnthropicEnds
  <2>4. HasEnded'
    BY <1>2, <1>11, <2>3 DEF HasEnded, Closed
  <2>5. StreamInv'
    BY <1>7, <1>11, <1>13, <2>4 DEF StreamInv
  <2> QED
    BY <1>7, <2>5, Reassembling
<1>14. CASE pair = <<"chat", "responses">>
  <2>1. state' = ResponsesSink(t, c, cumulative)
    BY <1>8, <1>14 DEF ToClient
  <2>2. PICK u : TRUE
    OBVIOUS
  <2>3. IsOver(t, state', u) \/ IsWaiting(t, state', OrElse(c.finish, t.finish))
    BY <1>6, <1>10, <2>1, ResponsesGoOn
  <2>4. CASE IsOver(t, state', u)
    <3>1. HasEnded' /\ state'.terminalSent
      BY <1>2, <1>11, <2>4 DEF HasEnded, Closed, IsOver
    <3>2. StreamInv'
      BY <1>7, <1>11, <1>14, <3>1 DEF StreamInv
    <3> QED
      BY <1>7, <3>2, Reassembling
  <2>5. CASE IsWaiting(t, state', OrElse(c.finish, t.finish))
    <3>1. IsState(state') /\ Plain(state'.out) /\ ~ state'.terminalSent
      BY <1>10, <2>5 DEF IsWaiting
    <3>2. StreamInv'
      BY <1>7, <1>11, <1>14, <3>1 DEF StreamInv
    <3> QED
      BY <1>7, <3>2, Reassembling
  <2> QED
    BY <2>3, <2>4, <2>5
<1> QED
  BY <1>12, <1>13, <1>14

LEMMA UsageIsSeen ==
    ASSUME NEW s, IsState(s), NEW v
    PROVE  LET t == [s EXCEPT !.usage = @ \/ v]
           IN IsState(t) /\ Like(s, t) /\ t.out = s.out
<1> DEFINE w == s.usage \/ v
           t == [s EXCEPT !.usage = @ \/ v]
<1>1. t = [s EXCEPT !["usage"] = w]
  OBVIOUS
<1> HIDE DEF t, w
<1>2. Quietly(s, t)
  BY <1>1, QuietUsage
<1> QED
  BY <1>2 DEF Quietly, t

LEMMA ChatUsageKeeps ==
    ASSUME EndsInv, ChatUsage, IsTold
    PROVE  EndsInv'
<1> DEFINE c == [EmptyChunk EXCEPT !.choices = FALSE, !.usage = TRUE]
           q == [up EXCEPT !.usage = TRUE]
           event == [type |-> "chunk", chunk |-> c]
           t == [state EXCEPT !.usage = @ \/ c.usage]
<1>1. Receive(event, q) /\ pair[1] = "chat" /\ up.phase = "finished"
  BY DEF ChatUsage, ChatChunk
<1>2. KeepsOn(q) /\ q.phase = "finished"
  BY <1>1 DEF KeepsOn, EndsInv
<1>3. c.calls = <<>> /\ c.choices = FALSE /\ c.error = FALSE
  BY DEF EmptyChunk
<1>4. IsChunk(c)
  <2>1. <<>> \in Seq({}) /\ Len(<<>>) = 0
    OBVIOUS
  <2>2. IsList(<<>>)
    BY <2>1, SequencesAreLists
  <2> QED
    BY <1>3, <2>1, <2>2 DEF IsChunk
<1> HIDE DEF c, q
<1>5. KeepsOn(up') /\ up'.phase = "finished" /\ up'.last = event /\ ~ state.fatal
  BY <1>1, <1>2, Received
<1>6. state' = ToClient(t, c)
  BY <1>1, <1>3, <1>5, ChunkIsTold DEF IsTold
<1>7. pair \in Pairs /\ pair' = pair
  BY DEF EndsInv, IsTold
<1>8. pair = <<"chat", "anthropic">> \/ pair = <<"chat", "responses">>
  BY <1>1, <1>7, PairsAssumption DEF Formats
<1>9. IsState(state)
  BY <1>1, <1>8 DEF EndsInv, StreamInv, HasEnded, Closed
<1>10. IsState(t) /\ Like(state, t) /\ t.out = state.out
  BY <1>9, UsageIsSeen
<1> HIDE DEF t
<1>11. CASE pair = <<"chat", "anthropic">>
  <2>1. PICK u : Closed(state, u)
    BY <1>1, <1>11 DEF EndsInv, StreamInv, HasEnded
  <2>2. state' = AnthropicSink(t, c)
    BY <1>6, <1>11 DEF ToClient
  <2>3. ~ t.fatal
    BY <1>5, <1>10 DEF Like
  <2>4. state' = Using(t, c)
    BY <1>3, <2>2, <2>3, AnthropicCases
  <2>5. IsState(state') /\ state'.out = t.out
    <3> DEFINE v == TRUE
    <3>1. Using(t, c) = t \/ Using(t, c) = [t EXCEPT !["usage"] = v]
      BY DEF Using
    <3> HIDE DEF v
    <3>2. Quietly(t, [t EXCEPT !["usage"] = v])
      BY <1>10, QuietUsage
    <3> QED
      BY <1>10, <2>4, <3>1, <3>2 DEF Quietly
  <2>6. HasEnded'
    BY <1>1, <1>7, <1>10, <2>1, <2>5 DEF HasEnded, Closed
  <2>7. StreamInv'
    BY <1>5, <1>7, <1>11, <2>6 DEF StreamInv
  <2> QED
    BY <1>5, <2>7, Reassembling
<1>12. CASE pair = <<"chat", "responses">>
  <2>1. state' = ResponsesSink(t, c, cumulative)
    BY <1>6, <1>12 DEF ToClient
  <2>2. CASE state.terminalSent
    <3>1. PICK u : Closed(state, u)
      BY <1>1, <1>12, <2>2 DEF EndsInv, StreamInv, HasEnded
    <3>2. t.terminalSent
      BY <1>10, <2>2 DEF Like
    <3>3. state' = t
      BY <2>1, <3>2, ResponsesCases
    <3>4. HasEnded'
      BY <1>1, <1>7, <1>10, <3>1, <3>3 DEF HasEnded, Closed
    <3>5. StreamInv'
      BY <1>5, <1>7, <1>12, <3>2, <3>3, <3>4 DEF StreamInv
    <3> QED
      BY <1>5, <3>5, Reassembling
  <2>3. CASE ~ state.terminalSent
    <3>1. Plain(t.out) /\ ~ t.terminalSent
      BY <1>1, <1>10, <1>12, <2>3 DEF EndsInv, StreamInv, Like
    <3>2. PICK u : TRUE
      OBVIOUS
    <3>3. IsOver(t, state', u) \/ IsWaiting(t, state', OrElse(c.finish, t.finish))
      BY <1>4, <1>10, <2>1, <3>1, ResponsesGoOn
    <3>4. CASE IsOver(t, state', u)
      <4>1. HasEnded' /\ state'.terminalSent
        BY <1>1, <1>7, <3>4 DEF HasEnded, Closed, IsOver
      <4>2. StreamInv'
        BY <1>5, <1>7, <1>12, <4>1 DEF StreamInv
      <4> QED
        BY <1>5, <4>2, Reassembling
    <3>5. CASE IsWaiting(t, state', OrElse(c.finish, t.finish))
      <4>1. IsState(state') /\ Plain(state'.out) /\ ~ state'.terminalSent
        BY <3>1, <3>5 DEF IsWaiting
      <4>2. StreamInv'
        BY <1>5, <1>7, <1>12, <4>1 DEF StreamInv
      <4> QED
        BY <1>5, <4>2, Reassembling
    <3> QED
      BY <3>3, <3>4, <3>5
  <2> QED
    BY <2>2, <2>3
<1> QED
  BY <1>8, <1>11, <1>12

LEMMA ChatDoneKeeps ==
    ASSUME EndsInv, ChatDone, IsTold
    PROVE  EndsInv'
<1> DEFINE q == [up EXCEPT !.phase = "ended"]
           event == [type |-> "done"]
<1>1. Receive(event, q) /\ pair[1] = "chat" /\ up.phase \in {"open", "finished"}
  BY DEF ChatDone
<1>2. KeepsOn(q) /\ q.phase = "ended" /\ q.reason = up.reason
  BY <1>1 DEF KeepsOn, EndsInv
<1> HIDE DEF q
<1>3. KeepsOn(up') /\ up'.phase = "ended" /\ up'.reason = up.reason /\ up'.last = event /\ ~ state.fatal
  BY <1>1, <1>2, Received
<1>4. pair \in Pairs /\ pair' = pair /\ state' = Translate(state, event)
  BY <1>3 DEF EndsInv, IsTold
<1>5. pair = <<"chat", "anthropic">> \/ pair = <<"chat", "responses">>
  BY <1>1, <1>4, PairsAssumption DEF Formats
<1>6. CASE pair = <<"chat", "anthropic">>
  <2>1. pair # <<"chat", "responses">>
    BY <1>6
  <2>2. state' = state
    BY <1>4, <2>1, DoneIsTold
  <2>3. HasEnded \/ (up.reason = None /\ IsState(state) /\ Plain(state.out))
    BY <1>1, <1>3, <1>6 DEF EndsInv, StreamInv, KeepsOn, Live
  <2>4. HasEnded => HasEnded'
    BY <1>1, <1>4, <2>2 DEF HasEnded
  <2>5. StreamInv'
    BY <1>3, <1>4, <1>6, <2>2, <2>3, <2>4 DEF StreamInv
  <2> QED
    BY <1>3, <2>5, Reassembling
<1>7. CASE pair = <<"chat", "responses">>
  <2>1. state' = EndResponses(state)
    BY <1>3, <1>4, <1>7 DEF Translate
  <2>2. HasEnded'
    <3>1. CASE state.terminalSent
      <4>1. HasEnded
        BY <1>1, <1>3, <1>7, <3>1 DEF EndsInv, StreamInv, Live
      <4>2. state' = state
        BY <2>1, <3>1 DEF EndResponses
      <4> QED
        BY <1>1, <1>4, <4>1, <4>2 DEF HasEnded
    <3>2. CASE ~ state.terminalSent
      <4>1. IsState(state) /\ Plain(state.out)
        BY <1>1, <1>3, <1>7, <3>2 DEF EndsInv, StreamInv, Live
      <4>2. PICK u : TRUE
        OBVIOUS
      <4>3. IsOver(state, Terminal(FlushAll(state)), u)
        BY <4>1, FlushedEnd
      <4>4. state' = Terminal(FlushAll(state))
        BY <2>1, <3>2 DEF EndResponses
      <4> QED
        BY <1>1, <1>4, <4>3, <4>4 DEF HasEnded, Closed, IsOver
    <3> QED
      BY <3>1, <3>2
  <2>3. StreamInv'
    BY <1>3, <2>2 DEF StreamInv
  <2> QED
    BY <1>3, <2>3, Reassembling
<1> QED
  BY <1>5, <1>6, <1>7

\* The events of an Anthropic upstream that its source reads.
LEMMA AnthropicIsTold ==
    ASSUME pair[1] = "anthropic", NEW s, ~ s.fatal, NEW event, event.type \in {"message_delta", "message_stop"}
    PROVE  Translate(s, event) =
            FoldLeft(ToClient, AnthropicSource(s, event).state, AnthropicSource(s, event).chunks)
<1>1. ~ IsRefused(event) /\ event.type # "done" /\ event.type # "error"
  BY DEF IsRefused
<1>2. Source(s, event) = AnthropicSource(s, event)
  BY <1>1 DEF Source
<1> QED
  BY <1>1, <1>2 DEF Translate

LEMMA AnthropicDeltaKeeps ==
    ASSUME EndsInv, AnthropicDelta, IsTold
    PROVE  EndsInv'
<1>1. PICK stop \in {"end_turn", "max_tokens", "tool_use"} :
        Receive([type |-> "message_delta", stop |-> stop, usage |-> TRUE],
                [up EXCEPT !.phase = "finished", !.usage = TRUE, !.reason = stop])
  BY DEF AnthropicDelta
<1> DEFINE event == [type |-> "message_delta", stop |-> stop, usage |-> TRUE]
           q == [up EXCEPT !.phase = "finished", !.usage = TRUE, !.reason = stop]
<1>2. Receive(event, q) /\ pair[1] = "anthropic" /\ up.phase = "open" /\ up.block = None
  BY <1>1 DEF AnthropicDelta
<1>4. KeepsOn(q) /\ q.phase = "finished"
  BY <1>2 DEF KeepsOn, EndsInv
<1>5. event.type = "message_delta"
  OBVIOUS
<1> HIDE DEF q, event
<1>6. KeepsOn(up') /\ up'.phase = "finished" /\ up'.last = event /\ ~ state.fatal
  BY <1>2, <1>4, Received
<1>7. pair \in Pairs /\ pair' = pair /\ state' = Translate(state, event)
  BY <1>6 DEF EndsInv, IsTold
<1>8. Live(state)
  BY <1>2, <1>6 DEF EndsInv, StreamInv
<1>9. PICK t : /\ AnthropicSource(state, event) = From(t)
               /\ IsState(t) /\ t.out = state.out /\ t.fatal = state.fatal
               /\ t.terminalSent = state.terminalSent /\ t.finishSent = state.finishSent
  BY <1>5, <1>6, <1>8, FinishIsRead DEF Live
<1>10. Translate(state, event) = FoldLeft(ToClient, From(t).state, From(t).chunks)
  BY <1>2, <1>5, <1>6, <1>9, AnthropicIsTold
<1>11. From(t).state = t /\ From(t).chunks = <<>>
  BY DEF From
<1>12. state' = t
  BY <1>7, <1>10, <1>11, NoChunks
<1>13. Live(state')
  BY <1>8, <1>9, <1>12 DEF Live
<1>14. StreamInv'
  BY <1>2, <1>6, <1>7, <1>13 DEF StreamInv
<1> QED
  BY <1>6, <1>14, Reassembling

LEMMA AnthropicStopKeeps ==
    ASSUME EndsInv, AnthropicStop, IsTold
    PROVE  EndsInv'
<1> DEFINE event == [type |-> "message_stop"]
           q == [up EXCEPT !.phase = "ended"]
           u == up'.usage
           given == AnthropicSource(state, event)
<1>1. Receive(event, q) /\ pair[1] = "anthropic" /\ up.phase = "finished"
  BY DEF AnthropicStop
<1>2. KeepsOn(q) /\ q.phase = "ended"
  BY <1>1 DEF KeepsOn, EndsInv
<1>3. event.type = "message_stop"
  OBVIOUS
<1> HIDE DEF q, event
<1>4. KeepsOn(up') /\ up'.phase = "ended" /\ up'.last = event /\ ~ state.fatal
  BY <1>1, <1>2, Received
<1>5. pair \in Pairs /\ pair' = pair /\ state' = Translate(state, event) /\ ~ cumulative
  BY <1>1, <1>4 DEF EndsInv, IsTold
<1>6. pair[2] # "anthropic"
  BY <1>1, <1>5, PairsAssumption DEF Formats
<1>7. Live(state)
  BY <1>1 DEF EndsInv, StreamInv
<1>8. state' = FoldLeft(ToClient, given.state, given.chunks)
  BY <1>1, <1>3, <1>4, <1>5, AnthropicIsTold
<1>9. u = up'.usage
  OBVIOUS
<1> HIDE DEF u
<1>10. Concludes(state, given, u)
  BY <1>3, <1>4, <1>6, <1>7, StopIsRead DEF Live
<1> HIDE DEF given
<1>11. Closed(state', u)
  BY <1>5, <1>7, <1>8, <1>10, GivenEnds
<1>12. HasEnded'
  BY <1>9, <1>11 DEF HasEnded
<1>13. StreamInv'
  BY <1>4, <1>12 DEF StreamInv
<1> QED
  BY <1>4, <1>13, Reassembling

LEMMA AnthropicErrorKeeps ==
    ASSUME EndsInv, AnthropicError, IsTold
    PROVE  EndsInv'
<1> DEFINE event == [type |-> "error"]
           q == [up EXCEPT !.phase = "ended", !.block = None, !.reason = "error"]
           u == up'.usage
<1>1. Receive(event, q) /\ pair[1] = "anthropic" /\ up.phase \in {"start", "open"}
  BY DEF AnthropicError
<1>2. KeepsOn(q) /\ q.phase = "ended"
  BY <1>1 DEF KeepsOn, EndsInv
<1> HIDE DEF q
<1>3. KeepsOn(up') /\ up'.phase = "ended" /\ up'.last = event /\ ~ state.fatal
  BY <1>1, <1>2, Received
<1>4. pair \in Pairs /\ pair' = pair /\ state' = Translate(state, event)
  BY <1>3 DEF EndsInv, IsTold
<1>5. state' = ErrorToClient(state)
  BY <1>3, <1>4 DEF Translate
<1>6. IsState(state) /\ Plain(state.out)
  BY <1>1, <1>3 DEF EndsInv, StreamInv, Live
<1>7. u = up'.usage
  OBVIOUS
<1> HIDE DEF u
<1>8. Closed(state', u)
  BY <1>4, <1>5, <1>6, ErrorsEnd DEF Closed
<1>9. HasEnded'
  BY <1>7, <1>8 DEF HasEnded
<1>10. StreamInv'
  BY <1>3, <1>9 DEF StreamInv
<1> QED
  BY <1>3, <1>10, Reassembling

LEMMA ResponsesTerminalKeeps ==
    ASSUME EndsInv, ResponsesTerminal, IsTold
    PROVE  EndsInv'
<1> DEFINE calls == [i \in DOMAIN up.calls |-> IF IsOpen(i) THEN Ended(i, InputOf(i)) ELSE up.calls[i]]
           output == [i \in DOMAIN calls |->
                        [id |-> i, kind |-> IF i \in up.customs THEN "custom" ELSE "function",
                         args |-> SelectSeq(calls[i].args, LAMBDA c : c = "x")]]
<1>1. PICK type \in Terminals :
        Receive([type |-> type, usage |-> TRUE,
                 reason |-> IF type = "incomplete" THEN "length" ELSE "error", output |-> output],
                [up EXCEPT !.phase = "ended", !.calls = calls, !.usage = TRUE, !.reason = type])
  BY DEF ResponsesTerminal
<1> DEFINE event == [type |-> type, usage |-> TRUE,
                     reason |-> IF type = "incomplete" THEN "length" ELSE "error", output |-> output]
           q == [up EXCEPT !.phase = "ended", !.calls = calls, !.usage = TRUE, !.reason = type]
           given == TerminalRead(state, event)
<1>2. Receive(event, q) /\ pair[1] = "responses" /\ up.phase = "open"
  BY <1>1 DEF ResponsesTerminal
<1>3. IsCalls(up.calls) /\ Len(up.calls) \in Nat /\ DOMAIN up.calls = 1..Len(up.calls)
  BY DEF EndsInv, KeepsOn, IsCalls, IsList
<1>4. IsCalls(calls)
  <2>1. DOMAIN calls = 1..Len(up.calls)
    BY <1>3
  <2>2. ASSUME NEW i \in DOMAIN calls PROVE "index" \in DOMAIN calls[i] /\ calls[i].index \in Nat
    <3>1. "index" \in DOMAIN up.calls[i] /\ up.calls[i].index \in Nat
      BY <1>3 DEF IsCalls
    <3>2. calls[i] = Ended(i, InputOf(i)) \/ calls[i] = up.calls[i]
      OBVIOUS
    <3> QED
      BY <3>1, <3>2 DEF Ended
  <2>3. calls = [i \in DOMAIN calls |-> calls[i]]
    OBVIOUS
  <2> HIDE DEF calls
  <2> DEFINE T == {calls[i] : i \in DOMAIN calls}
  <2>4. calls \in [1..Len(up.calls) -> T]
    BY <2>1, <2>3
  <2> HIDE DEF T
  <2>5. calls \in Seq(T) /\ Len(calls) = Len(up.calls)
    BY <1>3, <2>1, <2>4
  <2>6. IsList(calls)
    BY <2>5, SequencesAreLists
  <2> QED
    BY <2>1, <2>2, <2>5, <2>6 DEF IsCalls
<1>5. IsList(output)
  <2>1. DOMAIN output = 1..Len(up.calls) /\ output = [i \in DOMAIN output |-> output[i]]
    BY <1>3
  <2> HIDE DEF output
  <2> DEFINE T == {output[i] : i \in DOMAIN output}
  <2>2. output \in [1..Len(up.calls) -> T]
    BY <2>1
  <2> HIDE DEF T
  <2>3. output \in Seq(T)
    BY <1>3, <2>2
  <2> QED
    BY <2>3, SequencesAreLists
<1> HIDE DEF calls, output
<1>6. KeepsOn(q) /\ q.phase = "ended" /\ q.usage = TRUE
  BY <1>2, <1>4 DEF KeepsOn, EndsInv
<1>7. /\ event.type \in {"completed", "incomplete", "failed"} /\ IsList(event.output) /\ event.usage = TRUE
      /\ event.reason \in {"length", "error"}
  BY <1>5 DEF Terminals
<1> HIDE DEF q, event
<1>8. KeepsOn(up') /\ up'.phase = "ended" /\ up'.last = event /\ ~ state.fatal /\ up'.usage = TRUE
  BY <1>2, <1>6, Received
<1>9. pair \in Pairs /\ pair' = pair /\ state' = Translate(state, event) /\ ~ cumulative
  BY <1>2, <1>8 DEF EndsInv, IsTold
<1>10. Live(state)
  BY <1>2, <1>8 DEF EndsInv, StreamInv
<1>11. state' = FoldLeft(ToClient, given.state, given.chunks)
  <2>1. ~ IsRefused(event) /\ event.type # "done" /\ event.type # "error"
    BY <1>7 DEF IsRefused
  <2>2. Source(state, event) = ResponsesSource(state, event)
    BY <1>2, <2>1 DEF Source
  <2>3. ResponsesSource(state, event) = given
    BY <1>7 DEF ResponsesSource
  <2> HIDE DEF given
  <2> QED
    BY <1>8, <1>9, <2>1, <2>2, <2>3 DEF Translate
<1>12. Concludes(state, given, TRUE)
  BY <1>7, <1>10, TerminalIsRead DEF Live
<1> HIDE DEF given
<1> DEFINE u == up'.usage
<1>13. u = up'.usage /\ u = TRUE
  BY <1>8
<1> HIDE DEF u
<1>14. Concludes(state, given, u)
  BY <1>12, <1>13
<1>15. Closed(state', u)
  BY <1>9, <1>10, <1>11, <1>14, GivenEnds
<1>16. HasEnded'
  BY <1>13, <1>15 DEF HasEnded
<1>17. StreamInv'
  BY <1>8, <1>16 DEF StreamInv
<1> QED
  BY <1>8, <1>17, Reassembling

LEMMA UpstreamKeeps ==
    ASSUME EndsInv, Next
    PROVE  EndsInv'
<1>1. Upstream /\ IsTold
  BY DEF Next, IsTold
<1>2. KeepsOn(up)
  BY DEF EndsInv
<1>3. CASE \/ ChatText \/ ChatRefusal \/ ChatCall \/ ChatArguments \/ ChatRenumbered \/ ChatSecondChoice
  <2>1. SaysMore
    BY <1>2, <1>3, ChatSaysText, ChatRefuses, ChatTellsCalls, ChatSaysArguments, ChatRenumbers, ChatChooses
  <2> QED
    BY <1>1, <2>1, GoingOnKeeps
<1>4. CASE \/ AnthropicStart \/ AnthropicBlock \/ AnthropicCall \/ AnthropicText \/ AnthropicThinking
           \/ AnthropicArguments \/ AnthropicSeededArguments \/ AnthropicBlockStop
  <2>1. SaysMore
    BY <1>2, <1>4, AnthropicStarts, AnthropicStartsBlock, AnthropicTellsCalls, AnthropicSaysText,
       AnthropicSaysArguments, AnthropicStopsBlock
  <2> QED
    BY <1>1, <2>1, GoingOnKeeps
<1>5. CASE \/ ResponsesCreated \/ ResponsesText \/ ResponsesRefusal \/ ResponsesRefusalDone \/ ResponsesReasoning
           \/ ResponsesCall \/ ResponsesArguments \/ ResponsesInputDone \/ ResponsesAudio
  <2>1. SaysMore
    BY <1>2, <1>5, ResponsesStarts, ResponsesSaysText, ResponsesRepeats, ResponsesTellsCalls,
       ResponsesSaysArguments, ResponsesEndsInput
  <2> QED
    BY <1>1, <2>1, GoingOnKeeps
<1>6. CASE ChatFinish
  BY <1>1, <1>6, ChatFinishKeeps
<1>7. CASE ChatUsage
  BY <1>1, <1>7, ChatUsageKeeps
<1>8. CASE ChatDone
  BY <1>1, <1>8, ChatDoneKeeps
<1>9. CASE AnthropicDelta
  BY <1>1, <1>9, AnthropicDeltaKeeps
<1>10. CASE AnthropicStop
  BY <1>1, <1>10, AnthropicStopKeeps
<1>11. CASE AnthropicError
  BY <1>1, <1>11, AnthropicErrorKeeps
<1>12. CASE ResponsesTerminal
  BY <1>1, <1>12, ResponsesTerminalKeeps
<1> QED
  BY <1>1, <1>3, <1>4, <1>5, <1>6, <1>7, <1>8, <1>9, <1>10, <1>11, <1>12 DEF Upstream

LEMMA EndsStay ==
    ASSUME EndsInv, UNCHANGED vars
    PROVE  EndsInv'
<1>1. pair' = pair /\ cumulative' = cumulative /\ up' = up /\ state' = state
  BY DEF vars
<1>2. pair \in Pairs /\ (cumulative => pair[1] = "chat") /\ KeepsOn(up) /\ StreamInv
  BY DEF EndsInv
<1>3. KeepsOn(up)'
  BY <1>1, <1>2 DEF KeepsOn
<1>4. HasEnded => HasEnded'
  BY <1>1 DEF HasEnded
<1>5. StreamInv'
  BY <1>1, <1>2, <1>4 DEF StreamInv
<1> QED
  BY <1>1, <1>2, <1>3, <1>5 DEF EndsInv

LEMMA StreamsStart ==
    ASSUME Init
    PROVE  EndsInv
<1>1. IsState(InitialState) /\ InitialState.out = <<>>
  <2>1. <<>> \in Seq({}) /\ Len(<<>>) = 0
    OBVIOUS
  <2>2. IsList(<<>>)
    BY <2>1, SequencesAreLists
  <2>3. DOMAIN NoCalls = {} /\ DOMAIN NoBlocks = {}
    BY DEF NoCalls, NoBlocks
  <2>4. Bounded({})
    BY DEF Bounded
  <2> QED
    BY <2>2, <2>3, <2>4 DEF IsState, Tracked, InitialState
<1>2. Live(InitialState) /\ InitialState.finish = None
  BY <1>1 DEF Live, Plain, InitialState
<1>3. KeepsOn(up)
  <2>1. <<>> \in Seq({}) /\ Len(<<>>) = 0
    OBVIOUS
  <2>2. IsList(<<>>)
    BY <2>1, SequencesAreLists
  <2> QED
    BY <2>1, <2>2 DEF Init, KeepsOn, IsCalls
<1>4. up.phase = "start" /\ state = InitialState
  BY DEF Init
<1>5. StreamInv
  BY <1>2, <1>4 DEF StreamInv
<1> QED
  BY <1>3, <1>5 DEF Init, EndsInv

\* What the invariant says of what the client has got.
LEMMA EndsAreTold ==
    ASSUME EndsInv
    PROVE  EndsOnce
<1>1. \/ /\ Plain(state.out) /\ IsState(state)
         /\ up.phase = "ended" => pair = <<"chat", "anthropic">> /\ up.reason = None
      \/ HasEnded
  <2>1. pair \in Pairs /\ StreamInv /\ up.phase \in {"start", "open", "finished", "ended"}
    BY DEF EndsInv, KeepsOn
  <2>2. CASE up.phase \in {"start", "open"}
    BY <2>1, <2>2 DEF StreamInv, Live
  <2>3. CASE up.phase = "finished"
    <3>1. pair = <<"chat", "anthropic">> \/ pair = <<"chat", "responses">> \/ pair[1] = "anthropic"
      BY <2>1, <2>3, PairsAssumption DEF StreamInv, Formats
    <3> QED
      BY <2>1, <2>3, <3>1 DEF StreamInv, Live
  <2>4. CASE up.phase = "ended"
    BY <2>1, <2>4 DEF StreamInv
  <2> QED
    BY <2>1, <2>2, <2>3, <2>4
<1>2. out = state.out
  BY DEF out
<1>3. CASE /\ Plain(state.out) /\ IsState(state)
           /\ up.phase = "ended" => pair = <<"chat", "anthropic">> /\ up.reason = None
  <2>1. DOMAIN out = 1..Len(out)
    BY <1>2, <1>3 DEF IsState, IsList
  <2>2. Ends = {}
    BY <1>2, <1>3, <2>1 DEF Plain, IsEnd, Ends, Is
  <2>3. NothingFollowsTheEnd
    BY <2>2 DEF NothingFollowsTheEnd
  <2>4. TurnsEnd
    BY <1>3 DEF TurnsEnd
  <2>5. UsageIsTold
    BY <1>2, <1>3, <2>1 DEF UsageIsTold, Positions, Is, Plain
  <2> QED
    BY <2>3, <2>4, <2>5 DEF EndsOnce
<1>4. CASE HasEnded
  <2>1. PICK u : Closed(state, u) /\ (pair[1] # "chat" => u = up.usage)
    BY <1>4 DEF HasEnded
  <2>2. DOMAIN out = 1..Len(out)
    BY <1>2, <2>1 DEF Closed, IsState, IsList
  <2>3. \A i \in 1..Len(out) : i \in Ends <=> IsEnd(out[i])
    BY <2>2 DEF Ends, IsEnd, Is
  <2>4. Over(out, u) /\ Len(out) \in Nat /\ Ends \subseteq 1..Len(out)
    BY <1>2, <2>1, <2>2 DEF Closed, IsState, IsList, Ends
  <2>5. NothingFollowsTheEnd
    BY <2>2, <2>3, <2>4 DEF NothingFollowsTheEnd, Over, Is
  <2>6. TurnsEnd
    BY <2>3, <2>4 DEF TurnsEnd, Over
  <2>7. UsageIsTold
    BY <2>1, <2>2, <2>4 DEF UsageIsTold, Positions, Is, Over
  <2> QED
    BY <2>5, <2>6, <2>7 DEF EndsOnce
<1> QED
  BY <1>1, <1>3, <1>4

\* A client's stream ends once, when its upstream's turn does, with the usage it told,
\* whatever is said before, however many calls it has and whichever formats it is translated
\* between (translate_sse_event, openai_chunk_to_claude_sse, openai_chunk_to_responses_sse,
\* emit_openai_responses_terminal).
THEOREM EndsExactlyOnce == Spec => []EndsOnce
<1>1. Init => EndsInv
  BY StreamsStart
<1>2. EndsInv /\ [Next]_vars => EndsInv'
  BY EndsStay, UpstreamKeeps
<1>3. EndsInv => EndsOnce
  BY EndsAreTold
<1> QED
  BY <1>1, <1>2, <1>3, PTL DEF Spec

-----------------------------------------------------------------------------
(* The blocks of an Anthropic message *)

Starts(l) == {i \in 1..Len(l) : l[i].type = "block_start"}
Stopped(l, b) == \E k \in 1..Len(l) : l[k].type = "block_stop" /\ l[k].index = b

\* BlocksArePaired of a list of events, with the events before each instead of their number.
Paired(l) ==
    /\ \A i \in Starts(l) : l[i].index = Cardinality({j \in Starts(l) : j < i})
    /\ \A i \in 1..Len(l) : l[i].type = "block_delta" =>
        /\ \E j \in Starts(l) : j < i /\ l[j].index = l[i].index /\ l[j].kind = l[i].kind
        /\ \A k \in 1..Len(l) : k < i /\ l[k].type = "block_stop" => l[k].index # l[i].index
    /\ \A i \in 1..Len(l) : l[i].type = "block_stop" =>
        /\ \E j \in Starts(l) : j < i /\ l[j].index = l[i].index
        /\ \A k \in 1..Len(l) : k < i /\ l[k].type = "block_stop" => l[k].index # l[i].index
    /\ \A i \in 1..Len(l) : l[i].type = "message_stop" =>
        \A j \in Starts(l) : \E k \in 1..Len(l) : k < i /\ l[k].type = "block_stop" /\ l[k].index = l[j].index

\* What may come next.
Fits(l, e) ==
    /\ e.type = "block_start" =>
        /\ e.index = Cardinality(Starts(l))
        /\ \A i \in 1..Len(l) : l[i].type # "message_stop"
    /\ e.type = "block_delta" =>
        (\E j \in Starts(l) : l[j].index = e.index /\ l[j].kind = e.kind) /\ ~ Stopped(l, e.index)
    /\ e.type = "block_stop" => (\E j \in Starts(l) : l[j].index = e.index) /\ ~ Stopped(l, e.index)
    /\ e.type = "message_stop" => \A j \in Starts(l) : Stopped(l, l[j].index)

LEMMA StartsGrow ==
    ASSUME NEW l, IsList(l), NEW e
    PROVE  /\ Starts(l) \subseteq 1..Len(l) /\ Len(l) \in Nat
           /\ e.type = "block_start" => Starts(Append(l, e)) = Starts(l) \cup {Len(l) + 1}
           /\ e.type # "block_start" => Starts(Append(l, e)) = Starts(l)
<1> DEFINE m == Append(l, e)
<1>1. /\ Len(l) \in Nat /\ Len(m) = Len(l) + 1
      /\ \A i \in 1..Len(l) : m[i] = l[i]
      /\ m[Len(l) + 1] = e
  BY Appending DEF IsList
<1> HIDE DEF m
<1>2. ASSUME NEW i PROVE i \in Starts(m) <=> i \in Starts(l) \/ (i = Len(l) + 1 /\ e.type = "block_start")
  <2>1. i \in 1..Len(m) <=> i \in 1..Len(l) \/ i = Len(l) + 1
    BY <1>1
  <2>2. ~ (Len(l) + 1 \in 1..Len(l))
    BY <1>1
  <2> QED
    BY <1>1, <2>1, <2>2 DEF Starts
<1>3. Starts(l) \subseteq 1..Len(l)
  BY DEF Starts
<1>4. e.type = "block_start" => Starts(m) = Starts(l) \cup {Len(l) + 1}
  BY <1>2
<1>5. e.type # "block_start" => Starts(m) = Starts(l)
  BY <1>2
<1> QED
  BY <1>1, <1>3, <1>4, <1>5 DEF m

LEMMA PairedGrows ==
    ASSUME NEW l, IsList(l), Paired(l), NEW e, Fits(l, e)
    PROVE  Paired(Append(l, e))
<1> DEFINE m == Append(l, e)
           n == Len(l) + 1
<1>1. /\ Len(l) \in Nat /\ Len(m) = n /\ n \in Nat
      /\ \A i \in 1..Len(l) : m[i] = l[i]
      /\ m[n] = e
  BY Appending DEF IsList
<1>2. /\ Starts(l) \subseteq 1..Len(l)
      /\ e.type = "block_start" => Starts(m) = Starts(l) \cup {n}
      /\ e.type # "block_start" => Starts(m) = Starts(l)
  BY StartsGrow
<1>3. n = Len(l) + 1
  OBVIOUS
<1> HIDE DEF m, n
<1>4. /\ \A i \in 1..Len(m) : i \in 1..Len(l) \/ i = n
      /\ \A i \in 1..Len(l) : i \in 1..Len(m) /\ i < n /\ ~ (n < i)
      /\ ~ (n < n) /\ n \in 1..Len(m)
  BY <1>1, <1>3
<1>5. Starts(l) \subseteq Starts(m)
  BY <1>2
<1>6. ASSUME NEW i \in Starts(m) PROVE m[i].index = Cardinality({j \in Starts(m) : j < i})
  <2>1. CASE i \in Starts(l)
    <3>1. {j \in Starts(m) : j < i} = {j \in Starts(l) : j < i}
      BY <1>2, <1>4, <2>1
    <3> QED
      BY <1>1, <1>2, <2>1, <3>1 DEF Paired
  <2>2. CASE i \notin Starts(l)
    <3>1. i = n /\ e.type = "block_start"
      BY <1>2, <2>2
    <3>2. {j \in Starts(m) : j < i} = Starts(l)
      BY <1>2, <1>4, <3>1
    <3> QED
      BY <1>1, <3>1, <3>2 DEF Fits
  <2> QED
    BY <2>1, <2>2
<1>7. ASSUME NEW i \in 1..Len(m), m[i].type = "block_delta"
      PROVE  /\ \E j \in Starts(m) : j < i /\ m[j].index = m[i].index /\ m[j].kind = m[i].kind
             /\ \A k \in 1..Len(m) : k < i /\ m[k].type = "block_stop" => m[k].index # m[i].index
  <2>1. CASE i \in 1..Len(l)
    <3>1. l[i].type = "block_delta" /\ m[i] = l[i]
      BY <1>1, <1>7, <2>1
    <3>2. PICK j \in Starts(l) : j < i /\ l[j].index = l[i].index /\ l[j].kind = l[i].kind
      BY <2>1, <3>1 DEF Paired
    <3>3. j \in Starts(m) /\ m[j] = l[j]
      BY <1>1, <1>2, <1>5
    <3>4. ASSUME NEW k \in 1..Len(m), k < i, m[k].type = "block_stop" PROVE m[k].index # m[i].index
      <4>1. k \in 1..Len(l)
        BY <1>4, <2>1, <3>4
      <4> QED
        BY <1>1, <2>1, <3>1, <3>4, <4>1 DEF Paired
    <3> QED
      BY <3>1, <3>2, <3>3, <3>4
  <2>2. CASE i = n
    <3>1. m[i] = e /\ e.type = "block_delta"
      BY <1>1, <1>7, <2>2
    <3>2. PICK j \in Starts(l) : l[j].index = e.index /\ l[j].kind = e.kind
      BY <3>1 DEF Fits
    <3>3. j \in Starts(m) /\ m[j] = l[j] /\ j < i
      BY <1>1, <1>2, <1>4, <1>5, <2>2
    <3>4. ASSUME NEW k \in 1..Len(m), k < i, m[k].type = "block_stop" PROVE m[k].index # m[i].index
      <4>1. k \in 1..Len(l)
        BY <1>4, <2>2, <3>4
      <4> QED
        BY <1>1, <3>1, <3>4, <4>1 DEF Fits, Stopped
    <3> QED
      BY <3>1, <3>2, <3>3, <3>4
  <2> QED
    BY <1>4, <2>1, <2>2
<1>8. ASSUME NEW i \in 1..Len(m), m[i].type = "block_stop"
      PROVE  /\ \E j \in Starts(m) : j < i /\ m[j].index = m[i].index
             /\ \A k \in 1..Len(m) : k < i /\ m[k].type = "block_stop" => m[k].index # m[i].index
  <2>1. CASE i \in 1..Len(l)
    <3>1. l[i].type = "block_stop" /\ m[i] = l[i]
      BY <1>1, <1>8, <2>1
    <3>2. PICK j \in Starts(l) : j < i /\ l[j].index = l[i].index
      BY <2>1, <3>1 DEF Paired
    <3>3. j \in Starts(m) /\ m[j] = l[j]
      BY <1>1, <1>2, <1>5
    <3>4. ASSUME NEW k \in 1..Len(m), k < i, m[k].type = "block_stop" PROVE m[k].index # m[i].index
      <4>1. k \in 1..Len(l)
        BY <1>4, <2>1, <3>4
      <4> QED
        BY <1>1, <2>1, <3>1, <3>4, <4>1 DEF Paired
    <3> QED
      BY <3>1, <3>2, <3>3, <3>4
  <2>2. CASE i = n
    <3>1. m[i] = e /\ e.type = "block_stop"
      BY <1>1, <1>8, <2>2
    <3>2. PICK j \in Starts(l) : l[j].index = e.index
      BY <3>1 DEF Fits
    <3>3. j \in Starts(m) /\ m[j] = l[j] /\ j < i
      BY <1>1, <1>2, <1>4, <1>5, <2>2
    <3>4. ASSUME NEW k \in 1..Len(m), k < i, m[k].type = "block_stop" PROVE m[k].index # m[i].index
      <4>1. k \in 1..Len(l)
        BY <1>4, <2>2, <3>4
      <4> QED
        BY <1>1, <3>1, <3>4, <4>1 DEF Fits, Stopped
    <3> QED
      BY <3>1, <3>2, <3>3, <3>4
  <2> QED
    BY <1>4, <2>1, <2>2
<1>9. ASSUME NEW i \in 1..Len(m), m[i].type = "message_stop", NEW j \in Starts(m)
      PROVE  \E k \in 1..Len(m) : k < i /\ m[k].type = "block_stop" /\ m[k].index = m[j].index
  <2>1. e.type # "block_start"
    <3>1. ASSUME e.type = "block_start" PROVE FALSE
      <4>1. i \in 1..Len(l)
        BY <1>1, <1>4, <1>9, <3>1
      <4> QED
        BY <1>1, <1>9, <3>1, <4>1 DEF Fits
    <3> QED
      BY <3>1
  <2>2. j \in Starts(l) /\ m[j] = l[j]
    BY <1>1, <1>2, <2>1
  <2>3. CASE i \in 1..Len(l)
    <3>1. PICK k \in 1..Len(l) : k < i /\ l[k].type = "block_stop" /\ l[k].index = l[j].index
      BY <1>1, <1>9, <2>2, <2>3 DEF Paired
    <3> QED
      BY <1>1, <1>4, <2>2, <3>1
  <2>4. CASE i = n
    <3>1. PICK k \in 1..Len(l) : l[k].type = "block_stop" /\ l[k].index = l[j].index
      BY <1>1, <1>9, <2>2, <2>4 DEF Fits, Stopped
    <3> QED
      BY <1>1, <1>4, <2>2, <2>4, <3>1
  <2> QED
    BY <1>4, <2>3, <2>4
<1>10. Paired(m)
  BY <1>6, <1>7, <1>8, <1>9 DEF Paired
<1> QED
  BY <1>10 DEF m

\* n blocks were started, each under the next number, and the message is not over.
Ledger(l, n) ==
    /\ IsList(l) /\ n \in Nat /\ Paired(l)
    /\ \A i \in 1..Len(l) : l[i].type # "message_stop"
    /\ IsFiniteSet(Starts(l)) /\ Cardinality(Starts(l)) = n
    /\ \A i \in Starts(l) : l[i].index \in Nat /\ l[i].index < n
    /\ \A i, j \in Starts(l) : l[i].index = l[j].index => i = j

\* The blocks that were started and not stopped.
OpenIn(l) == {<<l[i].index, l[i].kind>> : i \in {j \in Starts(l) : ~ Stopped(l, l[j].index)}}

\* An event that is about no block.
IsAside(e) == e.type \notin {"block_start", "block_delta", "block_stop", "message_stop"}

LEMMA StopsGrow ==
    ASSUME NEW l, IsList(l), NEW e, NEW b
    PROVE  Stopped(Append(l, e), b) <=> Stopped(l, b) \/ (e.type = "block_stop" /\ e.index = b)
<1> DEFINE m == Append(l, e)
           n == Len(l) + 1
<1>1. /\ Len(l) \in Nat /\ Len(m) = n
      /\ \A i \in 1..Len(l) : m[i] = l[i]
      /\ m[n] = e
  BY Appending DEF IsList
<1>2. \A k : k \in 1..Len(m) <=> k \in 1..Len(l) \/ k = n
  BY <1>1
<1> HIDE DEF m, n
<1>3. Stopped(m, b) <=> Stopped(l, b) \/ (e.type = "block_stop" /\ e.index = b)
  BY <1>1, <1>2 DEF Stopped
<1> QED
  BY <1>3 DEF m

\* A block that was stopped has been started.
LEMMA StoppedWasStarted ==
    ASSUME NEW l, Paired(l), NEW b, Stopped(l, b)
    PROVE  \E j \in Starts(l) : l[j].index = b
BY DEF Stopped, Paired

LEMMA LedgerAside ==
    ASSUME NEW l, NEW n, Ledger(l, n), NEW e, IsAside(e)
    PROVE  Ledger(Append(l, e), n) /\ OpenIn(Append(l, e)) = OpenIn(l)
<1> DEFINE m == Append(l, e)
<1>1. IsList(l) /\ Paired(l) /\ Fits(l, e)
  BY DEF Ledger, Fits, IsAside
<1>2. /\ Len(l) \in Nat /\ Len(m) = Len(l) + 1 /\ IsList(m)
      /\ \A i \in 1..Len(l) : m[i] = l[i]
      /\ m[Len(l) + 1] = e
  BY <1>1, Appending DEF IsList
<1>3. Starts(m) = Starts(l) /\ Starts(l) \subseteq 1..Len(l)
  BY <1>1, StartsGrow DEF IsAside
<1>4. Paired(m)
  BY <1>1, PairedGrows
<1>5. \A b : Stopped(m, b) <=> Stopped(l, b)
  BY <1>1, StopsGrow DEF IsAside
<1> HIDE DEF m
<1>6. \A i \in 1..Len(m) : m[i].type # "message_stop"
  BY <1>2 DEF Ledger, IsAside
<1>7. \A i \in Starts(l) : m[i] = l[i]
  BY <1>2, <1>3
<1>8. Ledger(m, n)
  BY <1>2, <1>3, <1>4, <1>6, <1>7 DEF Ledger
<1>9. OpenIn(m) = OpenIn(l)
  BY <1>3, <1>5, <1>7 DEF OpenIn
<1> QED
  BY <1>8, <1>9 DEF m

LEMMA LedgerDelta ==
    ASSUME NEW l, NEW n, Ledger(l, n), NEW e, e.type = "block_delta", <<e.index, e.kind>> \in OpenIn(l)
    PROVE  Ledger(Append(l, e), n) /\ OpenIn(Append(l, e)) = OpenIn(l)
<1> DEFINE m == Append(l, e)
<1>1. IsList(l) /\ Paired(l) /\ Fits(l, e)
  <2>1. PICK j \in Starts(l) : ~ Stopped(l, l[j].index) /\ <<e.index, e.kind>> = <<l[j].index, l[j].kind>>
    BY DEF OpenIn
  <2>2. l[j].index = e.index /\ l[j].kind = e.kind
    BY <2>1
  <2> QED
    BY <2>1, <2>2 DEF Ledger, Fits
<1>2. /\ Len(l) \in Nat /\ Len(m) = Len(l) + 1 /\ IsList(m)
      /\ \A i \in 1..Len(l) : m[i] = l[i]
      /\ m[Len(l) + 1] = e
  BY <1>1, Appending DEF IsList
<1>3. Starts(m) = Starts(l) /\ Starts(l) \subseteq 1..Len(l)
  BY <1>1, StartsGrow
<1>4. Paired(m)
  BY <1>1, PairedGrows
<1>5. \A b : Stopped(m, b) <=> Stopped(l, b)
  BY <1>1, StopsGrow
<1> HIDE DEF m
<1>6. \A i \in 1..Len(m) : m[i].type # "message_stop"
  BY <1>2 DEF Ledger
<1>7. \A i \in Starts(l) : m[i] = l[i]
  BY <1>2, <1>3
<1>8. Ledger(m, n)
  BY <1>2, <1>3, <1>4, <1>6, <1>7 DEF Ledger
<1>9. OpenIn(m) = OpenIn(l)
  BY <1>3, <1>5, <1>7 DEF OpenIn
<1> QED
  BY <1>8, <1>9 DEF m

LEMMA LedgerStart ==
    ASSUME NEW l, NEW n, Ledger(l, n), NEW e, e.type = "block_start", e.index = n
    PROVE  Ledger(Append(l, e), n + 1) /\ OpenIn(Append(l, e)) = OpenIn(l) \cup {<<n, e.kind>>}
<1> DEFINE m == Append(l, e)
           p == Len(l) + 1
<1>1. IsList(l) /\ Paired(l) /\ n \in Nat /\ Fits(l, e)
  BY DEF Ledger, Fits
<1>2. /\ Len(l) \in Nat /\ Len(m) = p /\ IsList(m)
      /\ \A i \in 1..Len(l) : m[i] = l[i]
      /\ m[p] = e
  BY <1>1, Appending DEF IsList
<1>3. Starts(m) = Starts(l) \cup {p} /\ Starts(l) \subseteq 1..Len(l) /\ ~ (p \in 1..Len(l))
  BY <1>1, <1>2, StartsGrow
<1>4. Paired(m)
  BY <1>1, PairedGrows
<1>5. \A b : Stopped(m, b) <=> Stopped(l, b)
  BY <1>1, StopsGrow
<1> HIDE DEF m, p
<1>6. \A i \in 1..Len(m) : m[i].type # "message_stop"
  <2>1. \A i \in 1..Len(m) : i \in 1..Len(l) \/ i = p
    BY <1>1, <1>2, Appending DEF p, m
  <2> QED
    BY <1>2, <2>1 DEF Ledger
<1>7. \A i \in Starts(l) : m[i] = l[i]
  BY <1>2, <1>3
<1>8. IsFiniteSet(Starts(m)) /\ Cardinality(Starts(m)) = n + 1
  <2>1. p \notin Starts(l) /\ IsFiniteSet(Starts(l)) /\ Cardinality(Starts(l)) = n
    BY <1>3 DEF Ledger
  <2> QED
    BY <1>3, <2>1, FS_AddElement
<1>9. \A i \in Starts(m) : m[i].index \in Nat /\ m[i].index < n + 1
  <2>1. \A i \in Starts(l) : l[i].index \in Nat /\ l[i].index < n + 1
    BY <1>1 DEF Ledger
  <2>2. n \in Nat /\ n < n + 1
    BY <1>1
  <2> QED
    BY <1>2, <1>3, <1>7, <2>1, <2>2
<1>10. ASSUME NEW i \in Starts(m), NEW j \in Starts(m), m[i].index = m[j].index PROVE i = j
  <2>1. \A k \in Starts(l) : l[k].index \in Nat /\ l[k].index # n
    BY <1>1 DEF Ledger
  <2>2. \A k \in Starts(m) : k \in Starts(l) \/ k = p
    BY <1>3
  <2> QED
    BY <1>2, <1>7, <1>10, <2>1, <2>2 DEF Ledger
<1>11. Ledger(m, n + 1)
  BY <1>1, <1>2, <1>4, <1>6, <1>8, <1>9, <1>10 DEF Ledger
<1>12. ~ Stopped(l, n)
  <2>1. \A k \in Starts(l) : l[k].index # n
    BY <1>1 DEF Ledger
  <2> QED
    BY <1>1, <2>1, StoppedWasStarted
<1>13. ASSUME NEW x PROVE x \in OpenIn(m) <=> x \in OpenIn(l) \cup {<<n, e.kind>>}
  BY <1>2, <1>3, <1>5, <1>7, <1>12 DEF OpenIn
<1>14. OpenIn(m) = OpenIn(l) \cup {<<n, e.kind>>}
  BY <1>13
<1> QED
  BY <1>11, <1>14 DEF m

LEMMA LedgerStop ==
    ASSUME NEW l, NEW n, Ledger(l, n), NEW e, e.type = "block_stop", NEW kind, <<e.index, kind>> \in OpenIn(l)
    PROVE  Ledger(Append(l, e), n) /\ OpenIn(Append(l, e)) = OpenIn(l) \ {<<e.index, kind>>}
<1> DEFINE m == Append(l, e)
<1>0. PICK j \in Starts(l) : ~ Stopped(l, l[j].index) /\ l[j].index = e.index /\ l[j].kind = kind
  <2>1. PICK j \in Starts(l) : ~ Stopped(l, l[j].index) /\ <<e.index, kind>> = <<l[j].index, l[j].kind>>
    BY DEF OpenIn
  <2> QED
    BY <2>1
<1>1. IsList(l) /\ Paired(l) /\ Fits(l, e)
  BY <1>0 DEF Ledger, Fits
<1>2. /\ Len(l) \in Nat /\ Len(m) = Len(l) + 1 /\ IsList(m)
      /\ \A i \in 1..Len(l) : m[i] = l[i]
      /\ m[Len(l) + 1] = e
  BY <1>1, Appending DEF IsList
<1>3. Starts(m) = Starts(l) /\ Starts(l) \subseteq 1..Len(l)
  BY <1>1, StartsGrow
<1>4. Paired(m)
  BY <1>1, PairedGrows
<1>5. \A b : Stopped(m, b) <=> Stopped(l, b) \/ b = e.index
  BY <1>1, StopsGrow
<1> HIDE DEF m
<1>6. \A i \in 1..Len(m) : m[i].type # "message_stop"
  BY <1>2 DEF Ledger
<1>7. \A i \in Starts(l) : m[i] = l[i]
  BY <1>2, <1>3
<1>8. Ledger(m, n)
  BY <1>2, <1>3, <1>4, <1>6, <1>7 DEF Ledger
<1>9. ASSUME NEW x PROVE x \in OpenIn(m) <=> x \in OpenIn(l) /\ x # <<e.index, kind>>
  <2>1. ASSUME x \in OpenIn(m) PROVE x \in OpenIn(l) /\ x # <<e.index, kind>>
    <3>1. PICK i \in Starts(l) : ~ Stopped(m, l[i].index) /\ x = <<l[i].index, l[i].kind>>
      BY <1>3, <1>7, <2>1 DEF OpenIn
    <3>2. ~ Stopped(l, l[i].index) /\ l[i].index # e.index
      BY <1>5, <3>1
    <3> QED
      BY <3>1, <3>2 DEF OpenIn
  <2>2. ASSUME x \in OpenIn(l), x # <<e.index, kind>> PROVE x \in OpenIn(m)
    <3>1. PICK i \in Starts(l) : ~ Stopped(l, l[i].index) /\ x = <<l[i].index, l[i].kind>>
      BY <2>2 DEF OpenIn
    <3>2. l[i].index # e.index
      BY <1>0, <2>2, <3>1 DEF Ledger
    <3>3. ~ Stopped(m, l[i].index)
      BY <1>5, <3>1, <3>2
    <3> QED
      BY <1>3, <1>7, <3>1, <3>3 DEF OpenIn
  <2> QED
    BY <2>1, <2>2
<1>10. OpenIn(m) = OpenIn(l) \ {<<e.index, kind>>}
  BY <1>9
<1> QED
  BY <1>8, <1>10 DEF m

\* A message whose blocks have all stopped may stop.
LEMMA LedgerEnd ==
    ASSUME NEW l, NEW n, Ledger(l, n), OpenIn(l) = {}, NEW e, e.type = "message_stop"
    PROVE  Paired(Append(l, e))
<1>1. \A j \in Starts(l) : Stopped(l, l[j].index)
  BY DEF OpenIn
<1>2. Fits(l, e)
  BY <1>1 DEF Fits
<1> QED
  BY <1>2, PairedGrows DEF Ledger

\* BlocksArePaired is Paired of what the client was sent.
LEMMA PairedIsEnough ==
    ASSUME IsList(state.out), Paired(state.out)
    PROVE  BlocksArePaired
<1> DEFINE l == state.out
<1>1. out = l /\ DOMAIN l = 1..Len(l) /\ Len(l) \in Nat
  BY DEF out, IsList
<1>2. \A type : Positions(type) = {i \in 1..Len(l) : l[i].type = type}
  BY <1>1 DEF Positions, Is
<1>3. Positions("block_start") = Starts(l)
  BY <1>2 DEF Starts
<1> DEFINE stops == Positions("block_stop")
           Started(b, i) == {j \in Starts(l) : j < i /\ l[j].index = b}
           Halted(b, i) == {j \in stops : j < i /\ l[j].index = b}
<1>4. stops = {i \in 1..Len(l) : l[i].type = "block_stop"}
  BY <1>2
<1>5. \A i \in Starts(l) : l[i].index = Cardinality({j \in Starts(l) : j < i})
  BY DEF Paired
<1>6. ASSUME NEW i \in Positions("block_delta")
      PROVE  /\ \E j \in Started(l[i].index, i) : l[j].kind = l[i].kind
             /\ Halted(l[i].index, i) = {}
  <2>1. i \in 1..Len(l) /\ l[i].type = "block_delta"
    BY <1>2
  <2>2. /\ \E j \in Starts(l) : j < i /\ l[j].index = l[i].index /\ l[j].kind = l[i].kind
        /\ \A k \in 1..Len(l) : k < i /\ l[k].type = "block_stop" => l[k].index # l[i].index
    BY <2>1 DEF Paired
  <2> QED
    BY <1>4, <2>2
<1>7. ASSUME NEW i \in stops PROVE Started(l[i].index, i) # {} /\ Halted(l[i].index, i) = {}
  <2>1. i \in 1..Len(l) /\ l[i].type = "block_stop"
    BY <1>4
  <2>2. /\ \E j \in Starts(l) : j < i /\ l[j].index = l[i].index
        /\ \A k \in 1..Len(l) : k < i /\ l[k].type = "block_stop" => l[k].index # l[i].index
    BY <2>1 DEF Paired
  <2> QED
    BY <1>4, <2>2
<1>8. ASSUME NEW i \in Positions("message_stop"), NEW j \in Starts(l)
      PROVE  Cardinality(Halted(l[j].index, i)) = 1
  <2>1. i \in 1..Len(l) /\ l[i].type = "message_stop"
    BY <1>2
  <2>2. PICK k \in 1..Len(l) : k < i /\ l[k].type = "block_stop" /\ l[k].index = l[j].index
    BY <2>1 DEF Paired
  <2>3. ASSUME NEW h \in stops, l[h].index = l[j].index PROVE h = k
    <3>1. h \in 1..Len(l) /\ l[h].type = "block_stop" /\ h \in Nat /\ k \in Nat
      BY <1>1, <1>4
    <3>2. ~ (h < k) /\ ~ (k < h)
      BY <2>2, <2>3, <3>1 DEF Paired
    <3> QED
      BY <3>1, <3>2
  <2>4. k \in Halted(l[j].index, i)
    BY <1>4, <2>2
  <2>5. Halted(l[j].index, i) = {k}
    BY <2>3, <2>4
  <2> QED
    BY <2>5, FS_Singleton
<1> HIDE DEF l
<1> QED
  BY <1>1, <1>3, <1>5, <1>6, <1>7, <1>8 DEF BlocksArePaired

-----------------------------------------------------------------------------
(* The state of an Anthropic message *)

Kinds == {"thinking", "text"}

\* The blocks that the state says are open.
OpenBlocks(s) ==
    {<<s.open[kind], kind>> : kind \in {k \in Kinds : s.open[k] # None}}
        \cup {<<s.toolBlocks[i], "tool_use">> : i \in DOMAIN s.toolBlocks}

BlockFields == {"out", "fatal", "open", "nextBlock", "toolBlocks", "messageStarted", "toolCalls", "toolCallIndex"}

\* The message is not over, and the state knows its blocks and which of them are open.
BlockState(s) ==
    /\ BlockFields \subseteq DOMAIN s
    /\ s.open \in [Kinds -> Nat \cup {None}]
    /\ Bounded(DOMAIN s.toolBlocks)
    /\ Ledger(s.out, s.nextBlock)
    /\ OpenIn(s.out) = OpenBlocks(s)
    /\ \A i, j \in DOMAIN s.toolBlocks : s.toolBlocks[i] = s.toolBlocks[j] => i = j
    /\ ~ s.messageStarted => s.nextBlock = 0

\* What a step of the sink that tells no call leaves alone.
Beside(s, t) ==
    /\ t.toolCalls = s.toolCalls /\ t.toolCallIndex = s.toolCallIndex
    /\ t.fatal = s.fatal /\ t.messageStarted = s.messageStarted
Moves(s, t) == BlockState(t) /\ Beside(s, t) /\ t.toolBlocks = s.toolBlocks

LEMMA Moving ==
    ASSUME NEW s, NEW t, NEW r, Moves(s, t), Moves(t, r)
    PROVE  Moves(s, r)
BY DEF Moves, Beside

LEMMA NotMoving ==
    ASSUME NEW s, BlockState(s)
    PROVE  Moves(s, s)
BY DEF Moves, Beside

\* An event goes out: what becomes of the rest of the state.
LEMMA SendingKeeps ==
    ASSUME NEW s, BlockState(s), NEW e
    PROVE  LET t == Send(s, e)
           IN /\ t.out = Append(s.out, e) /\ DOMAIN t = DOMAIN s
              /\ \A f \in DOMAIN s \ {"out"} : t[f] = s[f]
              /\ t.open = s.open /\ t.nextBlock = s.nextBlock /\ t.toolBlocks = s.toolBlocks /\ Beside(s, t)
<1> DEFINE t == Send(s, e)
<1>1. BlockFields \subseteq DOMAIN s
  BY DEF BlockState
<1>2. /\ t.out = Append(s.out, e) /\ DOMAIN t = DOMAIN s
      /\ \A f \in DOMAIN s \ {"out"} : t[f] = s[f]
  BY <1>1 DEF Send, BlockFields
<1> HIDE DEF t
<1>3. t.open = s.open /\ t.nextBlock = s.nextBlock /\ t.toolBlocks = s.toolBlocks /\ Beside(s, t)
  BY <1>1, <1>2 DEF BlockFields, Beside
<1> QED
  BY <1>2, <1>3 DEF t

LEMMA AsideKeeps ==
    ASSUME NEW s, BlockState(s), NEW e, IsAside(e)
    PROVE  Moves(s, Send(s, e))
<1> DEFINE t == Send(s, e)
<1>1. /\ t.out = Append(s.out, e) /\ DOMAIN t = DOMAIN s
      /\ t.open = s.open /\ t.nextBlock = s.nextBlock /\ t.toolBlocks = s.toolBlocks /\ Beside(s, t)
  BY SendingKeeps
<1> HIDE DEF t
<1>2. Ledger(s.out, s.nextBlock)
  BY DEF BlockState
<1>3. Ledger(t.out, s.nextBlock) /\ OpenIn(t.out) = OpenIn(s.out)
  BY <1>1, <1>2, LedgerAside
<1>4. OpenBlocks(t) = OpenBlocks(s)
  BY <1>1 DEF OpenBlocks
<1> QED
  BY <1>1, <1>3, <1>4 DEF BlockState, Moves, Beside, t

\* A field that the blocks do not depend on changes.
LEMMA OtherFields ==
    ASSUME NEW s, BlockState(s), NEW f, f \notin BlockFields, NEW v
    PROVE  Moves(s, [s EXCEPT ![f] = v])
<1> DEFINE t == [s EXCEPT ![f] = v]
<1>1. DOMAIN t = DOMAIN s /\ \A g \in BlockFields : t[g] = s[g]
  BY DEF BlockState
<1> HIDE DEF t
<1>2. /\ t.out = s.out /\ t.fatal = s.fatal /\ t.open = s.open /\ t.nextBlock = s.nextBlock
      /\ t.toolBlocks = s.toolBlocks /\ t.messageStarted = s.messageStarted
      /\ t.toolCalls = s.toolCalls /\ t.toolCallIndex = s.toolCallIndex
  BY <1>1 DEF BlockFields
<1>3. OpenBlocks(t) = OpenBlocks(s)
  BY <1>2 DEF OpenBlocks
<1>4. Moves(s, t)
  BY <1>1, <1>2, <1>3 DEF BlockState, Moves, Beside
<1> QED
  BY <1>4 DEF t

\* Numbers of blocks are numbers.
LEMMA OpenNumbers ==
    ASSUME NEW s, BlockState(s)
    PROVE  /\ s.nextBlock \in Nat /\ s.nextBlock # None
           /\ \A x \in OpenBlocks(s) : x[1] \in Nat /\ x[1] < s.nextBlock
<1>1. Ledger(s.out, s.nextBlock) /\ OpenIn(s.out) = OpenBlocks(s)
  BY DEF BlockState
<1>2. ASSUME NEW x \in OpenIn(s.out) PROVE x[1] \in Nat /\ x[1] < s.nextBlock
  <2>1. PICK i \in Starts(s.out) : x = <<s.out[i].index, s.out[i].kind>>
    BY DEF OpenIn
  <2> QED
    BY <1>1, <2>1 DEF Ledger
<1>3. s.nextBlock \in Nat
  BY <1>1 DEF Ledger
<1> QED
  BY <1>1, <1>2, <1>3, NoneAssumption

LEMMA StoppingKeeps ==
    ASSUME NEW s, BlockState(s), NEW kind \in Kinds
    PROVE  /\ Moves(s, StopBlock(s, kind))
           /\ StopBlock(s, kind).open = [s.open EXCEPT ![kind] = None]
<1> DEFINE e == BlockStop(s.open[kind])
           sent == Send(s, e)
           open == [s.open EXCEPT ![kind] = None]
           t == [sent EXCEPT !["open"] = open]
<1>1. CASE s.open[kind] = None
  <2>1. StopBlock(s, kind) = s
    BY <1>1 DEF StopBlock
  <2>2. open = s.open
    BY <1>1 DEF BlockState
  <2> QED
    BY <2>1, <2>2, NotMoving
<1>2. CASE s.open[kind] # None
  <2>1. /\ sent.out = Append(s.out, e) /\ DOMAIN sent = DOMAIN s
        /\ \A f \in DOMAIN s \ {"out"} : sent[f] = s[f]
        /\ sent.open = s.open /\ sent.nextBlock = s.nextBlock /\ sent.toolBlocks = s.toolBlocks /\ Beside(s, sent)
    BY SendingKeeps
  <2>2. BlockFields \subseteq DOMAIN s /\ s.open \in [Kinds -> Nat \cup {None}]
    BY DEF BlockState
  <2>3. StopBlock(s, kind) = t
    BY <1>2, <2>1, <2>2 DEF StopBlock
  <2> HIDE DEF sent
  <2>4. /\ DOMAIN t = DOMAIN s /\ t.open = open
        /\ \A f \in BlockFields \ {"open"} : t[f] = sent[f]
    BY <2>1, <2>2 DEF BlockFields
  <2> HIDE DEF t
  <2>5. /\ t.out = Append(s.out, e) /\ t.nextBlock = s.nextBlock /\ t.toolBlocks = s.toolBlocks /\ Beside(s, t)
    BY <2>1, <2>4 DEF BlockFields, Beside
  <2>6. e.type = "block_stop" /\ e.index = s.open[kind]
    BY DEF BlockStop
  <2>7. <<s.open[kind], kind>> \in OpenBlocks(s)
    BY <1>2 DEF OpenBlocks
  <2> HIDE DEF e
  <2>8. Ledger(s.out, s.nextBlock) /\ OpenIn(s.out) = OpenBlocks(s)
    BY DEF BlockState
  <2>9. Ledger(t.out, t.nextBlock) /\ OpenIn(t.out) = OpenBlocks(s) \ {<<s.open[kind], kind>>}
    BY <2>5, <2>6, <2>7, <2>8, LedgerStop
  <2>10. open \in [Kinds -> Nat \cup {None}] /\ open[kind] = None /\ \A k \in Kinds \ {kind} : open[k] = s.open[k]
    BY <2>2
  <2> HIDE DEF open
  <2>11. OpenBlocks(t) = OpenBlocks(s) \ {<<s.open[kind], kind>>}
    <3>1. \A k \in Kinds : k # "tool_use"
      BY DEF Kinds
    <3>2. ASSUME NEW x PROVE x \in OpenBlocks(t) <=> x \in OpenBlocks(s) /\ x # <<s.open[kind], kind>>
      BY <2>4, <2>5, <2>10, <3>1 DEF OpenBlocks
    <3> QED
      BY <3>2
  <2>12. BlockState(t)
    BY <2>2, <2>4, <2>5, <2>9, <2>10, <2>11 DEF BlockState, Beside
  <2> QED
    BY <2>3, <2>4, <2>5, <2>12 DEF Moves, open
<1> QED
  BY <1>1, <1>2

LEMMA EnsuringKeeps ==
    ASSUME NEW s, BlockState(s), s.messageStarted, NEW kind \in Kinds
    PROVE  /\ Moves(s, EnsureBlock(s, kind))
           /\ EnsureBlock(s, kind).open[kind] # None
<1> DEFINE e == BlockStart(s.nextBlock, kind, None)
           n == s.nextBlock
           sent == Send(s, e)
           open == [s.open EXCEPT ![kind] = n]
           opened == [sent EXCEPT !["open"] = open]
           t == [opened EXCEPT !["nextBlock"] = n + 1]
<1>1. CASE s.open[kind] # None
  <2>1. EnsureBlock(s, kind) = s
    BY <1>1 DEF EnsureBlock
  <2> QED
    BY <1>1, <2>1, NotMoving
<1>2. CASE s.open[kind] = None
  <2>1. /\ sent.out = Append(s.out, e) /\ DOMAIN sent = DOMAIN s
        /\ \A f \in DOMAIN s \ {"out"} : sent[f] = s[f]
        /\ sent.open = s.open /\ sent.nextBlock = n /\ sent.toolBlocks = s.toolBlocks /\ Beside(s, sent)
    BY SendingKeeps
  <2>2. BlockFields \subseteq DOMAIN s /\ s.open \in [Kinds -> Nat \cup {None}]
    BY DEF BlockState
  <2>3. n \in Nat /\ n # None
    BY OpenNumbers
  <2>4. EnsureBlock(s, kind) = t
    <3>1. EnsureBlock(s, kind) = [Send(s, e) EXCEPT !.open[kind] = n, !.nextBlock = @ + 1]
      BY <1>2 DEF EnsureBlock
    <3>2. [sent EXCEPT !.open[kind] = n, !.nextBlock = @ + 1] = t
      <4>1. {"open", "nextBlock"} \subseteq DOMAIN sent
        BY <2>1, <2>2 DEF BlockFields
      <4> HIDE DEF sent
      <4> QED
        BY <2>1, <4>1
    <3> QED
      BY <3>1, <3>2
  <2> HIDE DEF sent
  <2>5. /\ DOMAIN t = DOMAIN s /\ t.open = open /\ t.nextBlock = n + 1
        /\ \A f \in BlockFields \ {"open", "nextBlock"} : t[f] = sent[f]
    BY <2>1, <2>2 DEF BlockFields
  <2> HIDE DEF t
  <2>6. t.out = Append(s.out, e) /\ t.toolBlocks = s.toolBlocks /\ Beside(s, t)
    BY <2>1, <2>5 DEF BlockFields, Beside
  <2>7. e.type = "block_start" /\ e.index = n /\ e.kind = kind
    BY DEF BlockStart
  <2> HIDE DEF e
  <2>8. Ledger(s.out, n) /\ OpenIn(s.out) = OpenBlocks(s)
    BY DEF BlockState
  <2>9. open \in [Kinds -> Nat \cup {None}] /\ open[kind] = n /\ \A k \in Kinds \ {kind} : open[k] = s.open[k]
    BY <2>2, <2>3
  <2> HIDE DEF open, n
  <2>10. Ledger(t.out, n + 1) /\ OpenIn(t.out) = OpenBlocks(s) \cup {<<n, kind>>}
    BY <2>6, <2>7, <2>8, LedgerStart
  <2>11. OpenBlocks(t) = OpenBlocks(s) \cup {<<n, kind>>}
    <3>1. ASSUME NEW x PROVE x \in OpenBlocks(t) <=> x \in OpenBlocks(s) \/ x = <<n, kind>>
      BY <1>2, <2>3, <2>5, <2>6, <2>9 DEF OpenBlocks
    <3> QED
      BY <3>1
  <2>12. BlockState(t)
    BY <2>2, <2>5, <2>6, <2>9, <2>10, <2>11 DEF BlockState, Beside
  <2> QED
    BY <2>3, <2>4, <2>5, <2>6, <2>9, <2>12 DEF Moves
<1> QED
  BY <1>1, <1>2

LEMMA DeltaKeeps ==
    ASSUME NEW s, BlockState(s), NEW e, e.type = "block_delta", <<e.index, e.kind>> \in OpenBlocks(s)
    PROVE  Moves(s, Send(s, e))
<1> DEFINE t == Send(s, e)
<1>1. /\ t.out = Append(s.out, e) /\ DOMAIN t = DOMAIN s
      /\ t.open = s.open /\ t.nextBlock = s.nextBlock /\ t.toolBlocks = s.toolBlocks /\ Beside(s, t)
  BY SendingKeeps
<1> HIDE DEF t
<1>2. Ledger(s.out, s.nextBlock) /\ OpenIn(s.out) = OpenBlocks(s)
  BY DEF BlockState
<1>3. Ledger(t.out, s.nextBlock) /\ OpenIn(t.out) = OpenIn(s.out)
  BY <1>1, <1>2, LedgerDelta
<1>4. OpenBlocks(t) = OpenBlocks(s)
  BY <1>1 DEF OpenBlocks
<1> QED
  BY <1>1, <1>3, <1>4 DEF BlockState, Moves, Beside, t

LEMMA TextKeeps ==
    ASSUME NEW s, BlockState(s), s.messageStarted, NEW kind \in Kinds, NEW other \in Kinds, NEW text
    PROVE  Moves(s, TextDelta(s, kind, other, text))
<1> DEFINE stopped == StopBlock(s, other)
           opened == EnsureBlock(stopped, kind)
           delta == BlockDelta(opened.open[kind], kind, text)
<1>1. TextDelta(s, kind, other, text) = IF text = <<>> THEN s ELSE Send(opened, delta)
  BY DEF TextDelta
<1>2. Moves(s, stopped)
  BY StoppingKeeps
<1> HIDE DEF stopped
<1>3. Moves(stopped, opened) /\ opened.open[kind] # None
  <2>1. BlockState(stopped) /\ stopped.messageStarted
    BY <1>2 DEF Moves, Beside
  <2> QED
    BY <2>1, EnsuringKeeps
<1>4. delta.type = "block_delta" /\ delta.index = opened.open[kind] /\ delta.kind = kind
  BY DEF BlockDelta
<1> HIDE DEF opened, delta
<1>5. <<delta.index, delta.kind>> \in OpenBlocks(opened)
  BY <1>3, <1>4 DEF OpenBlocks
<1>6. Moves(opened, Send(opened, delta))
  BY <1>3, <1>4, <1>5, DeltaKeeps DEF Moves
<1>7. Moves(s, Send(opened, delta))
  BY <1>2, <1>3, <1>6, Moving
<1> QED
  BY <1>1, <1>7, NotMoving

\* What a sink does with a call: a call with an id comes under a new index.
Tells(s, t, call) ==
    /\ BlockState(t) /\ Beside(s, t)
    /\ DOMAIN t.toolBlocks \subseteq DOMAIN s.toolBlocks \cup (IF call.id = None THEN {} ELSE {call.index})

\* The blocks of thoughts and of text stop.
LEMMA BothStop ==
    ASSUME NEW s, BlockState(s)
    PROVE  LET t == StopBlock(StopBlock(s, "thinking"), "text")
           IN Moves(s, t) /\ \A kind \in Kinds : t.open[kind] = None
<1> DEFINE r == StopBlock(s, "thinking")
           t == StopBlock(r, "text")
<1>0. "thinking" \in Kinds /\ "text" \in Kinds
  BY DEF Kinds
<1>1. Moves(s, r) /\ r.open = [s.open EXCEPT !["thinking"] = None]
  BY <1>0, StoppingKeeps
<1> HIDE DEF r
<1>2. Moves(r, t) /\ t.open = [r.open EXCEPT !["text"] = None]
  BY <1>0, <1>1, StoppingKeeps DEF Moves
<1> HIDE DEF t
<1>3. DOMAIN r.open = Kinds /\ DOMAIN s.open = Kinds
  BY <1>1 DEF BlockState, Moves
<1>4. \A kind \in Kinds : t.open[kind] = None
  BY <1>1, <1>2, <1>3 DEF Kinds
<1>5. Moves(s, t)
  BY <1>1, <1>2, Moving
<1> QED
  BY <1>4, <1>5 DEF t, r

LEMMA ToolStarts ==
    ASSUME NEW s, BlockState(s), s.messageStarted, NEW index \in Nat, index \notin DOMAIN s.toolBlocks, NEW id
    PROVE  LET t == [Send(s, BlockStart(s.nextBlock, "tool_use", id)) EXCEPT
                        !.toolBlocks = With(@, index, s.nextBlock), !.nextBlock = @ + 1]
           IN BlockState(t) /\ Beside(s, t) /\ DOMAIN t.toolBlocks = DOMAIN s.toolBlocks \cup {index}
<1> DEFINE n == s.nextBlock
           e == BlockStart(n, "tool_use", id)
           sent == Send(s, e)
           tools == With(s.toolBlocks, index, n)
           known == [sent EXCEPT !["toolBlocks"] = tools]
           t == [known EXCEPT !["nextBlock"] = n + 1]
<1>1. /\ sent.out = Append(s.out, e) /\ DOMAIN sent = DOMAIN s
      /\ \A f \in DOMAIN s \ {"out"} : sent[f] = s[f]
      /\ sent.open = s.open /\ sent.nextBlock = n /\ sent.toolBlocks = s.toolBlocks /\ Beside(s, sent)
  BY SendingKeeps
<1>2. BlockFields \subseteq DOMAIN s
  BY DEF BlockState
<1>3. n \in Nat
  BY OpenNumbers
<1>4. [Send(s, BlockStart(s.nextBlock, "tool_use", id)) EXCEPT
            !.toolBlocks = With(@, index, s.nextBlock), !.nextBlock = @ + 1] = t
  <2>1. {"toolBlocks", "nextBlock"} \subseteq DOMAIN sent
    BY <1>1, <1>2 DEF BlockFields
  <2>2. [sent EXCEPT !.toolBlocks = With(@, index, s.nextBlock), !.nextBlock = @ + 1] = t
    <3> HIDE DEF sent
    <3> QED
      BY <1>1, <2>1
  <2> QED
    BY <2>2
<1> HIDE DEF sent, tools
<1>5. /\ DOMAIN t = DOMAIN s /\ t.toolBlocks = tools /\ t.nextBlock = n + 1
      /\ \A f \in BlockFields \ {"toolBlocks", "nextBlock"} : t[f] = sent[f]
  BY <1>1, <1>2 DEF BlockFields
<1> HIDE DEF t
<1>6. t.out = Append(s.out, e) /\ t.open = s.open /\ Beside(s, t)
  BY <1>1, <1>5 DEF BlockFields, Beside
<1>7. e.type = "block_start" /\ e.index = n /\ e.kind = "tool_use"
  BY DEF BlockStart
<1> HIDE DEF e
<1>8. Ledger(s.out, n) /\ OpenIn(s.out) = OpenBlocks(s)
  BY DEF BlockState
<1>9. /\ DOMAIN tools = DOMAIN s.toolBlocks \cup {index} /\ tools[index] = n
      /\ \A i \in DOMAIN s.toolBlocks : tools[i] = s.toolBlocks[i]
  BY DEF With, tools
<1>10. Bounded(DOMAIN tools)
  BY BoundedGrows DEF BlockState, tools
<1> HIDE DEF n
<1>11. Ledger(t.out, n + 1) /\ OpenIn(t.out) = OpenBlocks(s) \cup {<<n, "tool_use">>}
  BY <1>6, <1>7, <1>8, LedgerStart
<1>12. OpenBlocks(t) = OpenBlocks(s) \cup {<<n, "tool_use">>}
  <2>1. ASSUME NEW x PROVE x \in OpenBlocks(t) <=> x \in OpenBlocks(s) \/ x = <<n, "tool_use">>
    BY <1>5, <1>6, <1>9 DEF OpenBlocks
  <2> QED
    BY <2>1
<1>13. \A i \in DOMAIN s.toolBlocks : s.toolBlocks[i] # n
  <2>1. ASSUME NEW i \in DOMAIN s.toolBlocks PROVE s.toolBlocks[i] # n
    <3>1. <<s.toolBlocks[i], "tool_use">> \in OpenBlocks(s)
      BY DEF OpenBlocks
    <3>2. <<s.toolBlocks[i], "tool_use">>[1] < n /\ <<s.toolBlocks[i], "tool_use">>[1] \in Nat
      BY <3>1, OpenNumbers DEF n
    <3> QED
      BY <1>3, <3>2
  <2> QED
    BY <2>1
<1>14. \A i, j \in DOMAIN tools : tools[i] = tools[j] => i = j
  BY <1>9, <1>13 DEF BlockState
<1>15. BlockState(t)
  BY <1>2, <1>5, <1>6, <1>10, <1>11, <1>12, <1>14 DEF BlockState, Beside
<1> QED
  BY <1>4, <1>5, <1>6, <1>9, <1>15

LEMMA ToolDeltaKeeps ==
    ASSUME NEW s, BlockState(s), s.messageStarted, NEW call, call.index \in Nat,
           call.id = None \/ call.index \notin DOMAIN s.toolBlocks
    PROVE  Tells(s, ToolDelta(s, call), call)
<1> DEFINE closed == StopBlock(StopBlock(s, "thinking"), "text")
           opened == [Send(closed, BlockStart(closed.nextBlock, "tool_use", call.id)) EXCEPT
                        !.toolBlocks = With(@, call.index, closed.nextBlock), !.nextBlock = @ + 1]
           started == IF call.id = None THEN s ELSE opened
           delta == BlockDelta(started.toolBlocks[call.index], "tool_use", call.args)
<1>1. ToolDelta(s, call) =
        IF call.args = <<>> \/ call.index \notin DOMAIN started.toolBlocks THEN started ELSE Send(started, delta)
  BY DEF ToolDelta
<1>2. Moves(s, closed)
  BY BothStop
<1> HIDE DEF closed
<1>3. Tells(s, started, call)
  <2>1. CASE call.id = None
    BY <2>1, NotMoving DEF Tells, Moves
  <2>2. CASE call.id # None
    <3>1. BlockState(closed) /\ closed.messageStarted /\ call.index \notin DOMAIN closed.toolBlocks
      BY <1>2, <2>2 DEF Moves, Beside
    <3>2. BlockState(opened) /\ Beside(closed, opened) /\ DOMAIN opened.toolBlocks = DOMAIN closed.toolBlocks \cup {call.index}
      BY <3>1, ToolStarts
    <3> HIDE DEF opened
    <3> QED
      BY <1>2, <2>2, <3>2 DEF Tells, Moves, Beside
  <2> QED
    BY <2>1, <2>2
<1>4. delta.type = "block_delta" /\ delta.index = started.toolBlocks[call.index] /\ delta.kind = "tool_use"
  BY DEF BlockDelta
<1> HIDE DEF started, delta
<1>5. ASSUME call.index \in DOMAIN started.toolBlocks PROVE Tells(s, Send(started, delta), call)
  <2>1. <<delta.index, delta.kind>> \in OpenBlocks(started)
    BY <1>4, <1>5 DEF OpenBlocks
  <2>2. Moves(started, Send(started, delta))
    BY <1>3, <1>4, <2>1, DeltaKeeps DEF Tells
  <2> QED
    BY <1>3, <2>2 DEF Tells, Moves, Beside
<1> QED
  BY <1>1, <1>3, <1>5

\* A message that has not started has no blocks; one that has starts no more.
LEMMA StartingKeeps ==
    ASSUME NEW s, BlockState(s)
    PROVE  LET t == MessageStart(s)
           IN /\ BlockState(t) /\ t.messageStarted /\ t.toolBlocks = s.toolBlocks
              /\ t.toolCalls = s.toolCalls /\ t.toolCallIndex = s.toolCallIndex /\ t.fatal = s.fatal
<1> DEFINE e == [type |-> "message_start"]
           sent == Send(s, e)
           flagged == [sent EXCEPT !["messageStarted"] = TRUE]
           t == [flagged EXCEPT !["nextBlock"] = 0]
<1>1. CASE s.messageStarted
  BY <1>1 DEF MessageStart
<1>2. CASE ~ s.messageStarted
  <2>1. MessageStart(s) = t
    BY <1>2 DEF MessageStart
  <2>2. IsAside(e)
    BY DEF IsAside
  <2> HIDE DEF e
  <2>3. Moves(s, sent)
    BY <2>2, AsideKeeps
  <2> HIDE DEF sent
  <2>4. BlockState(sent) /\ sent.nextBlock = 0
    <3>1. BlockState(sent) /\ ~ sent.messageStarted
      BY <1>2, <2>3 DEF Moves, Beside
    <3> QED
      BY <3>1 DEF BlockState
  <2>5. BlockFields \subseteq DOMAIN sent
    BY <2>4 DEF BlockState
  <2>6. /\ DOMAIN t = DOMAIN sent /\ t.messageStarted = TRUE /\ t.nextBlock = 0
        /\ \A f \in BlockFields \ {"messageStarted", "nextBlock"} : t[f] = sent[f]
    BY <2>5 DEF BlockFields
  <2> HIDE DEF t
  <2>7. /\ t.out = sent.out /\ t.open = sent.open /\ t.toolBlocks = sent.toolBlocks /\ t.fatal = sent.fatal
        /\ t.toolCalls = sent.toolCalls /\ t.toolCallIndex = sent.toolCallIndex
    BY <2>6 DEF BlockFields
  <2>8. OpenBlocks(t) = OpenBlocks(sent)
    BY <2>7 DEF OpenBlocks
  <2>9. BlockState(t)
    BY <2>4, <2>6, <2>7, <2>8 DEF BlockState
  <2> QED
    BY <2>1, <2>3, <2>6, <2>7, <2>9 DEF Moves, Beside
<1> QED
  BY <1>1, <1>2

LEMMA SeeingKeeps ==
    ASSUME NEW s, BlockState(s), NEW new
    PROVE  Moves(s, Seen(s, new))
<1>1. "seen" \notin BlockFields
  BY DEF BlockFields
<1>2. \A v : Moves(s, [s EXCEPT !["seen"] = v])
  BY <1>1, OtherFields
<1> QED
  BY <1>2 DEF Seen

\* Sets of numbers, grown in the order of their members, for which something holds at first
\* and after each step.
LEMMA InOrder ==
    ASSUME NEW keys, Bounded(keys), NEW Good, {} \in Good,
           \A S \in SUBSET keys : \A x \in keys : S \in Good /\ (\A i \in S : i < x) => S \cup {x} \in Good
    PROVE  keys \in Good
<1> PICK n \in Nat : keys \in SUBSET (0..n)
  BY DEF Bounded
<1> DEFINE Fine == {m \in Nat : \A S \in SUBSET keys : (\A i \in S : i < m) => S \in Good}
<1>0. \A i \in keys : i \in Nat /\ 0 <= i /\ i < n + 1
  OBVIOUS
<1>1. 0 \in Fine
  <2>1. ASSUME NEW S \in SUBSET keys, \A i \in S : i < 0 PROVE S \in Good
    <3>1. S = {}
      BY <1>0, <2>1
    <3> QED
      BY <3>1
  <2> QED
    BY <2>1
<1>2. ASSUME NEW m \in Nat, m \in Fine PROVE m + 1 \in Fine
  <2>1. ASSUME NEW S \in SUBSET keys, \A i \in S : i < m + 1 PROVE S \in Good
    <3>1. CASE m \notin S
      <4>1. \A i \in S : i < m
        BY <1>0, <2>1, <3>1
      <4> QED
        BY <1>2, <4>1
    <3>2. CASE m \in S
      <4>1. \A i \in S \ {m} : i < m
        BY <1>0, <2>1
      <4>2. S \ {m} \in Good
        BY <1>2, <4>1
      <4>3. (S \ {m}) \cup {m} = S /\ m \in keys
        BY <3>2
      <4>4. (S \ {m}) \cup {m} \in Good
        BY <4>1, <4>2, <4>3
      <4> QED
        BY <4>3, <4>4
    <3> QED
      BY <3>1, <3>2
  <2>2. m + 1 \in Nat
    OBVIOUS
  <2> QED
    BY <2>1, <2>2, Zenon
<1>3. n + 1 \in Fine
  <2> HIDE DEF Fine
  <2> QED
    BY <1>1, <1>2, AllNumbers
<1> QED
  BY <1>0, <1>3

LEMMA IterationSteps ==
    ASSUME NEW keys, Bounded(keys), NEW how, NEW s, NEW at, NEW iter, Iterates(iter, how, s, keys, at)
    PROVE  /\ iter[{}] = s
           /\ \A S \in SUBSET keys : \A x \in keys :
                (\A i \in S : i < x) => iter[S \cup {x}] = Step(how, iter[S], at[x])
<1> PICK n \in Nat : keys \in SUBSET (0..n)
  BY DEF Bounded
<1>0. iter[{}] = s
  BY DEF Iterates
<1> SUFFICES ASSUME NEW S \in SUBSET keys, NEW x \in keys, \A i \in S : i < x
             PROVE  iter[S \cup {x}] = Step(how, iter[S], at[x])
  BY <1>0
<1>1. \A i \in keys : i \in Nat
  OBVIOUS
<1>2. S \cup {x} \in SUBSET (0..x) /\ x \in Nat /\ x \in S \cup {x}
  BY <1>1
<1>3. Max(S \cup {x}) = x
  BY <1>2, Greatest
<1>4. (S \cup {x}) \ {x} = S
  BY <1>1
<1>5. S \cup {x} \in SUBSET keys /\ S \cup {x} # {}
  OBVIOUS
<1> QED
  BY <1>3, <1>4, <1>5 DEF Iterates

\* The blocks of the calls in S have stopped, the others are open.
Halting(s, S, t) ==
    /\ {"out", "toolBlocks"} \subseteq DOMAIN t
    /\ t.toolBlocks = s.toolBlocks
    /\ Ledger(t.out, s.nextBlock)
    /\ OpenIn(t.out) = {<<s.toolBlocks[i], "tool_use">> : i \in DOMAIN s.toolBlocks \ S}

LEMMA HaltingOne ==
    ASSUME NEW s, BlockState(s), NEW S, NEW x \in DOMAIN s.toolBlocks, x \notin S, NEW t, Halting(s, S, t)
    PROVE  Halting(s, S \cup {x}, Send(t, BlockStop(t.toolBlocks[x])))
<1> DEFINE e == BlockStop(t.toolBlocks[x])
           r == Send(t, e)
<1>1. e.type = "block_stop" /\ e.index = s.toolBlocks[x]
  BY DEF BlockStop, Halting
<1>2. {"out", "toolBlocks"} \subseteq DOMAIN r /\ r.toolBlocks = s.toolBlocks /\ r.out = Append(t.out, e)
  BY DEF Send, Halting
<1> HIDE DEF e, r
<1>3. <<e.index, "tool_use">> \in OpenIn(t.out)
  BY <1>1 DEF Halting
<1>4. Ledger(r.out, s.nextBlock) /\ OpenIn(r.out) = OpenIn(t.out) \ {<<s.toolBlocks[x], "tool_use">>}
  <2>1. PICK kind : kind = "tool_use"
    OBVIOUS
  <2>2. Ledger(t.out, s.nextBlock) /\ <<e.index, kind>> \in OpenIn(t.out)
    BY <1>3, <2>1 DEF Halting
  <2>3. Ledger(Append(t.out, e), s.nextBlock) /\ OpenIn(Append(t.out, e)) = OpenIn(t.out) \ {<<e.index, kind>>}
    BY <1>1, <2>2, LedgerStop
  <2> QED
    BY <1>1, <1>2, <2>1, <2>3
<1>5. OpenIn(r.out) = {<<s.toolBlocks[i], "tool_use">> : i \in DOMAIN s.toolBlocks \ (S \cup {x})}
  <2>1. \A i, j \in DOMAIN s.toolBlocks : s.toolBlocks[i] = s.toolBlocks[j] => i = j
    BY DEF BlockState
  <2>2. OpenIn(t.out) = {<<s.toolBlocks[i], "tool_use">> : i \in DOMAIN s.toolBlocks \ S}
    BY DEF Halting
  <2>3. ASSUME NEW y PROVE y \in OpenIn(r.out) <=> \E i \in DOMAIN s.toolBlocks \ (S \cup {x}) : y = <<s.toolBlocks[i], "tool_use">>
    <3>1. ASSUME NEW i \in DOMAIN s.toolBlocks, <<s.toolBlocks[i], "tool_use">> = <<s.toolBlocks[x], "tool_use">>
          PROVE  i = x
      <4>1. s.toolBlocks[i] = s.toolBlocks[x]
        BY <3>1
      <4> QED
        BY <2>1, <4>1
    <3> QED
      BY <1>4, <2>2, <3>1
  <2> QED
    BY <2>3
<1> QED
  BY <1>2, <1>4, <1>5 DEF Halting, r, e

LEMMA ToolsStop ==
    ASSUME NEW s, BlockState(s), \A kind \in Kinds : s.open[kind] = None
    PROVE  Halting(s, DOMAIN s.toolBlocks,
                   OverKeys(LAMBDA t, i : Send(t, BlockStop(t.toolBlocks[i])), s, s.toolBlocks))
<1> DEFINE how == <<"tool block">>
           keys == DOMAIN s.toolBlocks
           at == [i \in keys |-> i]
           E(iter) == iter = [S \in SUBSET keys |->
                                IF S = {} THEN s
                                ELSE Send(iter[S \ {Max(S)}], BlockStop(iter[S \ {Max(S)}].toolBlocks[Max(S)]))]
           final == CHOOSE iter : E(iter)
           Good == {S \in SUBSET keys : Halting(s, S, final[S])}
<1>0. PICK n \in Nat : keys \in SUBSET (0..n)
  BY DEF BlockState, Bounded
<1>1. \A iter : E(iter) <=> Iterates(iter, how, s, keys, at)
  <2>1. ASSUME NEW S \in SUBSET keys, S # {} PROVE at[Max(S)] = Max(S)
    BY <1>0, <2>1, Greatest
  <2> HIDE DEF keys, at
  <2> QED
    BY <2>1 DEF Iterates, Step
<1>2. \E iter : E(iter)
  BY <1>0, <1>1, IteratesExist
<1>3. E(final)
  BY <1>2, Zenon
<1>4. OverKeys(LAMBDA t, i : Send(t, BlockStop(t.toolBlocks[i])), s, s.toolBlocks) = final[keys]
  BY DEF OverKeys, MapThenFoldSet
<1>5. \A x \in keys : at[x] = x
  OBVIOUS
<1>6. \A t, x : Step(how, t, x) = Send(t, BlockStop(t.toolBlocks[x]))
  BY DEF Step
<1>7. final[{}] = s
  BY <1>3
<1> HIDE DEF E, how, at, final
<1>8. Iterates(final, how, s, keys, at)
  BY <1>1, <1>3
<1>9. \A S \in SUBSET keys : \A x \in keys :
        (\A i \in S : i < x) => final[S \cup {x}] = Step(how, final[S], at[x])
  <2>1. Bounded(keys)
    BY DEF BlockState
  <2> HIDE DEF Good, keys
  <2> QED
    BY <1>8, <2>1, IterationSteps
<1>10. Halting(s, {}, s)
  <2>1. OpenBlocks(s) = {<<s.toolBlocks[i], "tool_use">> : i \in DOMAIN s.toolBlocks \ {}}
    BY DEF OpenBlocks
  <2>2. {"out", "toolBlocks"} \subseteq DOMAIN s
    BY DEF BlockState, BlockFields
  <2> QED
    BY <2>1, <2>2 DEF Halting, BlockState
<1>11. {} \in Good
  BY <1>7, <1>10
<1>12. ASSUME NEW S \in SUBSET keys, NEW x \in keys, S \in Good, \A i \in S : i < x
       PROVE  S \cup {x} \in Good
  <2>1. final[S \cup {x}] = Send(final[S], BlockStop(final[S].toolBlocks[x]))
    <3>1. final[S \cup {x}] = Step(how, final[S], at[x])
      BY <1>9, <1>12
    <3> QED
      BY <1>5, <1>6, <3>1
  <2>2. x \notin S
    <3>1. x \in Nat /\ ~ (x < x)
      BY <1>0
    <3> QED
      BY <1>12, <3>1
  <2>3. Halting(s, S, final[S])
    BY <1>12
  <2>4. Halting(s, S \cup {x}, Send(final[S], BlockStop(final[S].toolBlocks[x])))
    BY <2>2, <2>3, HaltingOne
  <2>5. Halting(s, S \cup {x}, final[S \cup {x}])
    BY <2>1, <2>4
  <2> QED
    BY <2>5
<1>13. keys \in Good
  <2>1. Bounded(keys)
    BY DEF BlockState
  <2> HIDE DEF Good, keys
  <2> QED
    BY <1>11, <1>12, <2>1, InOrder
<1> QED
  BY <1>4, <1>13

\* What the client was sent is well-formed, whether the message is over or not.
WellPaired(t) == IsList(t.out) /\ Paired(t.out)

LEMMA StateIsPaired ==
    ASSUME NEW s, BlockState(s)
    PROVE  WellPaired(s) /\ "out" \in DOMAIN s
BY DEF BlockState, Ledger, WellPaired, BlockFields

LEMMA AsideIsPaired ==
    ASSUME NEW s, WellPaired(s), "out" \in DOMAIN s, NEW e, IsAside(e)
    PROVE  WellPaired(Send(s, e))
<1>1. Send(s, e).out = Append(s.out, e)
  BY DEF Send
<1>2. Fits(s.out, e)
  BY DEF Fits, IsAside
<1>3. IsList(Append(s.out, e)) /\ Paired(Append(s.out, e))
  BY <1>2, Appending, PairedGrows DEF WellPaired
<1> QED
  BY <1>1, <1>3 DEF WellPaired

\* The end of a message: every block stops, then the message.
LEMMA MessageEndKeeps ==
    ASSUME NEW s, BlockState(s), NEW finish
    PROVE  WellPaired(MessageStop(s, finish))
<1> DEFINE closed == StopBlock(StopBlock(s, "thinking"), "text")
           stopped == OverKeys(LAMBDA t, i : Send(t, BlockStop(t.toolBlocks[i])), closed, closed.toolBlocks)
           delta == [type |-> "message_delta", stop |-> finish, usage |-> s.usage]
           stop == [type |-> "message_stop"]
           told == Send(stopped, delta)
<1>1. MessageStop(s, finish) = Send(told, stop)
  BY DEF MessageStop
<1>2. BlockState(closed) /\ \A kind \in Kinds : closed.open[kind] = None
  BY BothStop DEF Moves
<1> HIDE DEF closed
<1>3. Halting(closed, DOMAIN closed.toolBlocks, stopped)
  BY <1>2, ToolsStop
<1> HIDE DEF stopped
<1>4. Ledger(stopped.out, closed.nextBlock) /\ OpenIn(stopped.out) = {} /\ "out" \in DOMAIN stopped
  BY <1>3 DEF Halting
<1>5. IsAside(delta) /\ stop.type = "message_stop"
  BY DEF IsAside
<1> HIDE DEF delta, stop
<1>6. told.out = Append(stopped.out, delta) /\ "out" \in DOMAIN told
  BY <1>4 DEF Send
<1>7. Ledger(told.out, closed.nextBlock) /\ OpenIn(told.out) = {}
  BY <1>4, <1>5, <1>6, LedgerAside
<1> HIDE DEF told
<1>8. Send(told, stop).out = Append(told.out, stop)
  BY <1>6 DEF Send
<1>9. Paired(Append(told.out, stop)) /\ IsList(Append(told.out, stop))
  BY <1>5, <1>7, LedgerEnd, Appending DEF Ledger
<1> QED
  BY <1>1, <1>8, <1>9 DEF WellPaired

LEMMA NoToolDelta ==
    ASSUME NEW s
    PROVE  FoldLeft(ToolDelta, s, <<>>) = s
<1> DEFINE E(iter) == iter = [S \in SUBSET DOMAIN <<>> |->
                                IF S = {} THEN s ELSE ToolDelta(iter[S \ {Max(S)}], <<>>[Max(S)])]
<1>0. DOMAIN <<>> = {} /\ DOMAIN <<>> \in SUBSET (0..0)
  OBVIOUS
<1>1. \A iter : E(iter) <=> Iterates(iter, <<"tool delta">>, s, DOMAIN <<>>, <<>>)
  BY DEF Iterates, Step
<1>2. \E iter : E(iter)
  <2>1. \E iter : Iterates(iter, <<"tool delta">>, s, {}, <<>>)
    BY {} \in SUBSET (0..0), IteratesExist
  <2> HIDE DEF E
  <2> QED
    BY <1>0, <1>1, <2>1
<1>3. E(CHOOSE iter : E(iter))
  BY <1>2, Zenon
<1>4. FoldLeft(ToolDelta, s, <<>>) = (CHOOSE iter : E(iter))[DOMAIN <<>>]
  BY DEF FoldLeft, MapThenFoldSet
<1>5. \A iter : E(iter) => iter[DOMAIN <<>>] = s
  BY <1>0
<1> HIDE DEF E
<1> QED
  BY <1>3, <1>4, <1>5

LEMMA OneToolDelta ==
    ASSUME NEW s, NEW d
    PROVE  FoldLeft(ToolDelta, s, <<d>>) = ToolDelta(s, d)
<1> DEFINE E(iter) == iter = [S \in SUBSET DOMAIN <<d>> |->
                                IF S = {} THEN s ELSE ToolDelta(iter[S \ {Max(S)}], <<d>>[Max(S)])]
<1>0. DOMAIN <<d>> = {1} /\ DOMAIN <<d>> \in SUBSET (0..1) /\ 1 \in DOMAIN <<d>> /\ <<d>>[1] = d
  OBVIOUS
<1>1. \A iter : E(iter) <=> Iterates(iter, <<"tool delta">>, s, DOMAIN <<d>>, <<d>>)
  BY DEF Iterates, Step
<1>2. \E iter : E(iter)
  BY <1>0, <1>1, IteratesExist
<1>3. E(CHOOSE iter : E(iter))
  BY <1>2, Zenon
<1>4. FoldLeft(ToolDelta, s, <<d>>) = (CHOOSE iter : E(iter))[DOMAIN <<d>>]
  BY DEF FoldLeft, MapThenFoldSet
<1>5. Max(DOMAIN <<d>>) = 1 /\ DOMAIN <<d>> \ {1} = {} /\ DOMAIN <<d>> # {}
  BY <1>0, Greatest
<1>6. ASSUME NEW iter, E(iter) PROVE iter[DOMAIN <<d>>] = ToolDelta(s, d)
  <2>1. iter[{}] = s
    BY <1>6
  <2>2. iter[DOMAIN <<d>>] = ToolDelta(iter[{}], d)
    BY <1>0, <1>5, <1>6
  <2> QED
    BY <2>1, <2>2
<1> HIDE DEF E
<1> QED
  BY <1>3, <1>4, <1>6

\* The calls of a chunk: one at most. Those it tells for the first time come with their id.
OneAtMost(calls) == calls = <<>> \/ \E d : d.index \in Nat /\ calls = <<d>>
FirstTold(calls) == {calls[i].index : i \in {j \in DOMAIN calls : calls[j].id # None}}

\* The blocks after a chunk that does not end the message.
Grown(s, t, calls) ==
    /\ BlockState(t) /\ t.toolCalls = s.toolCalls /\ t.toolCallIndex = s.toolCallIndex /\ t.fatal = s.fatal
    /\ DOMAIN t.toolBlocks \subseteq DOMAIN s.toolBlocks \cup FirstTold(calls)

LEMMA CallsAreTold ==
    ASSUME NEW s, BlockState(s), s.messageStarted, NEW calls, OneAtMost(calls),
           FirstTold(calls) \cap DOMAIN s.toolBlocks = {}
    PROVE  Grown(s, FoldLeft(ToolDelta, s, calls), calls)
<1>1. CASE calls = <<>>
  BY <1>1, NoToolDelta DEF Grown
<1>2. ASSUME NEW d, d.index \in Nat, calls = <<d>>
      PROVE  Grown(s, FoldLeft(ToolDelta, s, calls), calls)
  <2>1. FoldLeft(ToolDelta, s, calls) = ToolDelta(s, d)
    BY <1>2, OneToolDelta
  <2>2. DOMAIN calls = {1} /\ calls[1] = d
    BY <1>2
  <2>3. FirstTold(calls) = IF d.id = None THEN {} ELSE {d.index}
    BY <2>2 DEF FirstTold
  <2>4. d.id = None \/ d.index \notin DOMAIN s.toolBlocks
    BY <2>3
  <2>5. Tells(s, ToolDelta(s, d), d)
    BY <1>2, <2>4, ToolDeltaKeeps
  <2> QED
    BY <2>1, <2>3, <2>5 DEF Tells, Beside, Grown
<1> QED
  BY <1>1, <1>2 DEF OneAtMost

LEMMA BodyKeeps ==
    ASSUME NEW s, BlockState(s), NEW new, NEW calls, OneAtMost(calls),
           FirstTold(calls) \cap DOMAIN s.toolBlocks = {}
    PROVE  Grown(s, Bodied(s, new, calls), calls)
<1> DEFINE seen == Seen(s, [new EXCEPT !.refusal = <<>>])
           started == MessageStart(seen)
           thought == TextDelta(started, "thinking", "text", new.reasoning)
           told == TextDelta(thought, "text", "thinking", new.content)
<1>0. "thinking" \in Kinds /\ "text" \in Kinds
  BY DEF Kinds
<1>1. Moves(s, seen)
  BY SeeingKeeps
<1> HIDE DEF seen
<1>2. /\ BlockState(started) /\ started.messageStarted /\ started.toolBlocks = seen.toolBlocks
      /\ started.toolCalls = seen.toolCalls /\ started.toolCallIndex = seen.toolCallIndex
      /\ started.fatal = seen.fatal
  BY <1>1, StartingKeeps DEF Moves
<1> HIDE DEF started
<1>3. Moves(started, thought)
  BY <1>0, <1>2, TextKeeps
<1> HIDE DEF thought
<1>4. BlockState(thought) /\ thought.messageStarted
  BY <1>2, <1>3 DEF Moves, Beside
<1>5. Moves(thought, told)
  BY <1>0, <1>4, TextKeeps
<1>6. Bodied(s, new, calls) = FoldLeft(ToolDelta, told, calls)
  BY DEF Bodied, told, thought, started, seen
<1> HIDE DEF told
<1>7. BlockState(told) /\ told.messageStarted /\ told.toolBlocks = s.toolBlocks
  BY <1>1, <1>2, <1>3, <1>4, <1>5 DEF Moves, Beside
<1>8. Grown(told, FoldLeft(ToolDelta, told, calls), calls)
  BY <1>7, CallsAreTold
<1>9. told.toolCalls = s.toolCalls /\ told.toolCallIndex = s.toolCallIndex /\ told.fatal = s.fatal
  BY <1>1, <1>2, <1>3, <1>5 DEF Moves, Beside
<1> QED
  BY <1>6, <1>7, <1>8, <1>9 DEF Grown

\* A chunk of an Anthropic client's stream.
LEMMA ChunkKeeps ==
    ASSUME NEW s, BlockState(s), NEW c, OneAtMost(c.calls), FirstTold(c.calls) \cap DOMAIN s.toolBlocks = {}
    PROVE  LET t == AnthropicSink(s, c)
           IN WellPaired(t) /\ (c.finish = None => t.fatal \/ Grown(s, t, c.calls))
<1> DEFINE r == Using(s, c)
           new == Normalized(r, c)
           onlyFinish == [c EXCEPT !.finish = None, !.usage = FALSE, !.error = FALSE] = EmptyChunk
           less == [new EXCEPT !.content = <<>>, !.refusal = <<>>]
           seen == Seen(r, less)
           rejected == [seen EXCEPT !.fatal = TRUE]
           unportable == \E i \in DOMAIN c.calls : ~ IsPortable(c.calls[i])
           body == Bodied(r, new, c.calls)
<1>1. AnthropicSink(s, c) =
        IF s.fatal /\ ~ c.error THEN s
        ELSE IF ~ c.choices THEN r
        ELSE IF unportable THEN Send(rejected, ErrorEvent)
        ELSE IF IsErrorFinish(c.finish) /\ ~ r.messageStarted /\ onlyFinish THEN Send(r, ErrorEvent)
        ELSE FinishMessage(body, c.finish)
  BY AnthropicCases
<1>2. Moves(s, r)
  <2>1. "usage" \notin BlockFields
    BY DEF BlockFields
  <2>2. \A v : Moves(s, [s EXCEPT !["usage"] = v])
    BY <2>1, OtherFields
  <2>3. r = s \/ r = [s EXCEPT !["usage"] = TRUE]
    BY DEF Using
  <2> HIDE DEF r
  <2> QED
    BY <2>2, <2>3, NotMoving
<1> HIDE DEF r
<1>3. BlockState(r) /\ r.toolBlocks = s.toolBlocks
  BY <1>2 DEF Moves
<1>4. Grown(r, body, c.calls)
  BY <1>3, BodyKeeps
<1>5. IsAside(ErrorEvent)
  BY DEF IsAside, ErrorEvent
<1>6. WellPaired(Send(rejected, ErrorEvent)) /\ Send(rejected, ErrorEvent).fatal
  <2>1. BlockState(seen)
    BY <1>3, SeeingKeeps DEF Moves
  <2> HIDE DEF seen
  <2>2. BlockFields \subseteq DOMAIN seen
    BY <2>1 DEF BlockState
  <2>3. rejected.out = seen.out /\ "out" \in DOMAIN rejected /\ rejected.fatal /\ "fatal" \in DOMAIN rejected
    BY <2>2 DEF BlockFields
  <2>4. WellPaired(rejected)
    BY <2>1, <2>3, StateIsPaired DEF WellPaired
  <2> HIDE DEF rejected
  <2>5. Send(rejected, ErrorEvent).fatal = rejected.fatal
    BY <2>3 DEF Send
  <2> QED
    BY <1>5, <2>3, <2>4, <2>5, AsideIsPaired
<1>7. Grown(s, body, c.calls)
  BY <1>2, <1>4 DEF Grown, Moves, Beside
<1>8. Grown(s, r, c.calls) /\ Grown(s, s, c.calls)
  BY <1>2 DEF Grown, Moves, Beside
<1> HIDE DEF rejected, unportable, onlyFinish, body
<1>9. BlockState(body)
  BY <1>4 DEF Grown
<1>10. WellPaired(s) /\ WellPaired(r) /\ WellPaired(Send(r, ErrorEvent)) /\ WellPaired(Send(body, ErrorEvent))
  BY <1>3, <1>5, <1>9, StateIsPaired, AsideIsPaired
<1>11. FinishMessage(body, c.finish) = IF c.finish = None THEN body
                                       ELSE IF IsErrorFinish(c.finish) THEN Send(body, ErrorEvent)
                                       ELSE MessageStop(body, c.finish)
  BY DEF FinishMessage
<1>12. WellPaired(body) /\ WellPaired(MessageStop(body, c.finish))
  BY <1>9, StateIsPaired, MessageEndKeeps
<1>13. c.finish = None => ~ IsErrorFinish(c.finish)
  BY NoneAssumption DEF IsErrorFinish
<1> DEFINE t == AnthropicSink(s, c)
<1>14. WellPaired(t)
  BY <1>1, <1>6, <1>10, <1>11, <1>12
<1>15. c.finish = None => t.fatal \/ Grown(s, t, c.calls)
  BY <1>1, <1>6, <1>7, <1>8, <1>11, <1>13
<1> QED
  BY <1>14, <1>15

-----------------------------------------------------------------------------
(* The blocks after one event *)

\* The blocks do not depend on what a source remembers.
LEMMA SameBlocks ==
    ASSUME NEW s, BlockState(s), NEW t, DOMAIN t = DOMAIN s,
           t.out = s.out, t.open = s.open, t.nextBlock = s.nextBlock, t.toolBlocks = s.toolBlocks,
           t.messageStarted = s.messageStarted
    PROVE  BlockState(t)
<1>1. OpenBlocks(t) = OpenBlocks(s)
  BY DEF OpenBlocks
<1> QED
  BY <1>1 DEF BlockState

\* What a source does: its chunks tell no call but those in first, and end nothing.
Serves(s, given, first) ==
    /\ BlockState(given.state) /\ given.state.toolBlocks = s.toolBlocks /\ given.state.fatal = s.fatal
    /\ \/ given.chunks = <<>>
       \/ \E c : given.chunks = <<c>> /\ OneAtMost(c.calls) /\ FirstTold(c.calls) \subseteq first /\ c.finish = None

\* The client's message, when its blocks are those of s and of the calls in first.
Comes(s, t, first) ==
    /\ WellPaired(t)
    /\ t.fatal \/ (BlockState(t) /\ DOMAIN t.toolBlocks \subseteq DOMAIN s.toolBlocks \cup first)

LEMMA GivenKeeps ==
    ASSUME pair[2] = "anthropic", NEW s, NEW first, first \cap DOMAIN s.toolBlocks = {},
           NEW given, Serves(s, given, first)
    PROVE  LET t == FoldLeft(ToClient, given.state, given.chunks)
           IN /\ Comes(s, t, first)
              /\ t.fatal \/ (t.toolCalls = given.state.toolCalls /\ t.toolCallIndex = given.state.toolCallIndex)
<1> DEFINE r == given.state
           t == FoldLeft(ToClient, r, given.chunks)
<1>1. BlockState(r) /\ r.toolBlocks = s.toolBlocks
  BY DEF Serves
<1>2. CASE given.chunks = <<>>
  <2>1. t = r
    BY <1>2, NoChunks
  <2>2. WellPaired(r)
    BY <1>1, StateIsPaired
  <2> QED
    BY <1>1, <2>1, <2>2 DEF Comes
<1>3. ASSUME NEW c, given.chunks = <<c>>, OneAtMost(c.calls), FirstTold(c.calls) \subseteq first, c.finish = None
      PROVE  /\ Comes(s, t, first)
             /\ t.fatal \/ (t.toolCalls = r.toolCalls /\ t.toolCallIndex = r.toolCallIndex)
  <2>1. t = AnthropicSink(r, c)
    <3>1. t = ToClient(r, c)
      BY <1>3, OneChunk
    <3> QED
      BY <3>1 DEF ToClient
  <2>2. FirstTold(c.calls) \cap DOMAIN r.toolBlocks = {}
    BY <1>1, <1>3
  <2> HIDE DEF r, t
  <2>3. WellPaired(t) /\ (t.fatal \/ Grown(r, t, c.calls))
    BY <1>1, <1>3, <2>1, <2>2, ChunkKeeps
  <2> QED
    BY <1>1, <1>3, <2>3 DEF Grown, Comes
<1> QED
  BY <1>2, <1>3 DEF Serves

\* A refused stream.
LEMMA RefusalKeeps ==
    ASSUME pair \in Pairs, pair[2] = "anthropic", NEW s, Live(s), BlockState(s)
    PROVE  LET t == FoldLeft(ToClient, Rejected(s).state, Rejected(s).chunks)
           IN WellPaired(t) /\ t.fatal
<1> DEFINE r == Rejected(s).state
           c == [EmptyChunk EXCEPT !.finish = "error", !.error = TRUE, !.usage = s.usage]
           t == FoldLeft(ToClient, Rejected(s).state, Rejected(s).chunks)
<1>1. t.fatal
  <2>1. PICK u : TRUE
    OBVIOUS
  <2>2. IsState(t) /\ t.fatal /\ Over(t.out, u)
    BY Refusing DEF Live
  <2> QED
    BY <2>2
<1>2. t = AnthropicSink(r, c)
  <2>1. Rejected(s).chunks = <<c>>
    BY DEF Rejected
  <2>2. t = ToClient(r, c)
    BY <2>1, OneChunk
  <2> QED
    BY <2>2 DEF ToClient
<1>3. BlockState(r)
  <2>1. r = [s EXCEPT !.fatal = TRUE, !.finish = "error", !.finishSent = TRUE]
    BY DEF Rejected
  <2>2. BlockFields \subseteq DOMAIN s
    BY DEF BlockState
  <2>3. DOMAIN r = DOMAIN s /\ \A f \in BlockFields \ {"fatal"} : r[f] = s[f]
    BY <2>1, <2>2 DEF BlockFields
  <2> HIDE DEF r
  <2>4. /\ r.out = s.out /\ r.open = s.open /\ r.nextBlock = s.nextBlock /\ r.toolBlocks = s.toolBlocks
        /\ r.messageStarted = s.messageStarted
    BY <2>3 DEF BlockFields
  <2> QED
    BY <2>3, <2>4, SameBlocks
<1>4. c.calls = <<>>
  BY DEF EmptyChunk
<1> HIDE DEF r, c
<1>5. OneAtMost(c.calls) /\ FirstTold(c.calls) = {}
  BY <1>4 DEF OneAtMost, FirstTold
<1>6. WellPaired(AnthropicSink(r, c))
  BY <1>3, <1>5, ChunkKeeps
<1> QED
  BY <1>1, <1>2, <1>6

\* A chunk of a chat upstream.
LEMMA ChatChunkKeeps ==
    ASSUME pair \in Pairs, pair = <<"chat", "anthropic">>, NEW s, Live(s), BlockState(s),
           NEW c, OneAtMost(c.calls), FirstTold(c.calls) \cap DOMAIN s.toolBlocks = {}
    PROVE  LET t == Translate(s, [type |-> "chunk", chunk |-> c])
           IN WellPaired(t) /\ (c.finish = None => Comes(s, t, FirstTold(c.calls)))
<1> DEFINE event == [type |-> "chunk", chunk |-> c]
           r == [s EXCEPT !.usage = @ \/ c.usage]
           t == Translate(s, event)
<1>1. ~ s.fatal
  BY DEF Live
<1>2. CASE IsRefused(event)
  <2>1. t = FoldLeft(ToClient, Rejected(s).state, Rejected(s).chunks)
    BY <1>1, <1>2 DEF Translate
  <2>2. WellPaired(t) /\ t.fatal
    BY <2>1, RefusalKeeps
  <2> HIDE DEF t
  <2> QED
    BY <2>2 DEF Comes, t
<1>3. CASE ~ IsRefused(event)
  <2>1. Source(s, event) = Give(From(r), c)
    BY DEF Source
  <2>2. t = FoldLeft(ToClient, Give(From(r), c).state, Give(From(r), c).chunks)
    BY <1>1, <1>3, <2>1 DEF Translate
  <2>3. Moves(s, r)
    <3> DEFINE v == s.usage \/ c.usage
    <3>1. r = [s EXCEPT !["usage"] = v]
      OBVIOUS
    <3>2. "usage" \notin BlockFields
      BY DEF BlockFields
    <3> HIDE DEF r, v
    <3> QED
      BY <3>1, <3>2, OtherFields
  <2> HIDE DEF r
  <2>4. Give(From(r), c).state = r /\ Give(From(r), c).chunks = Append(<<>>, c)
    BY DEF Give, From
  <2>5. Append(<<>>, c) = <<c>>
    OBVIOUS
  <2>6. t = ToClient(r, c)
    BY <2>2, <2>4, <2>5, OneChunk
  <2>7. t = AnthropicSink(r, c)
    BY <2>6 DEF ToClient
  <2> HIDE DEF t
  <2>8. BlockState(r) /\ r.toolBlocks = s.toolBlocks
    BY <2>3 DEF Moves
  <2>9. WellPaired(t) /\ (c.finish = None => t.fatal \/ Grown(r, t, c.calls))
    BY <2>7, <2>8, ChunkKeeps
  <2>10. WellPaired(t) /\ (c.finish = None => Comes(s, t, FirstTold(c.calls)))
    BY <2>8, <2>9 DEF Grown, Comes
  <2> QED
    BY <2>10 DEF t
<1> QED
  BY <1>2, <1>3

-----------------------------------------------------------------------------
(* The source of a Responses upstream whose calls are all of functions *)

Functions(s) ==
    \A i \in DOMAIN s.toolCalls : "customInput" \in DOMAIN s.toolCalls[i] /\ s.toolCalls[i].customInput = None

\* The next call comes under an index of its own.
Numbered(s) ==
    /\ Functions(s)
    /\ s.toolCallIndex \in Nat /\ \A i \in DOMAIN s.toolBlocks : i < s.toolCallIndex

\* What the source does: its chunk tells the calls in first, under indices it has not given.
Counts(s, given, first) ==
    /\ Serves(s, given, first) /\ Functions(given.state)
    /\ given.state.toolCallIndex \in Nat /\ s.toolCallIndex <= given.state.toolCallIndex
    /\ \A i \in first : s.toolCallIndex <= i /\ i < given.state.toolCallIndex

LEMMA NothingCounts ==
    ASSUME NEW s, BlockState(s), Numbered(s)
    PROVE  Counts(s, From(s), {})
<1>1. From(s).state = s /\ From(s).chunks = <<>>
  BY DEF From
<1>2. Serves(s, From(s), {})
  BY <1>1 DEF Serves
<1> QED
  BY <1>1, <1>2 DEF Counts, Numbered

LEMMA ChunkCounts ==
    ASSUME NEW s, BlockState(s), Numbered(s),
           NEW r, BlockState(r), r.toolBlocks = s.toolBlocks, r.fatal = s.fatal, Functions(r),
           r.toolCallIndex \in Nat, s.toolCallIndex <= r.toolCallIndex,
           NEW first, \A i \in first : s.toolCallIndex <= i /\ i < r.toolCallIndex,
           NEW c, OneAtMost(c.calls), FirstTold(c.calls) \subseteq first, c.finish = None,
           NEW given, given.state = r, given.chunks = <<c>>
    PROVE  Counts(s, given, first)
<1>1. Serves(s, given, first)
  BY DEF Serves
<1> QED
  BY <1>1 DEF Counts

\* A chunk of a source that tells no call.
LEMMA TextCounts ==
    ASSUME NEW s, BlockState(s), Numbered(s), NEW r, Moves(s, r), NEW c, c.calls = <<>>, c.finish = None
    PROVE  Counts(s, Give(From(r), c), {})
<1> DEFINE given == Give(From(r), c)
<1>1. given.state = r /\ given.chunks = Append(<<>>, c)
  BY DEF Give, From
<1>2. Append(<<>>, c) = <<c>>
  OBVIOUS
<1> HIDE DEF given
<1>3. OneAtMost(c.calls) /\ FirstTold(c.calls) \subseteq {}
  BY DEF OneAtMost, FirstTold
<1>4. /\ BlockState(r) /\ r.toolBlocks = s.toolBlocks /\ r.fatal = s.fatal
      /\ r.toolCalls = s.toolCalls /\ r.toolCallIndex = s.toolCallIndex
  BY DEF Moves, Beside
<1>5. Functions(r) /\ r.toolCallIndex \in Nat /\ s.toolCallIndex <= r.toolCallIndex
  BY <1>4 DEF Numbered, Functions
<1> QED
  BY <1>1, <1>2, <1>3, <1>4, <1>5, ChunkCounts DEF given

LEMMA RoleCounts ==
    ASSUME NEW s, BlockState(s), Numbered(s)
    PROVE  Counts(s, GiveRole(From(s)), {})
<1> DEFINE c == [EmptyChunk EXCEPT !.role = TRUE]
           r == [s EXCEPT !["roleSent"] = TRUE]
           given == GiveRole(From(s))
<1>1. CASE s.roleSent
  <2>1. given = From(s)
    BY <1>1 DEF GiveRole, From
  <2> QED
    BY <2>1, NothingCounts
<1>2. CASE ~ s.roleSent
  <2>1. given.state = r /\ given.chunks = Append(<<>>, c)
    BY <1>2 DEF GiveRole, Give, From
  <2>2. Append(<<>>, c) = <<c>>
    OBVIOUS
  <2> HIDE DEF given
  <2>3. c.calls = <<>> /\ c.finish = None
    BY DEF EmptyChunk
  <2>4. Moves(s, r)
    BY OtherFields DEF BlockFields
  <2> HIDE DEF c, r
  <2>5. OneAtMost(c.calls) /\ FirstTold(c.calls) \subseteq {}
    BY <2>3 DEF OneAtMost, FirstTold
  <2>6. /\ BlockState(r) /\ r.toolBlocks = s.toolBlocks /\ r.fatal = s.fatal
        /\ r.toolCalls = s.toolCalls /\ r.toolCallIndex = s.toolCallIndex
    BY <2>4 DEF Moves, Beside
  <2>7. Functions(r) /\ r.toolCallIndex \in Nat /\ s.toolCallIndex <= r.toolCallIndex
    BY <2>6 DEF Numbered, Functions
  <2>8. Counts(s, given, {})
    BY <2>1, <2>2, <2>3, <2>5, <2>6, <2>7, ChunkCounts
  <2> QED
    BY <2>8 DEF given
<1> QED
  BY <1>1, <1>2

LEMMA RefusalCounts ==
    ASSUME NEW s, BlockState(s), Numbered(s), NEW event
    PROVE  Counts(s, RefusalDelta(s, event), {})
<1> DEFINE new == NewText(event.text, s.seen.refusal)
           seen == [s.seen EXCEPT !.refusal = @ \o new]
           t == [s EXCEPT !["seen"] = seen]
           c == [EmptyChunk EXCEPT !.refusal = new]
<1>1. RefusalDelta(s, event) = IF new = <<>> THEN From(s) ELSE Give(From(t), c)
  BY DEF RefusalDelta
<1>2. c.calls = <<>> /\ c.finish = None
  BY DEF EmptyChunk
<1> HIDE DEF c, new, seen
<1>3. Moves(s, t)
  BY OtherFields DEF BlockFields
<1> HIDE DEF t
<1>4. Counts(s, Give(From(t), c), {})
  BY <1>2, <1>3, TextCounts
<1> QED
  BY <1>1, <1>4, NothingCounts

\* A chunk with one call.
LEMMA CallsTold ==
    ASSUME NEW d, d.index \in Nat, NEW c, c.calls = <<d>>
    PROVE  OneAtMost(c.calls) /\ FirstTold(c.calls) = IF d.id = None THEN {} ELSE {d.index}
<1>1. DOMAIN c.calls = {1} /\ c.calls[1] = d
  OBVIOUS
<1>2. FirstTold(c.calls) = IF d.id = None THEN {} ELSE {d.index}
  BY <1>1 DEF FirstTold
<1>3. OneAtMost(c.calls)
  BY DEF OneAtMost
<1> QED
  BY <1>2, <1>3

LEMMA CallCounts ==
    ASSUME NEW s, BlockState(s), Numbered(s), NEW event, event.kind = "function"
    PROVE  Counts(s, CallAdded(s, event), {s.toolCallIndex})
<1> DEFINE index == s.toolCallIndex
           args == IF event.kind = "custom" THEN WrapperStart \o event.args ELSE event.args
           call == [NewCall EXCEPT !.id = event.id, !.name = event.name, !.args = args,
                                   !.type = "function", !.itemId = event.item,
                                   !.block = event.output,
                                   !.customInput = IF event.kind = "custom" THEN event.args ELSE None]
           calls == With(s.toolCalls, index, call)
           known == [s EXCEPT !["toolCalls"] = calls]
           t == [known EXCEPT !["toolCallIndex"] = index + 1]
           c == [EmptyChunk EXCEPT !.calls = <<CallDelta(index, event.id, event.name, "function", args)>>]
           given == Give(From(t), c)
<1>1. CallAdded(s, event) = given
  <2> DEFINE both == [s EXCEPT !.toolCalls = With(@, index, call), !.toolCallIndex = @ + 1]
  <2>1. CallAdded(s, event) = Give(From(both), c)
    BY DEF CallAdded, GiveCall
  <2>2. both = t
    <3> HIDE DEF call
    <3> QED
      OBVIOUS
  <2> HIDE DEF both, t, c
  <2> QED
    BY <2>1, <2>2
<1>2. index \in Nat
  BY DEF Numbered
<1>3. "customInput" \in DOMAIN call /\ call.customInput = None
  BY DEF NewCall
<1>4. OneAtMost(c.calls) /\ c.finish = None /\ FirstTold(c.calls) \subseteq {index}
  <2> DEFINE d == CallDelta(index, event.id, event.name, "function", args)
  <2>1. d.index = index /\ c.calls = <<d>> /\ c.finish = None
    BY DEF CallDelta, EmptyChunk
  <2> HIDE DEF d, c, args, index
  <2> QED
    BY <1>2, <2>1, CallsTold
<1>5. given.state = t /\ given.chunks = Append(<<>>, c)
  <2> HIDE DEF t, c
  <2> QED
    BY DEF Give, From
<1>6. Append(<<>>, c) = <<c>>
  OBVIOUS
<1> HIDE DEF given, c, call, args
<1>7. /\ DOMAIN t = DOMAIN s /\ t.toolCalls = calls /\ t.toolCallIndex = index + 1
      /\ \A f \in BlockFields \ {"toolCalls", "toolCallIndex"} : t[f] = s[f]
  <2>1. BlockFields \subseteq DOMAIN s
    BY DEF BlockState
  <2> HIDE DEF calls
  <2> QED
    BY <2>1 DEF BlockFields
<1> HIDE DEF t, index
<1>8. /\ t.out = s.out /\ t.open = s.open /\ t.nextBlock = s.nextBlock /\ t.toolBlocks = s.toolBlocks
      /\ t.messageStarted = s.messageStarted /\ t.fatal = s.fatal
  BY <1>7 DEF BlockFields
<1>9. BlockState(t)
  BY <1>7, <1>8, SameBlocks
<1>10. Functions(t)
  BY <1>3, <1>7 DEF Functions, Numbered, With
<1>11. t.toolCallIndex \in Nat /\ s.toolCallIndex <= t.toolCallIndex
       /\ \A i \in {index} : s.toolCallIndex <= i /\ i < t.toolCallIndex
  BY <1>2, <1>7 DEF index
<1>12. Counts(s, given, {index})
  BY <1>4, <1>5, <1>6, <1>8, <1>9, <1>10, <1>11, ChunkCounts
<1> QED
  BY <1>1, <1>12 DEF index

LEMMA ArgumentsCount ==
    ASSUME NEW s, IsState(s), BlockState(s), Numbered(s), NEW event, event.type = "arguments_delta"
    PROVE  Counts(s, CallArguments(s, event), {})
<1> DEFINE index == CallIndex(s, event)
           was == IF index \in DOMAIN s.toolCalls THEN s.toolCalls[index] ELSE NewCall
           call == [was EXCEPT !.type = IF @ = None THEN "function" ELSE @,
                               !.itemId = IF @ = None THEN event.item ELSE @,
                               !.block = IF @ = None THEN event.output ELSE @,
                               !.args = @ \o event.args,
                               !.customInput = IF event.type # "input_delta" THEN @
                                               ELSE IF @ = None THEN event.args ELSE @ \o event.args]
           calls == With(s.toolCalls, index, call)
           t == [s EXCEPT !["toolCalls"] = calls]
           c == [EmptyChunk EXCEPT !.calls = <<CallDelta(index, None, None, "function", event.args)>>]
           given == Give(From(t), c)
<1>1. CallArguments(s, event) = IF event.args = <<>> THEN From(s) ELSE given
  BY DEF CallArguments, GiveCall
<1>2. index \in Nat
  BY CallIndexIsNat
<1> HIDE DEF index
<1>3. "customInput" \in DOMAIN call /\ call.customInput = None
  <2>1. "customInput" \in DOMAIN was /\ was.customInput = None
    BY DEF NewCall, Numbered, Functions
  <2> HIDE DEF was
  <2> QED
    BY <2>1
<1>4. OneAtMost(c.calls) /\ c.finish = None /\ FirstTold(c.calls) \subseteq {}
  <2> DEFINE d == CallDelta(index, None, None, "function", event.args)
  <2>1. d.index = index /\ d.id = None /\ c.calls = <<d>> /\ c.finish = None
    BY DEF CallDelta, EmptyChunk
  <2> HIDE DEF d, c
  <2> QED
    BY <1>2, <2>1, CallsTold
<1> HIDE DEF c, call, was
<1>5. given.state = t /\ given.chunks = Append(<<>>, c)
  BY DEF Give, From
<1>6. Append(<<>>, c) = <<c>>
  OBVIOUS
<1> HIDE DEF given
<1>7. DOMAIN t = DOMAIN s /\ t.toolCalls = calls /\ \A f \in BlockFields \ {"toolCalls"} : t[f] = s[f]
  <2>1. BlockFields \subseteq DOMAIN s
    BY DEF BlockState
  <2> HIDE DEF calls
  <2> QED
    BY <2>1 DEF BlockFields
<1> HIDE DEF t
<1>8. /\ t.out = s.out /\ t.open = s.open /\ t.nextBlock = s.nextBlock /\ t.toolBlocks = s.toolBlocks
      /\ t.messageStarted = s.messageStarted /\ t.fatal = s.fatal /\ t.toolCallIndex = s.toolCallIndex
  BY <1>7 DEF BlockFields
<1>9. BlockState(t)
  BY <1>7, <1>8, SameBlocks
<1>10. Functions(t)
  BY <1>3, <1>7 DEF Functions, Numbered, With
<1>11. t.toolCallIndex \in Nat /\ s.toolCallIndex <= t.toolCallIndex
  BY <1>8 DEF Numbered
<1>12. Counts(s, given, {})
  BY <1>4, <1>5, <1>6, <1>8, <1>9, <1>10, <1>11, ChunkCounts
<1> QED
  BY <1>1, <1>12, NothingCounts

\* An event that is no end and is about no custom call.
IsFunctional(event) ==
    \/ event.type \in {"created", "audio", "text_delta", "refusal_delta", "refusal_done", "reasoning_delta",
                       "arguments_delta"}
    \/ event.type = "call_added" /\ event.kind = "function"

LEMMA EventCounts ==
    ASSUME NEW s, IsState(s), BlockState(s), Numbered(s), NEW event, IsFunctional(event), event.type # "audio"
    PROVE  \E first : Counts(s, ResponsesSource(s, event), first)
<1>0. Moves(s, s)
  BY NotMoving
<1>1. CASE event.type = "created"
  <2>1. ResponsesSource(s, event) = GiveRole(From(s))
    BY <1>1 DEF ResponsesSource
  <2> QED
    BY <2>1, RoleCounts
<1>2. CASE event.type = "text_delta"
  <2> DEFINE c == [EmptyChunk EXCEPT !.content = event.text]
  <2>1. ResponsesSource(s, event) = Give(From(s), c)
    BY <1>2 DEF ResponsesSource
  <2>2. c.calls = <<>> /\ c.finish = None
    BY DEF EmptyChunk
  <2> HIDE DEF c
  <2>3. Counts(s, Give(From(s), c), {})
    BY <1>0, <2>2, TextCounts
  <2> QED
    BY <2>1, <2>3
<1>3. CASE event.type = "reasoning_delta"
  <2> DEFINE c == [EmptyChunk EXCEPT !.reasoning = event.text]
  <2>1. ResponsesSource(s, event) = Give(From(s), c)
    BY <1>3 DEF ResponsesSource
  <2>2. c.calls = <<>> /\ c.finish = None
    BY DEF EmptyChunk
  <2> HIDE DEF c
  <2>3. Counts(s, Give(From(s), c), {})
    BY <1>0, <2>2, TextCounts
  <2> QED
    BY <2>1, <2>3
<1>4. CASE event.type \in {"refusal_delta", "refusal_done"}
  <2>1. ResponsesSource(s, event) = RefusalDelta(s, event)
    BY <1>4 DEF ResponsesSource
  <2> QED
    BY <2>1, RefusalCounts
<1>5. CASE event.type = "call_added" /\ event.kind = "function"
  <2>1. ResponsesSource(s, event) = CallAdded(s, event)
    BY <1>5 DEF ResponsesSource
  <2> QED
    BY <1>5, <2>1, CallCounts
<1>6. CASE event.type = "arguments_delta"
  <2>1. ResponsesSource(s, event) = CallArguments(s, event)
    BY <1>6 DEF ResponsesSource
  <2> QED
    BY <1>6, <2>1, ArgumentsCount
<1> QED
  BY <1>1, <1>2, <1>3, <1>4, <1>5, <1>6 DEF IsFunctional

\* An event of a Responses upstream before its last.
LEMMA ResponsesEventKeeps ==
    ASSUME pair \in Pairs, pair = <<"responses", "anthropic">>,
           NEW s, Live(s), BlockState(s), Numbered(s), NEW event, IsFunctional(event)
    PROVE  LET t == Translate(s, event)
           IN WellPaired(t) /\ (t.fatal \/ (BlockState(t) /\ Numbered(t)))
<1> DEFINE t == Translate(s, event)
           given == ResponsesSource(s, event)
<1>1. ~ s.fatal /\ IsState(s)
  BY DEF Live
<1>2. event.type # "done" /\ event.type # "error"
  BY DEF IsFunctional
<1>3. Source(s, event) = given
  BY <1>2 DEF Source
<1>4. CASE IsRefused(event) \/ event.type = "audio"
  <2>1. t = FoldLeft(ToClient, Rejected(s).state, Rejected(s).chunks)
    <3>1. event.type = "audio" => given = Rejected(s)
      BY DEF ResponsesSource
    <3> HIDE DEF given
    <3> QED
      BY <1>1, <1>2, <1>3, <1>4, <3>1 DEF Translate
  <2> HIDE DEF t
  <2> QED
    BY <2>1, RefusalKeeps DEF t
<1>5. CASE ~ IsRefused(event) /\ event.type # "audio"
  <2>1. PICK first : Counts(s, given, first)
    BY <1>1, <1>5, EventCounts
  <2> HIDE DEF given
  <2>2. t = FoldLeft(ToClient, given.state, given.chunks)
    BY <1>1, <1>2, <1>3, <1>5 DEF Translate
  <2>3. \A i \in DOMAIN s.toolBlocks : i \in Nat
    BY DEF BlockState, Bounded
  <2>4. first \cap DOMAIN s.toolBlocks = {}
    <3>1. ASSUME NEW i \in first, i \in DOMAIN s.toolBlocks PROVE FALSE
      <4>1. s.toolCallIndex <= i /\ i < s.toolCallIndex /\ i \in Nat /\ s.toolCallIndex \in Nat
        BY <2>1, <2>3, <3>1 DEF Counts, Numbered
      <4> QED
        BY <4>1
    <3> QED
      BY <3>1
  <2> HIDE DEF t
  <2>5. /\ Comes(s, t, first)
        /\ t.fatal \/ (t.toolCalls = given.state.toolCalls /\ t.toolCallIndex = given.state.toolCallIndex)
    BY <2>1, <2>2, <2>4, GivenKeeps DEF Counts
  <2>6. ASSUME ~ t.fatal PROVE BlockState(t) /\ Numbered(t)
    <3>1. BlockState(t) /\ DOMAIN t.toolBlocks \subseteq DOMAIN s.toolBlocks \cup first
      BY <2>5, <2>6 DEF Comes
    <3>2. t.toolCalls = given.state.toolCalls /\ t.toolCallIndex = given.state.toolCallIndex
      BY <2>5, <2>6
    <3>3. Functions(t)
      BY <2>1, <3>2 DEF Counts, Functions
    <3>4. ASSUME NEW i \in DOMAIN t.toolBlocks PROVE i < t.toolCallIndex
      <4>1. CASE i \in first
        BY <2>1, <3>2, <4>1 DEF Counts
      <4>2. CASE i \in DOMAIN s.toolBlocks
        <5>1. i \in Nat /\ i < s.toolCallIndex /\ s.toolCallIndex \in Nat
          BY <2>3, <4>2 DEF Numbered
        <5>2. s.toolCallIndex <= t.toolCallIndex /\ t.toolCallIndex \in Nat
          BY <2>1, <3>2 DEF Counts
        <5> QED
          BY <5>1, <5>2
      <4> QED
        BY <3>1, <4>1, <4>2
    <3>5. t.toolCallIndex \in Nat
      BY <2>1, <3>2 DEF Counts
    <3> QED
      BY <3>1, <3>3, <3>4, <3>5 DEF Numbered
  <2> QED
    BY <2>5, <2>6 DEF Comes, t
<1> QED
  BY <1>4, <1>5

\* An end whose output has no custom call ends none.
LEMMA NoCustomCalls ==
    ASSUME NEW s, NEW output, IsList(output), \A i \in DOMAIN output : output[i].kind # "custom"
    PROVE  TerminalCustomCalls(s, output) = From(s)
<1> DEFINE how == <<"custom call">>
           r == From(s)
           keys == DOMAIN output
           E(iter) == iter = [S \in SUBSET keys |->
                                IF S = {} THEN r ELSE EndCustom(iter[S \ {Max(S)}], output[Max(S)])]
           final == CHOOSE iter : E(iter)
           Good == {S \in SUBSET keys : final[S] = r}
<1>0. Bounded(keys)
  BY DEF IsList, Bounded
<1>1. \A iter : E(iter) <=> Iterates(iter, how, r, keys, output)
  <2>1. ASSUME NEW t, NEW x PROVE Step(how, t, x) = EndCustom(t, x)
    BY DEF Step, EndCustom
  <2> HIDE DEF how, r
  <2>2. ASSUME NEW iter
        PROVE  [S \in SUBSET keys |-> IF S = {} THEN r ELSE EndCustom(iter[S \ {Max(S)}], output[Max(S)])]
                = [S \in SUBSET keys |-> IF S = {} THEN r ELSE Step(how, iter[S \ {Max(S)}], output[Max(S)])]
    BY <2>1
  <2> QED
    BY <2>2 DEF Iterates
<1>2. \E iter : E(iter)
  <2>1. PICK n \in Nat : keys \in SUBSET (0..n)
    BY <1>0 DEF Bounded
  <2> HIDE DEF r, keys
  <2> QED
    BY <1>1, <2>1, IteratesExist
<1>3. E(final)
  BY <1>2, Zenon
<1>4. TerminalCustomCalls(s, output) = final[keys]
  BY DEF TerminalCustomCalls, FoldLeft, MapThenFoldSet, EndCustom
<1>5. \A t, x : Step(how, t, x) = EndCustom(t, x)
  BY DEF Step, EndCustom
<1> HIDE DEF E, how, r, final
<1>6. Iterates(final, how, r, keys, output)
  BY <1>1, <1>3
<1>7. /\ final[{}] = r
      /\ \A S \in SUBSET keys : \A x \in keys :
            (\A i \in S : i < x) => final[S \cup {x}] = Step(how, final[S], output[x])
  <2> HIDE DEF keys
  <2> QED
    BY <1>0, <1>6, IterationSteps
<1>8. {} \in Good
  BY <1>7
<1>9. ASSUME NEW S \in SUBSET keys, NEW x \in keys, S \in Good, \A i \in S : i < x
      PROVE  S \cup {x} \in Good
  <2>1. final[S] = r /\ final[S \cup {x}] = EndCustom(final[S], output[x])
    BY <1>5, <1>7, <1>9
  <2>2. EndCustom(r, output[x]) = r
    BY <1>9 DEF EndCustom
  <2> QED
    BY <2>1, <2>2
<1>10. keys \in Good
  <2> HIDE DEF Good, keys
  <2> QED
    BY <1>0, <1>8, <1>9, InOrder
<1> QED
  BY <1>4, <1>10 DEF r

\* The last event of a Responses upstream.
LEMMA TerminalKeeps ==
    ASSUME pair = <<"responses", "anthropic">>, NEW s, Live(s), BlockState(s), NEW event,
           event.type \in Terminals, IsList(event.output), \A i \in DOMAIN event.output : event.output[i].kind # "custom"
    PROVE  WellPaired(Translate(s, event))
<1> DEFINE t == Translate(s, event)
           given == ResponsesSource(s, event)
           ended == TerminalCustomCalls(s, event.output)
           told == [ended EXCEPT !.state.usage = @ \/ event.usage]
           hasCalls == DOMAIN ended.state.toolCalls # {} \/ event.output # <<>>
           finish == IF event.type # "completed" THEN event.reason
                     ELSE IF hasCalls THEN "tool_calls" ELSE "stop"
           c == [EmptyChunk EXCEPT !.finish = finish, !.usage = told.state.usage]
           v == s.usage \/ event.usage
           r == [s EXCEPT !["usage"] = v]
           q == [r EXCEPT !["finishSent"] = TRUE]
<1>1. ~ s.fatal /\ ~ s.finishSent /\ {"usage", "finishSent"} \subseteq DOMAIN s
  BY DEF Live, IsState, Tracked
<1>2. event.type # "done" /\ event.type # "error" /\ ~ IsRefused(event)
  BY DEF IsRefused, Terminals
<1>3. ended = From(s)
  BY NoCustomCalls
<1>4. given = [Give(told, c) EXCEPT !.state.finishSent = TRUE]
  <2>1. given = TerminalRead(s, event)
    BY DEF ResponsesSource, Terminals
  <2> HIDE DEF given
  <2> QED
    BY <1>1, <2>1 DEF TerminalRead
<1> HIDE DEF c
<1>5. given.state = q /\ given.chunks = Append(<<>>, c)
  <2>1. told = From(r)
    <3> HIDE DEF ended
    <3> QED
      BY <1>3 DEF From
  <2> HIDE DEF told, given, r
  <2> QED
    BY <1>4, <2>1 DEF Give, From
<1>6. Append(<<>>, c) = <<c>>
  OBVIOUS
<1>7. t = AnthropicSink(q, c)
  <2>1. Source(s, event) = given
    BY <1>2 DEF Source
  <2> HIDE DEF given, q
  <2>2. t = FoldLeft(ToClient, given.state, given.chunks)
    BY <1>1, <1>2, <2>1 DEF Translate
  <2>3. t = ToClient(q, c)
    BY <1>5, <1>6, <2>2, OneChunk
  <2> QED
    BY <2>3 DEF ToClient
<1>8. BlockState(q)
  <2>1. "usage" \notin BlockFields /\ "finishSent" \notin BlockFields
    BY DEF BlockFields
  <2> HIDE DEF v
  <2>2. BlockState(r)
    BY <2>1, OtherFields DEF Moves
  <2> HIDE DEF r
  <2>3. Moves(r, [r EXCEPT !["finishSent"] = TRUE])
    <3> DEFINE w == TRUE
    <3>1. w = TRUE
      OBVIOUS
    <3> HIDE DEF w
    <3>2. Moves(r, [r EXCEPT !["finishSent"] = w])
      BY <2>1, <2>2, OtherFields
    <3> QED
      BY <3>1, <3>2
  <2> QED
    BY <2>3 DEF Moves
<1>9. OneAtMost(c.calls) /\ FirstTold(c.calls) = {}
  <2>1. c.calls = <<>>
    BY DEF c, EmptyChunk
  <2> QED
    BY <2>1 DEF OneAtMost, FirstTold
<1> HIDE DEF q, t
<1>10. WellPaired(t)
  BY <1>7, <1>8, <1>9, ChunkKeeps
<1> QED
  BY <1>10 DEF t

-----------------------------------------------------------------------------
(* The blocks, inductively *)

\* An Anthropic client's blocks are well-formed; while its message goes on, the state knows
\* them, and the next call comes under an index that has no block yet.
BlocksInv ==
    pair[2] = "anthropic" =>
        /\ WellPaired(state)
        /\ up.phase \in {"start", "open"} /\ ~ state.fatal =>
            /\ BlockState(state)
            /\ pair[1] = "chat" => \A i \in DOMAIN state.toolBlocks : i < Len(up.calls)
            /\ pair[1] = "responses" => Numbered(state) /\ up.customs = {}

LEMMA BlocksStart ==
    ASSUME Init
    PROVE  BlocksInv
<1> DEFINE s == InitialState
<1>1. /\ BlockFields \subseteq DOMAIN s /\ s.out = <<>> /\ s.nextBlock = 0 /\ s.toolCallIndex = 0
      /\ s.toolBlocks = NoBlocks /\ s.toolCalls = NoCalls /\ s.open = [thinking |-> None, text |-> None]
  BY DEF InitialState, BlockFields
<1>2. state = s /\ up.customs = {}
  BY DEF Init
<1> HIDE DEF s
<1>3. DOMAIN s.toolBlocks = {} /\ DOMAIN s.toolCalls = {}
  BY <1>1 DEF NoBlocks, NoCalls
<1>4. s.open \in [Kinds -> Nat \cup {None}] /\ \A kind \in Kinds : s.open[kind] = None
  BY <1>1 DEF Kinds
<1>5. Len(<<>>) = 0 /\ IsList(<<>>)
  <2>1. <<>> \in Seq({})
    OBVIOUS
  <2> QED
    BY <2>1, SequencesAreLists
<1>6. Starts(<<>>) = {}
  BY <1>5 DEF Starts
<1>7. Paired(<<>>)
  BY <1>5, <1>6 DEF Paired
<1>8. Ledger(s.out, s.nextBlock)
  <2> DEFINE l == <<>>
  <2>1. Len(l) = 0 /\ IsList(l) /\ Starts(l) = {} /\ Paired(l)
    BY <1>5, <1>6, <1>7
  <2> HIDE DEF l
  <2>2. \A i \in 1..Len(l) : l[i].type # "message_stop"
    BY <2>1
  <2>3. IsFiniteSet(Starts(l)) /\ Cardinality(Starts(l)) = 0
    BY <2>1, FS_EmptySet
  <2>4. Ledger(l, 0)
    BY <2>1, <2>2, <2>3 DEF Ledger
  <2> QED
    BY <1>1, <2>4 DEF l
<1>9. OpenIn(s.out) = {}
  BY <1>1, <1>6 DEF OpenIn
<1>10. OpenBlocks(s) = {}
  BY <1>3, <1>4 DEF OpenBlocks
<1>11. Bounded(DOMAIN s.toolBlocks)
  BY <1>3 DEF Bounded
<1>12. BlockState(s)
  BY <1>1, <1>3, <1>4, <1>8, <1>9, <1>10, <1>11 DEF BlockState
<1>13. Numbered(s)
  BY <1>1, <1>3 DEF Numbered, Functions
<1>14. WellPaired(s)
  BY <1>12, StateIsPaired
<1> QED
  BY <1>2, <1>3, <1>12, <1>13, <1>14 DEF BlocksInv

\* What the upstream has said, after its next event.
LEMMA Becoming ==
    ASSUME KeepsOn(up), NEW q, DOMAIN q = DOMAIN up, NEW event, Receive(event, q)
    PROVE  /\ up'.calls = q.calls /\ up'.customs = q.customs /\ up'.phase = q.phase
           /\ up'.last = event /\ ~ state.fatal
<1> DEFINE w == [q EXCEPT !.events = @ + 1, !.last = event]
<1>1. up' = w /\ ~ state.fatal
  BY DEF Receive
<1>2. {"events", "last", "calls", "customs", "phase"} \subseteq DOMAIN q
  BY DEF KeepsOn
<1>3. w.calls = q.calls /\ w.customs = q.customs /\ w.phase = q.phase /\ w.last = event
  BY <1>2
<1> HIDE DEF w
<1> QED
  BY <1>1, <1>3

\* What the upstream and the translation are in while a message goes on.
LEMMA GoingOnFrom ==
    ASSUME EndsInv, BlocksInv, pair[2] = "anthropic", up.phase \in {"start", "open"}, ~ state.fatal
    PROVE  /\ pair \in Pairs /\ KeepsOn(up) /\ Live(state) /\ BlockState(state)
           /\ pair[1] = "chat" => \A i \in DOMAIN state.toolBlocks : i < Len(up.calls)
           /\ pair[1] = "responses" => Numbered(state) /\ up.customs = {}
           /\ Len(up.calls) \in Nat
           /\ \A i \in DOMAIN state.toolBlocks : i \in Nat
<1>1. pair \in Pairs /\ KeepsOn(up) /\ Live(state)
  BY DEF EndsInv, StreamInv
<1>2. /\ BlockState(state)
      /\ pair[1] = "chat" => \A i \in DOMAIN state.toolBlocks : i < Len(up.calls)
      /\ pair[1] = "responses" => Numbered(state) /\ up.customs = {}
  BY DEF BlocksInv
<1>3. Len(up.calls) \in Nat
  BY <1>1 DEF KeepsOn, IsCalls, IsList
<1>4. \A i \in DOMAIN state.toolBlocks : i \in Nat
  BY <1>2 DEF BlockState, Bounded
<1> QED
  BY <1>1, <1>2, <1>3, <1>4

\* A message that is over, or refused.
LEMMA OverKeeps ==
    ASSUME IsTold, WellPaired(state'), state'.fatal \/ up'.phase \notin {"start", "open"}
    PROVE  BlocksInv'
<1>1. pair' = pair
  BY DEF IsTold
<1> QED
  BY <1>1 DEF BlocksInv

\* A chunk of a chat upstream that goes on: a call it tells is its next.
LEMMA ChatGoesOn ==
    ASSUME EndsInv, BlocksInv, IsTold, pair = <<"chat", "anthropic">>, up.phase \in {"start", "open"},
           NEW c, NEW q, DOMAIN q = DOMAIN up, Receive([type |-> "chunk", chunk |-> c], q),
           Len(q.calls) \in Nat, Len(up.calls) <= Len(q.calls),
           OneAtMost(c.calls), c.finish = None,
           \A i \in FirstTold(c.calls) : i = Len(up.calls) /\ i < Len(q.calls)
    PROVE  BlocksInv'
<1> DEFINE event == [type |-> "chunk", chunk |-> c]
           first == FirstTold(c.calls)
<1>1. /\ up'.calls = q.calls /\ up'.phase = q.phase /\ up'.last = event /\ ~ state.fatal
  BY Becoming DEF EndsInv
<1>2. /\ pair \in Pairs /\ Live(state) /\ BlockState(state) /\ Len(up.calls) \in Nat
      /\ \A i \in DOMAIN state.toolBlocks : i \in Nat /\ i < Len(up.calls)
  BY <1>1, GoingOnFrom
<1>3. state' = Translate(state, event) /\ pair' = pair
  BY <1>1 DEF IsTold
<1>4. first \cap DOMAIN state.toolBlocks = {}
  BY <1>2
<1>5. WellPaired(Translate(state, event)) /\ Comes(state, Translate(state, event), first)
  BY <1>2, <1>4, ChatChunkKeeps
<1> HIDE DEF event, first
<1>6. WellPaired(state') /\ Comes(state, state', first)
  BY <1>3, <1>5
<1>7. ASSUME ~ state'.fatal PROVE BlockState(state') /\ \A i \in DOMAIN state'.toolBlocks : i < Len(up'.calls)
  <2>1. BlockState(state') /\ DOMAIN state'.toolBlocks \subseteq DOMAIN state.toolBlocks \cup first
    BY <1>6, <1>7 DEF Comes
  <2>2. ASSUME NEW i \in DOMAIN state'.toolBlocks PROVE i < Len(q.calls)
    <3>1. CASE i \in first
      BY <3>1 DEF first
    <3>2. CASE i \in DOMAIN state.toolBlocks
      BY <1>2, <3>2
    <3> QED
      BY <2>1, <3>1, <3>2
  <2> QED
    BY <1>1, <2>1, <2>2
<1> QED
  BY <1>3, <1>6, <1>7 DEF BlocksInv

LEMMA ChatBlocks ==
    ASSUME EndsInv, BlocksInv, IsTold, pair[2] = "anthropic", ChatText \/ ChatRefusal \/ ChatCall \/ ChatArguments
    PROVE  BlocksInv'
<1>1. pair[1] = "chat" /\ up.phase \in {"start", "open"} /\ KeepsOn(up)
  BY DEF ChatText, ChatRefusal, ChatCall, ChatArguments, Saying, EndsInv
<1>2. pair = <<"chat", "anthropic">>
  BY <1>1, PairsAssumption DEF EndsInv, Formats
<1>3. IsCalls(up.calls) /\ Len(up.calls) \in Nat /\ DOMAIN up.calls = 1..Len(up.calls)
  BY <1>1 DEF KeepsOn, IsCalls, IsList
<1>4. \A c : c.calls = <<>> => OneAtMost(c.calls) /\ FirstTold(c.calls) = {}
  BY DEF OneAtMost, FirstTold
<1>5. ASSUME NEW c, c.calls = <<>>, c.finish = None, NEW q, DOMAIN q = DOMAIN up, q.calls = up.calls,
             Receive([type |-> "chunk", chunk |-> c], q)
      PROVE  BlocksInv'
  <2>1. Len(q.calls) \in Nat /\ Len(up.calls) <= Len(q.calls)
    BY <1>3, <1>5
  <2>2. OneAtMost(c.calls) /\ \A i \in FirstTold(c.calls) : i = Len(up.calls) /\ i < Len(q.calls)
    BY <1>4, <1>5
  <2> QED
    BY <1>1, <1>2, <1>5, <2>1, <2>2, ChatGoesOn
<1>6. CASE ChatText
  <2>1. PICK text, thought :
        ChatChunk([EmptyChunk EXCEPT
                        !.content = IF text = up.text THEN <<>> ELSE Told(up.text, text),
                        !.reasoning = IF thought = up.thought THEN <<>> ELSE Told(up.thought, thought)],
                  [up EXCEPT !.phase = "open", !.text = text, !.thought = thought])
    BY <1>6 DEF ChatText
  <2> DEFINE content == IF text = up.text THEN <<>> ELSE Told(up.text, text)
             reasoning == IF thought = up.thought THEN <<>> ELSE Told(up.thought, thought)
             c == [EmptyChunk EXCEPT !.content = content, !.reasoning = reasoning]
             q == [up EXCEPT !.phase = "open", !.text = text, !.thought = thought]
  <2>2. Receive([type |-> "chunk", chunk |-> c], q)
    BY <2>1 DEF ChatChunk
  <2>3. c.calls = <<>> /\ c.finish = None
    BY DEF EmptyChunk
  <2>4. DOMAIN q = DOMAIN up /\ q.calls = up.calls
    BY <1>1 DEF KeepsOn
  <2> HIDE DEF c, q
  <2> QED
    BY <1>5, <2>2, <2>3, <2>4
<1>7. CASE ChatRefusal
  <2> DEFINE c == [EmptyChunk EXCEPT !.refusal = <<1>>]
             q == [up EXCEPT !.phase = "open", !.refusal = <<1>>]
  <2>1. Receive([type |-> "chunk", chunk |-> c], q)
    BY <1>7 DEF ChatRefusal, ChatChunk
  <2>2. c.calls = <<>> /\ c.finish = None
    BY DEF EmptyChunk
  <2>3. DOMAIN q = DOMAIN up /\ q.calls = up.calls
    BY <1>1 DEF KeepsOn
  <2> HIDE DEF c, q
  <2> QED
    BY <1>5, <2>1, <2>2, <2>3
<1>8. CASE ChatCall
  <2>1. PICK name, args :
        ChatChunk([EmptyChunk EXCEPT
                    !.calls = <<CallDelta(Len(up.calls), NewCallId, name, "function", args)>>],
                  Calling(name, args))
    BY <1>8 DEF ChatCall
  <2> DEFINE d == CallDelta(Len(up.calls), NewCallId, name, "function", args)
             c == [EmptyChunk EXCEPT !.calls = <<d>>]
             q == Calling(name, args)
             call == [id |-> NewCallId, index |-> Len(up.calls), name |-> name, args |-> args]
  <2>2. Receive([type |-> "chunk", chunk |-> c], q)
    BY <2>1 DEF ChatChunk
  <2>3. c.calls = <<d>> /\ c.finish = None /\ d.index = Len(up.calls)
    BY DEF EmptyChunk, CallDelta
  <2>4. DOMAIN q = DOMAIN up /\ q.calls = Append(up.calls, call)
    BY <1>1 DEF Calling, KeepsOn
  <2> HIDE DEF call, d, c, q
  <2>5. Len(q.calls) = Len(up.calls) + 1
    BY <1>3, <2>4, Appending DEF IsCalls
  <2>6. OneAtMost(c.calls) /\ FirstTold(c.calls) \subseteq {Len(up.calls)}
    BY <1>3, <2>3, CallsTold
  <2>7. /\ Len(q.calls) \in Nat /\ Len(up.calls) <= Len(q.calls)
        /\ \A i \in FirstTold(c.calls) : i = Len(up.calls) /\ i < Len(q.calls)
    BY <1>3, <2>5, <2>6
  <2> QED
    BY <1>1, <1>2, <2>2, <2>3, <2>4, <2>6, <2>7, ChatGoesOn
<1>9. CASE ChatArguments
  <2>1. PICK i, piece :
        /\ i \in DOMAIN up.calls
        /\ ChatChunk([EmptyChunk EXCEPT !.calls = <<CallDelta(up.calls[i].index, None, None, None, piece)>>],
                     Adding(i, piece))
    BY <1>9 DEF ChatArguments
  <2> DEFINE d == CallDelta(up.calls[i].index, None, None, None, piece)
             c == [EmptyChunk EXCEPT !.calls = <<d>>]
             q == Adding(i, piece)
  <2>2. Receive([type |-> "chunk", chunk |-> c], q)
    BY <2>1 DEF ChatChunk
  <2>3. c.calls = <<d>> /\ c.finish = None /\ d.index = up.calls[i].index /\ d.id = None
    BY DEF EmptyChunk, CallDelta
  <2>4. KeepsOn(q) /\ DOMAIN q = DOMAIN up /\ DOMAIN q.calls = DOMAIN up.calls
    <3>1. KeepsOn(q) /\ DOMAIN q = DOMAIN up
      BY <1>1, <2>1, AddingKeeps
    <3>2. DOMAIN q.calls = DOMAIN up.calls
      BY <1>1 DEF Adding, KeepsOn
    <3> QED
      BY <3>1, <3>2
  <2> HIDE DEF d, c, q
  <2>5. Len(q.calls) \in Nat /\ DOMAIN q.calls = 1..Len(q.calls)
    BY <2>4 DEF KeepsOn, IsCalls, IsList
  <2>6. Len(q.calls) = Len(up.calls)
    BY <1>3, <2>4, <2>5
  <2>7. up.calls[i].index \in Nat
    BY <1>3, <2>1 DEF IsCalls
  <2>8. OneAtMost(c.calls) /\ FirstTold(c.calls) = {}
    BY <2>3, <2>7, CallsTold
  <2>9. Len(up.calls) <= Len(q.calls) /\ \A j \in FirstTold(c.calls) : j = Len(up.calls) /\ j < Len(q.calls)
    BY <1>3, <2>6, <2>8
  <2> QED
    BY <1>1, <1>2, <2>2, <2>3, <2>4, <2>5, <2>8, <2>9, ChatGoesOn
<1> QED
  BY <1>6, <1>7, <1>8, <1>9

\* The end of a chat upstream's message, and what may follow it.
LEMMA ChatEndBlocks ==
    ASSUME EndsInv, BlocksInv, IsTold, pair[2] = "anthropic",
           ChatFinish \/ ChatUsage \/ ChatDone \/ ChatSecondChoice \/ ChatRenumbered
    PROVE  BlocksInv'
<1>0. KeepsOn(up) /\ pair \in Pairs /\ WellPaired(state)
  BY DEF EndsInv, BlocksInv
<1>1. pair = <<"chat", "anthropic">> /\ pair # <<"chat", "responses">>
  <2>1. pair[1] = "chat"
    <3>1. ChatRenumbered => pair = <<"chat", "responses">>
      BY DEF ChatRenumbered
    <3>2. ChatRenumbered => pair[1] = "chat"
      BY <3>1
    <3> QED
      BY <3>2 DEF ChatFinish, ChatUsage, ChatDone, ChatSecondChoice
  <2> QED
    BY <1>0, <2>1, PairsAssumption DEF Formats
<1>2. CASE ChatFinish
  <2>1. PICK finish, usage :
        ChatChunk([EmptyChunk EXCEPT !.finish = finish, !.usage = usage],
                  [up EXCEPT !.phase = "finished", !.usage = usage, !.reason = finish])
    BY <1>2 DEF ChatFinish
  <2> DEFINE c == [EmptyChunk EXCEPT !.finish = finish, !.usage = usage]
             q == [up EXCEPT !.phase = "finished", !.usage = usage, !.reason = finish]
             event == [type |-> "chunk", chunk |-> c]
  <2>2. Receive(event, q) /\ up.phase \in {"start", "open"}
    BY <1>2, <2>1 DEF ChatChunk, ChatFinish, Saying
  <2>3. DOMAIN q = DOMAIN up /\ q.phase = "finished"
    BY <1>0 DEF KeepsOn
  <2>4. c.calls = <<>>
    BY DEF EmptyChunk
  <2> HIDE DEF c, q
  <2>5. OneAtMost(c.calls) /\ FirstTold(c.calls) = {}
    BY <2>4 DEF OneAtMost, FirstTold
  <2>6. up'.phase = "finished" /\ up'.last = event /\ ~ state.fatal
    BY <1>0, <2>2, <2>3, Becoming
  <2>7. Live(state) /\ BlockState(state)
    BY <1>1, <2>2, <2>6, GoingOnFrom
  <2>8. WellPaired(Translate(state, event))
    BY <1>0, <1>1, <2>5, <2>7, ChatChunkKeeps
  <2> HIDE DEF event
  <2>9. WellPaired(state')
    BY <2>6, <2>8 DEF IsTold
  <2> QED
    BY <2>6, <2>9, OverKeeps
<1>3. CASE ChatUsage
  <2> DEFINE c == [EmptyChunk EXCEPT !.choices = FALSE, !.usage = TRUE]
             q == [up EXCEPT !.usage = TRUE]
             event == [type |-> "chunk", chunk |-> c]
             t == [state EXCEPT !.usage = @ \/ c.usage]
  <2>1. Receive(event, q) /\ up.phase = "finished"
    BY <1>3 DEF ChatUsage, ChatChunk
  <2>2. DOMAIN q = DOMAIN up /\ q.phase = "finished"
    BY <1>0, <2>1 DEF KeepsOn
  <2>3. c.calls = <<>> /\ c.choices = FALSE
    BY DEF EmptyChunk
  <2> HIDE DEF c, q
  <2>4. up'.phase = "finished" /\ up'.last = event /\ ~ state.fatal
    BY <1>0, <2>1, <2>2, Becoming
  <2>5. state' = ToClient(t, c)
    BY <1>1, <2>3, <2>4, ChunkIsTold DEF IsTold
  <2>6. IsState(state)
    BY <1>1, <2>1 DEF EndsInv, StreamInv, HasEnded, Closed
  <2>7. IsState(t) /\ Like(state, t) /\ t.out = state.out
    BY <2>6, UsageIsSeen
  <2> HIDE DEF t
  <2>8. state' = AnthropicSink(t, c) /\ ~ t.fatal
    BY <1>1, <2>4, <2>5, <2>7 DEF ToClient, Like
  <2>9. state' = Using(t, c)
    BY <2>3, <2>8, AnthropicCases
  <2>10. state'.out = t.out
    <3> DEFINE v == TRUE
    <3>1. Using(t, c) = t \/ Using(t, c) = [t EXCEPT !["usage"] = v]
      BY DEF Using
    <3> HIDE DEF v
    <3>2. Quietly(t, [t EXCEPT !["usage"] = v])
      BY <2>7, QuietUsage
    <3> QED
      BY <2>9, <3>1, <3>2 DEF Quietly
  <2>11. WellPaired(state')
    BY <1>0, <2>7, <2>10 DEF WellPaired
  <2> QED
    BY <2>4, <2>11, OverKeeps
<1>4. CASE ChatDone
  <2> DEFINE q == [up EXCEPT !.phase = "ended"]
             event == [type |-> "done"]
  <2>1. Receive(event, q)
    BY <1>4 DEF ChatDone
  <2>2. DOMAIN q = DOMAIN up /\ q.phase = "ended"
    BY <1>0 DEF KeepsOn
  <2> HIDE DEF q
  <2>3. up'.phase = "ended" /\ up'.last = event
    BY <1>0, <2>1, <2>2, Becoming
  <2>4. state' = state
    BY <1>1, <2>3, DoneIsTold DEF IsTold
  <2> QED
    BY <1>0, <2>3, <2>4, OverKeeps
<1>5. CASE ChatSecondChoice
  <2> DEFINE event == [type |-> "second_choice"]
  <2>1. Receive(event, up) /\ up.phase \in {"start", "open"}
    BY <1>5 DEF ChatSecondChoice, Saying
  <2>2. up'.last = event /\ ~ state.fatal
    BY <1>0, <2>1, Becoming
  <2>3. Live(state) /\ BlockState(state)
    BY <1>1, <2>1, <2>2, GoingOnFrom
  <2>4. Translate(state, event) = FoldLeft(ToClient, Rejected(state).state, Rejected(state).chunks)
    <3>1. IsRefused(event) /\ event.type # "done" /\ event.type # "error"
      BY DEF IsRefused
    <3> HIDE DEF event
    <3> QED
      BY <2>2, <3>1 DEF Translate
  <2>5. WellPaired(Translate(state, event)) /\ Translate(state, event).fatal
    BY <1>0, <2>3, <2>4, RefusalKeeps
  <2> HIDE DEF event
  <2>6. WellPaired(state') /\ state'.fatal
    BY <2>2, <2>5 DEF IsTold
  <2> QED
    BY <2>6, OverKeeps
<1> QED
  BY <1>1, <1>2, <1>3, <1>4, <1>5 DEF ChatRenumbered

\* An event of a Responses upstream that goes on.
LEMMA ResponsesGoesOn ==
    ASSUME EndsInv, BlocksInv, IsTold, pair = <<"responses", "anthropic">>, up.phase \in {"start", "open"},
           NEW event, IsFunctional(event), NEW q, DOMAIN q = DOMAIN up, Receive(event, q), q.customs = up.customs
    PROVE  BlocksInv'
<1>1. up'.customs = up.customs /\ up'.last = event /\ ~ state.fatal
  BY Becoming DEF EndsInv
<1>2. pair \in Pairs /\ Live(state) /\ BlockState(state) /\ Numbered(state) /\ up.customs = {}
  BY <1>1, GoingOnFrom
<1>3. state' = Translate(state, event) /\ pair' = pair
  BY <1>1 DEF IsTold
<1>4. WellPaired(state') /\ (state'.fatal \/ (BlockState(state') /\ Numbered(state')))
  BY <1>2, <1>3, ResponsesEventKeeps
<1> QED
  BY <1>1, <1>2, <1>3, <1>4 DEF BlocksInv

LEMMA ResponsesBlocks ==
    ASSUME EndsInv, BlocksInv, IsTold, pair[2] = "anthropic",
           \/ ResponsesCreated \/ ResponsesText \/ ResponsesRefusal \/ ResponsesRefusalDone \/ ResponsesReasoning
           \/ ResponsesCall \/ ResponsesArguments \/ ResponsesInputDone \/ ResponsesAudio
    PROVE  BlocksInv'
<1>1. pair[1] = "responses" /\ up.phase \in {"start", "open"} /\ KeepsOn(up) /\ pair \in Pairs
  BY DEF ResponsesCreated, ResponsesText, ResponsesRefusal, ResponsesRefusalDone, ResponsesReasoning,
         ResponsesCall, ResponsesArguments, ResponsesInputDone, ResponsesAudio, EndsInv
<1>2. pair = <<"responses", "anthropic">>
  BY <1>1, PairsAssumption DEF Formats
<1>3. ASSUME NEW event, IsFunctional(event), NEW q, DOMAIN q = DOMAIN up, q.customs = up.customs, Receive(event, q)
      PROVE  BlocksInv'
  BY <1>1, <1>2, <1>3, ResponsesGoesOn
<1>4. ~ state.fatal => up.customs = {}
  BY <1>1, <1>2 DEF BlocksInv
<1>5. CASE ResponsesCreated
  <2> DEFINE event == [type |-> "created"]
             q == [up EXCEPT !.phase = "open"]
  <2>1. Receive(event, q) /\ IsFunctional(event)
    BY <1>5 DEF ResponsesCreated, IsFunctional
  <2>2. DOMAIN q = DOMAIN up /\ q.customs = up.customs
    BY <1>1 DEF KeepsOn
  <2> HIDE DEF event, q
  <2> QED
    BY <1>3, <2>1, <2>2
<1>6. CASE ResponsesText
  <2> DEFINE event == [type |-> "text_delta", text |-> <<Letter(up.text)>>]
             q == [up EXCEPT !.text = Append(@, Letter(@))]
  <2>1. Receive(event, q) /\ IsFunctional(event)
    BY <1>6 DEF ResponsesText, IsFunctional
  <2>2. DOMAIN q = DOMAIN up /\ q.customs = up.customs
    BY <1>1 DEF KeepsOn
  <2> HIDE DEF event, q
  <2> QED
    BY <1>3, <2>1, <2>2
<1>7. CASE ResponsesRefusal
  <2> DEFINE event == [type |-> "refusal_delta", text |-> <<Letter(up.refusal)>>]
             q == [up EXCEPT !.refusal = Append(@, Letter(@))]
  <2>1. Receive(event, q) /\ IsFunctional(event)
    BY <1>7 DEF ResponsesRefusal, IsFunctional
  <2>2. DOMAIN q = DOMAIN up /\ q.customs = up.customs
    BY <1>1 DEF KeepsOn
  <2> HIDE DEF event, q
  <2> QED
    BY <1>3, <2>1, <2>2
<1>8. CASE ResponsesRefusalDone
  <2> DEFINE event == [type |-> "refusal_done", text |-> up.refusal]
  <2>1. Receive(event, up) /\ IsFunctional(event)
    BY <1>8 DEF ResponsesRefusalDone, IsFunctional
  <2> HIDE DEF event
  <2> QED
    BY <1>3, <2>1
<1>9. CASE ResponsesReasoning
  <2> DEFINE event == [type |-> "reasoning_delta", text |-> <<Letter(up.thought)>>]
             q == [up EXCEPT !.thought = Append(@, Letter(@))]
  <2>1. Receive(event, q) /\ IsFunctional(event)
    BY <1>9 DEF ResponsesReasoning, IsFunctional
  <2>2. DOMAIN q = DOMAIN up /\ q.customs = up.customs
    BY <1>1 DEF KeepsOn
  <2> HIDE DEF event, q
  <2> QED
    BY <1>3, <2>1, <2>2
<1>10. CASE ResponsesCall
  <2>1. PICK name, kind :
        /\ kind \in {"function", "custom"} /\ (kind = "custom" => pair[2] \in CustomClients)
        /\ Receive([type |-> "call_added", kind |-> kind, id |-> NewCallId, name |-> name, args |-> <<>>,
                    item |-> NewCallId, output |-> NewCallId],
                   [Calling(name, IF kind = "custom" THEN <<"{">> ELSE <<>>) EXCEPT
                       !.blocks = @ + 1, !.customs = IF kind = "custom" THEN @ \cup {NewCallId} ELSE @])
    BY <1>10 DEF ResponsesCall
  <2> DEFINE event == [type |-> "call_added", kind |-> kind, id |-> NewCallId, name |-> name, args |-> <<>>,
                       item |-> NewCallId, output |-> NewCallId]
             args == IF kind = "custom" THEN <<"{">> ELSE <<>>
             calling == Calling(name, args)
             q == [calling EXCEPT !.blocks = @ + 1, !.customs = IF kind = "custom" THEN @ \cup {NewCallId} ELSE @]
  <2>2. kind = "function"
    BY <2>1, CustomClientsAssumption
  <2>3. Receive(event, q) /\ IsFunctional(event)
    BY <2>1, <2>2 DEF IsFunctional
  <2>4. calling.customs = up.customs /\ DOMAIN calling = DOMAIN up
    BY <1>1 DEF Calling, KeepsOn
  <2> HIDE DEF event, calling
  <2>5. DOMAIN q = DOMAIN up /\ q.customs = up.customs
    BY <1>1, <2>2, <2>4 DEF KeepsOn
  <2> HIDE DEF q
  <2> QED
    BY <1>3, <2>3, <2>5
<1>11. CASE ResponsesArguments
  <2>1. ~ state.fatal
    BY <1>11 DEF ResponsesArguments, Receive
  <2>2. PICK i, piece, how :
        i \in DOMAIN up.calls /\ Receive(Naming("arguments_delta", i, how, piece), Adding(i, piece))
    BY <1>4, <1>11, <2>1 DEF ResponsesArguments
  <2> DEFINE event == Naming("arguments_delta", i, how, piece)
             q == Adding(i, piece)
  <2>3. IsFunctional(event)
    BY DEF Naming, IsFunctional
  <2>4. DOMAIN q = DOMAIN up /\ q.customs = up.customs
    BY <1>1 DEF Adding, KeepsOn
  <2>5. Receive(event, q)
    BY <2>2
  <2> HIDE DEF event, q
  <2> QED
    BY <1>3, <2>3, <2>4, <2>5
<1>12. CASE ResponsesInputDone
  <2>1. PICK i : i \in up.customs /\ ~ state.fatal
    BY <1>12 DEF ResponsesInputDone, IsOpen, Receive
  <2> QED
    BY <1>4, <2>1
<1>13. CASE ResponsesAudio
  <2> DEFINE event == [type |-> "audio"]
  <2>1. Receive(event, up) /\ IsFunctional(event)
    BY <1>13 DEF ResponsesAudio, IsFunctional
  <2> HIDE DEF event
  <2> QED
    BY <1>3, <2>1
<1> QED
  BY <1>5, <1>6, <1>7, <1>8, <1>9, <1>10, <1>11, <1>12, <1>13

LEMMA TerminalBlocks ==
    ASSUME EndsInv, BlocksInv, IsTold, pair[2] = "anthropic", ResponsesTerminal
    PROVE  BlocksInv'
<1> DEFINE calls == [i \in DOMAIN up.calls |-> IF IsOpen(i) THEN Ended(i, InputOf(i)) ELSE up.calls[i]]
           output == [i \in DOMAIN calls |->
                        [id |-> i, kind |-> IF i \in up.customs THEN "custom" ELSE "function",
                         args |-> SelectSeq(calls[i].args, LAMBDA c : c = "x")]]
<1>1. PICK type \in Terminals :
        Receive([type |-> type, usage |-> TRUE,
                 reason |-> IF type = "incomplete" THEN "length" ELSE "error", output |-> output],
                [up EXCEPT !.phase = "ended", !.calls = calls, !.usage = TRUE, !.reason = type])
  BY DEF ResponsesTerminal
<1> DEFINE event == [type |-> type, usage |-> TRUE,
                     reason |-> IF type = "incomplete" THEN "length" ELSE "error", output |-> output]
           q == [up EXCEPT !.phase = "ended", !.calls = calls, !.usage = TRUE, !.reason = type]
<1>2. Receive(event, q) /\ pair[1] = "responses" /\ up.phase = "open" /\ KeepsOn(up) /\ pair \in Pairs
  BY <1>1 DEF ResponsesTerminal, EndsInv
<1>3. pair = <<"responses", "anthropic">>
  BY <1>2, PairsAssumption DEF Formats
<1>4. Len(up.calls) \in Nat /\ DOMAIN up.calls = 1..Len(up.calls)
  BY <1>2 DEF KeepsOn, IsCalls, IsList
<1>5. IsList(output)
  <2>1. DOMAIN output = 1..Len(up.calls) /\ output = [i \in DOMAIN output |-> output[i]]
    BY <1>4
  <2> HIDE DEF output
  <2> DEFINE T == {output[i] : i \in DOMAIN output}
  <2>2. output \in [1..Len(up.calls) -> T]
    BY <2>1
  <2> HIDE DEF T
  <2>3. output \in Seq(T)
    BY <1>4, <2>2
  <2> QED
    BY <2>3, SequencesAreLists
<1>6. up.customs = {} => \A i \in DOMAIN output : output[i].kind # "custom"
  OBVIOUS
<1> HIDE DEF calls, output
<1>7. DOMAIN q = DOMAIN up /\ q.phase = "ended"
  BY <1>2 DEF KeepsOn
<1>8. event.type \in Terminals /\ event.output = output
  BY <1>1
<1> HIDE DEF q, event
<1>9. up'.phase = "ended" /\ up'.last = event /\ ~ state.fatal
  BY <1>2, <1>7, Becoming
<1>10. Live(state) /\ BlockState(state) /\ up.customs = {}
  BY <1>2, <1>3, <1>9, GoingOnFrom
<1>11. WellPaired(Translate(state, event))
  BY <1>3, <1>5, <1>6, <1>8, <1>10, TerminalKeeps
<1>12. WellPaired(state')
  BY <1>9, <1>11 DEF IsTold
<1> QED
  BY <1>9, <1>12, OverKeeps

LEMMA BlocksStep ==
    ASSUME EndsInv, BlocksInv, Next
    PROVE  BlocksInv'
<1>1. Upstream /\ IsTold
  BY DEF Next, IsTold
<1>2. CASE pair[2] # "anthropic"
  <2>1. pair' = pair
    BY <1>1 DEF IsTold
  <2> QED
    BY <1>2, <2>1 DEF BlocksInv
<1>3. CASE pair[2] = "anthropic"
  <2>1. pair[1] # "anthropic"
    BY <1>3, PairsAssumption DEF EndsInv, Formats
  <2>2. CASE ChatText \/ ChatRefusal \/ ChatCall \/ ChatArguments
    BY <1>1, <1>3, <2>2, ChatBlocks
  <2>3. CASE ChatFinish \/ ChatUsage \/ ChatDone \/ ChatSecondChoice \/ ChatRenumbered
    BY <1>1, <1>3, <2>3, ChatEndBlocks
  <2>4. CASE \/ ResponsesCreated \/ ResponsesText \/ ResponsesRefusal \/ ResponsesRefusalDone \/ ResponsesReasoning
             \/ ResponsesCall \/ ResponsesArguments \/ ResponsesInputDone \/ ResponsesAudio
    BY <1>1, <1>3, <2>4, ResponsesBlocks
  <2>5. CASE ResponsesTerminal
    BY <1>1, <1>3, <2>5, TerminalBlocks
  <2>6. ~ \/ AnthropicStart \/ AnthropicBlock \/ AnthropicCall \/ AnthropicText \/ AnthropicThinking
          \/ AnthropicArguments \/ AnthropicSeededArguments \/ AnthropicBlockStop \/ AnthropicDelta
          \/ AnthropicStop \/ AnthropicError
    BY <2>1 DEF AnthropicStart, AnthropicBlock, AnthropicCall, AnthropicText, AnthropicThinking,
                AnthropicArguments, AnthropicSeededArguments, AnthropicBlockStop, AnthropicDelta,
                AnthropicStop, AnthropicError
  <2> QED
    BY <1>1, <2>2, <2>3, <2>4, <2>5, <2>6 DEF Upstream
<1> QED
  BY <1>2, <1>3

\* An Anthropic client's content blocks are numbered in order, a delta belongs to a block of
\* its kind that was started and not stopped, and a message stops when each of its blocks has
\* stopped once, however reasoning, text and the deltas of any number of calls alternate
\* (openai_chunk_to_claude_sse, stop_text_block_claude, ensure_text_block_claude).
THEOREM BlocksPaired == Spec => [](pair[2] = "anthropic" => BlocksArePaired)
<1> DEFINE Good == pair[2] = "anthropic" => BlocksArePaired
           Inv == EndsInv /\ BlocksInv
<1>1. Init => Inv
  BY StreamsStart, BlocksStart
<1>2. Inv /\ [Next]_vars => Inv'
  <2>1. ASSUME BlocksInv, UNCHANGED vars PROVE BlocksInv'
    BY <2>1 DEF vars, BlocksInv
  <2> QED
    BY <2>1, EndsStay, BlocksStep, UpstreamKeeps
<1>3. Inv => Good
  BY PairedIsEnough DEF BlocksInv, WellPaired
<1> HIDE DEF Good, Inv
<1> QED
  BY <1>1, <1>2, <1>3, PTL DEF Spec, Good
=============================================================================
