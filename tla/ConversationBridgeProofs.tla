---------------------- MODULE ConversationBridgeProofs ----------------------
(***************************************************************************)
(* The scan of a transcript and the check of a continuation, proved against *)
(* their references for transcripts of every length over every set of call *)
(* ids: the scan is a recursive function, and what it computes is proved   *)
(* by induction on the length of the prefix it has read. Then the store's  *)
(* accounting, the life of its entries, the context of a replay and the    *)
(* tool calls it leaves open, for every set of turns, inputs, answers and  *)
(* limits of ConversationBridge.                                           *)
(***************************************************************************)
EXTENDS ConversationBridge, FiniteSetTheorems, WellFoundedInduction, TLAPS

\* Induction on the natural numbers, for the members of a set.
LEMMA SetInduction ==
    ASSUME NEW S, 0 \in S, \A n \in Nat : n \in S => n + 1 \in S
    PROVE  \A n \in Nat : n \in S
<1> DEFINE C == {n \in Nat : n \notin S}
<1>1. SUFFICES ASSUME C # {} PROVE FALSE
  OBVIOUS
<1>2. PICK m \in C : \A k \in C : ~ (<<k, m>> \in OpToRel(<, Nat))
  BY <1>1, WFMin, NatLessThanWellFounded, Zenon
<1>3. m \in Nat /\ m # 0 /\ m \notin S
  OBVIOUS
<1>4. m - 1 \in Nat /\ <<m - 1, m>> \in OpToRel(<, Nat)
  BY <1>3 DEF OpToRel
<1>5. m - 1 \in S
  BY <1>2, <1>4
<1>6. m = (m - 1) + 1
  BY <1>3
<1> QED
  BY <1>3, <1>4, <1>5, <1>6

\* A nonempty set of positions has a last one.
LEMMA LastPosition ==
    ASSUME NEW n \in Nat, NEW S \in SUBSET (1..n), S # {}
    PROVE  \E i \in S : \A k \in S : k <= i
<1> DEFINE C == {m \in Nat : \E i \in S : m = n - i}
<1>1. C # {} /\ C \subseteq Nat
  <2>1. PICK i \in S : TRUE
    OBVIOUS
  <2>2. n - i \in Nat
    OBVIOUS
  <2> QED
    BY <2>1, <2>2
<1>2. PICK m \in C : \A k \in C : ~ (<<k, m>> \in OpToRel(<, Nat))
  <2> HIDE DEF C
  <2> QED
    BY <1>1, WFMin, NatLessThanWellFounded, Zenon
<1>3. PICK i \in S : m = n - i
  BY <1>2
<1>4. ASSUME NEW k \in S PROVE k <= i
  <2>1. n - k \in C
    OBVIOUS
  <2>2. ~ (n - k < m)
    BY <1>2, <2>1 DEF OpToRel
  <2> QED
    BY <1>3, <2>2
<1> QED
  BY <1>4

-----------------------------------------------------------------------------
(* One item *)

Keys(ids) == ToolKinds \X ids

LEMMA ItemShape ==
    ASSUME NEW ids, NEW item \in Items(ids)
    PROVE  /\ item.type \in {"message", "call", "output"}
           /\ item.type = "message" <=> item = Message
           /\ item.type # "message" => Key(item) \in Keys(ids)
           /\ IsOutput(item) <=> item.type = "output"
  BY DEF Items, Message, Call, Output, Key, Keys, IsOutput

LEMMA ScanItemCases ==
    ASSUME NEW ids, NEW item \in Items(ids), NEW pending
    PROVE  /\ pending = Malformed => ScanItem(pending, item) = Malformed
           /\ pending # Malformed /\ item.type = "message" => ScanItem(pending, item) = pending
           /\ pending # Malformed /\ item.type = "call" =>
                ScanItem(pending, item) =
                    IF Key(item) \in pending THEN Malformed ELSE pending \cup {Key(item)}
           /\ pending # Malformed /\ item.type = "output" =>
                ScanItem(pending, item) =
                    IF Key(item) \in pending THEN pending \ {Key(item)} ELSE Malformed
<1>1. CASE pending = Malformed
  <2>1. ScanItem(pending, item) = Malformed
    BY <1>1, Zenon DEF ScanItem
  <2> QED
    BY <1>1, <2>1
<1>2. CASE pending # Malformed /\ item.type = "message"
  <2>1. ScanItem(pending, item) = pending
    BY <1>2 DEF ScanItem
  <2> QED
    BY <1>2, <2>1
<1>3. CASE pending # Malformed /\ item.type = "call"
  <2>1. ScanItem(pending, item) = IF Key(item) \in pending THEN Malformed ELSE pending \cup {Key(item)}
    BY <1>3 DEF ScanItem
  <2> QED
    BY <1>3, <2>1
<1>4. CASE pending # Malformed /\ item.type = "output"
  <2>1. ScanItem(pending, item) = IF Key(item) \in pending THEN pending \ {Key(item)} ELSE Malformed
    BY <1>4 DEF ScanItem
  <2> QED
    BY <1>4, <2>1
<1> QED
  BY <1>1, <1>2, <1>3, <1>4, ItemShape

LEMMA KeysAreNotMalformed ==
    ASSUME NEW ids, NEW pending \in SUBSET Keys(ids)
    PROVE  pending # Malformed
<1>1. \A q \in Keys(ids) : Len(q) = 2
  BY DEF Keys
<1>2. Len(<<"malformed">>) = 1
  OBVIOUS
<1>3. <<"malformed">> \notin Keys(ids)
  BY <1>1, <1>2
<1> QED
  BY <1>3, Zenon DEF Malformed

-----------------------------------------------------------------------------
(* The scan *)

\* The scan of the first n items, as the function PendingCalls defines.
Scans(f, items, n) ==
    f = [i \in 0..n |-> IF i = 0 THEN {} ELSE ScanItem(f[i - 1], items[i])]

\* The recursive definition defines a function.
LEMMA ScanExists == ASSUME NEW items, NEW n \in Nat PROVE \E f : Scans(f, items, n)
<1> DEFINE S == {m \in Nat : \E f : Scans(f, items, m)}
<1>1. 0 \in S
  <2>1. Scans([i \in 0..0 |-> {}], items, 0)
    BY DEF Scans
  <2> QED
    BY <2>1
<1>2. ASSUME NEW m \in Nat, m \in S PROVE m + 1 \in S
  <2>1. PICK f : Scans(f, items, m)
    BY <1>2
  <2> DEFINE g == [i \in 0..m + 1 |-> IF i = m + 1 THEN ScanItem(f[m], items[m + 1]) ELSE f[i]]
  <2>2. Scans(g, items, m + 1)
    <3>1. ASSUME NEW i \in 0..m + 1
          PROVE  g[i] = IF i = 0 THEN {} ELSE ScanItem(g[i - 1], items[i])
      <4>1. CASE i = m + 1
        <5>1. g[i - 1] = f[m] /\ i # 0
          BY <4>1
        <5> QED
          BY <4>1, <5>1
      <4>2. CASE i # m + 1 /\ i # 0
        <5>1. i \in 0..m /\ i - 1 \in 0..m /\ i - 1 # m + 1 /\ i - 1 \in 0..m + 1
          BY <4>2
        <5>2. f[i] = ScanItem(f[i - 1], items[i])
          BY <2>1, <4>2, <5>1 DEF Scans
        <5>3. g[i] = f[i] /\ g[i - 1] = f[i - 1]
          BY <4>2, <5>1
        <5> QED
          BY <4>2, <5>2, <5>3
      <4>3. CASE i = 0
        <5>1. f[0] = {}
          BY <2>1 DEF Scans
        <5>2. g[0] = f[0]
          OBVIOUS
        <5> QED
          BY <4>3, <5>1, <5>2
      <4> QED
        BY <4>1, <4>2, <4>3
    <3>2. g = [i \in 0..m + 1 |-> g[i]]
      OBVIOUS
    <3> HIDE DEF g
    <3> QED
      BY <3>1, <3>2, Zenon DEF Scans
  <2> QED
    BY <2>2
<1>3. \A m \in Nat : m \in S
  <2> HIDE DEF S
  <2> QED
    BY <1>1, <1>2, SetInduction
<1> QED
  BY <1>3

LEMMA ScanUnfolds ==
    ASSUME NEW items, Len(items) \in Nat
    PROVE  \E f : Scans(f, items, Len(items)) /\ PendingCalls(items) = f[Len(items)]
<1> DEFINE scan == CHOOSE f : f = [i \in 0..Len(items) |->
                                        IF i = 0 THEN {} ELSE ScanItem(f[i - 1], items[i])]
<1>1. PendingCalls(items) = scan[Len(items)]
  BY DEF PendingCalls
<1>2. Scans(scan, items, Len(items))
  BY ScanExists DEF Scans
<1> QED
  BY <1>1, <1>2

\* Key q is open after the first k items: its last item is a call.
OpenAt(items, k, q) ==
    \E i \in 1..k :
        /\ items[i].type = "call" /\ Key(items[i]) = q
        /\ \A j \in i + 1..k : items[j].type # "message" => Key(items[j]) # q

\* Item j continues what the items before it leave open.
FitsAt(items, j) ==
    /\ items[j].type = "output" => OpenAt(items, j - 1, Key(items[j]))
    /\ items[j].type = "call" => ~ OpenAt(items, j - 1, Key(items[j]))

\* The reference's "last item of the key before" is what makes a key open.
LEMMA WellFormedFits ==
    ASSUME NEW ids, NEW items \in Seq(Items(ids))
    PROVE  WellFormed(items) <=> \A j \in 1..Len(items) : FitsAt(items, j)
<1> DEFINE same(j) == {i \in 1..j - 1 : items[i].type # "message" /\ Key(items[i]) = Key(items[j])}
           last(j) == CHOOSE i \in same(j) : \A k \in same(j) : k <= i
           good(j) == CASE items[j].type = "message" -> TRUE
                        [] items[j].type = "output" -> same(j) # {} /\ items[last(j)].type = "call"
                        [] items[j].type = "call" -> same(j) = {} \/ IsOutput(items[last(j)])
<1>1. ASSUME NEW j \in 1..Len(items) PROVE good(j) <=> FitsAt(items, j)
  <2>1. j \in Nat /\ j - 1 \in Nat /\ Len(items) \in Nat
    OBVIOUS
  <2>2. \A i \in 1..Len(items) : items[i] \in Items(ids)
    OBVIOUS
  <2>3. items[j].type \in {"message", "call", "output"}
    BY <2>2, ItemShape
  <2>4. CASE same(j) = {}
    <3>1. ~ OpenAt(items, j - 1, Key(items[j]))
      BY <2>4 DEF OpenAt
    <3>2. CASE items[j].type = "message"
      BY <3>2 DEF FitsAt
    <3>3. CASE items[j].type = "output"
      BY <2>4, <3>1, <3>3 DEF FitsAt
    <3>4. CASE items[j].type = "call"
      BY <2>4, <3>1, <3>4 DEF FitsAt
    <3> QED
      BY <2>3, <3>2, <3>3, <3>4
  <2>5. CASE same(j) # {}
    <3>1. last(j) \in same(j) /\ \A k \in same(j) : k <= last(j)
      <4>1. same(j) \in SUBSET (1..j - 1)
        OBVIOUS
      <4> HIDE DEF same
      <4>2. \E i \in same(j) : \A k \in same(j) : k <= i
        BY <2>1, <2>5, <4>1, LastPosition
      <4> QED
        BY <4>2, Zenon
    <3> DEFINE l == last(j)
    <3>2. /\ l \in 1..j - 1 /\ items[l].type # "message" /\ Key(items[l]) = Key(items[j])
          /\ \A k \in 1..j - 1 : items[k].type # "message" /\ Key(items[k]) = Key(items[j]) => k <= l
      BY <3>1
    <3> HIDE DEF last
    <3>3. items[l].type \in {"call", "output"} /\ (IsOutput(items[l]) <=> items[l].type = "output")
      <4>1. items[l] \in Items(ids)
        BY <2>1, <2>2, <3>2
      <4> QED
        BY <3>2, <4>1, ItemShape
    <3>4. OpenAt(items, j - 1, Key(items[j])) <=> items[l].type = "call"
      <4>1. ASSUME items[l].type = "call" PROVE OpenAt(items, j - 1, Key(items[j]))
        BY <2>1, <3>2, <4>1 DEF OpenAt
      <4>2. ASSUME OpenAt(items, j - 1, Key(items[j])) PROVE items[l].type = "call"
        <5>1. PICK i \in 1..j - 1 :
                /\ items[i].type = "call" /\ Key(items[i]) = Key(items[j])
                /\ \A k \in i + 1..j - 1 : items[k].type # "message" => Key(items[k]) # Key(items[j])
          BY <4>2 DEF OpenAt
        <5>2. i <= l /\ l <= i
          BY <2>1, <3>2, <5>1
        <5>3. i = l
          BY <2>1, <3>2, <5>1, <5>2
        <5> QED
          BY <5>1, <5>3
      <4> QED
        BY <4>1, <4>2
    <3>5. CASE items[j].type = "message"
      BY <3>5 DEF FitsAt
    <3>6. CASE items[j].type = "output"
      BY <2>5, <3>3, <3>4, <3>6 DEF FitsAt
    <3>7. CASE items[j].type = "call"
      BY <2>5, <3>3, <3>4, <3>7 DEF FitsAt
    <3> QED
      BY <2>3, <3>5, <3>6, <3>7
  <2> QED
    BY <2>4, <2>5
<1>2. WellFormed(items) <=> \A j \in 1..Len(items) : good(j)
  <2>1. DOMAIN items = 1..Len(items)
    OBVIOUS
  <2> QED
    BY <2>1, Zenon DEF WellFormed
<1> QED
  BY <1>1, <1>2, Zenon

\* One item of the scan keeps the set of open keys.
LEMMA OpenStep ==
    ASSUME NEW ids, NEW items \in Seq(Items(ids)), NEW k \in 0..Len(items) - 1, NEW q
    PROVE  /\ items[k + 1].type = "message" \/ Key(items[k + 1]) # q =>
                (OpenAt(items, k + 1, q) <=> OpenAt(items, k, q))
           /\ items[k + 1].type = "call" /\ Key(items[k + 1]) = q => OpenAt(items, k + 1, q)
           /\ items[k + 1].type = "output" /\ Key(items[k + 1]) = q => ~ OpenAt(items, k + 1, q)
<1>1. k \in Nat /\ Len(items) \in Nat
  OBVIOUS
<1>2. ASSUME items[k + 1].type = "message" \/ Key(items[k + 1]) # q, OpenAt(items, k + 1, q)
      PROVE  OpenAt(items, k, q)
  <2>1. PICK i \in 1..k + 1 :
            /\ items[i].type = "call" /\ Key(items[i]) = q
            /\ \A j \in i + 1..k + 1 : items[j].type # "message" => Key(items[j]) # q
    BY <1>2 DEF OpenAt
  <2>2. i # k + 1
    BY <1>2, <2>1
  <2>3. i \in 1..k /\ \A j \in i + 1..k : j \in i + 1..k + 1
    BY <1>1, <2>2
  <2> QED
    BY <2>1, <2>3 DEF OpenAt
<1>3. ASSUME items[k + 1].type = "message" \/ Key(items[k + 1]) # q, OpenAt(items, k, q)
      PROVE  OpenAt(items, k + 1, q)
  <2>1. PICK i \in 1..k :
            /\ items[i].type = "call" /\ Key(items[i]) = q
            /\ \A j \in i + 1..k : items[j].type # "message" => Key(items[j]) # q
    BY <1>3 DEF OpenAt
  <2>2. i \in 1..k + 1 /\ \A j \in i + 1..k + 1 : j = k + 1 \/ j \in i + 1..k
    BY <1>1
  <2> QED
    BY <1>3, <2>1, <2>2 DEF OpenAt
<1>4. ASSUME items[k + 1].type = "call" /\ Key(items[k + 1]) = q PROVE OpenAt(items, k + 1, q)
  <2>1. k + 1 \in 1..k + 1 /\ \A j \in k + 1 + 1..k + 1 : FALSE
    BY <1>1
  <2> QED
    BY <1>4, <2>1 DEF OpenAt
<1>5. ASSUME items[k + 1].type = "output" /\ Key(items[k + 1]) = q PROVE ~ OpenAt(items, k + 1, q)
  <2>1. ASSUME NEW i \in 1..k + 1, items[i].type = "call" PROVE k + 1 \in i + 1..k + 1
    BY <1>1, <1>5, <2>1
  <2> QED
    BY <1>5, <2>1 DEF OpenAt
<1> QED
  BY <1>2, <1>3, <1>4, <1>5

\* What the scan of the first k items has found: a misfit, or the open keys.
ScannedTo(f, ids, items, k) ==
    IF \A j \in 1..k : FitsAt(items, j)
    THEN f[k] \in SUBSET Keys(ids) /\ \A q : q \in f[k] <=> OpenAt(items, k, q)
    ELSE f[k] = Malformed

LEMMA ScanStep ==
    ASSUME NEW ids, NEW items \in Seq(Items(ids)), NEW f, Scans(f, items, Len(items)),
           NEW k \in 0..Len(items) - 1, ScannedTo(f, ids, items, k)
    PROVE  ScannedTo(f, ids, items, k + 1)
<1> DEFINE item == items[k + 1]
<1>1. /\ k \in Nat /\ k + 1 \in 1..Len(items) /\ k + 1 \in 0..Len(items) /\ k + 1 # 0
      /\ (k + 1) - 1 = k /\ \A j \in 1..k + 1 : j \in 1..k \/ j = k + 1
      /\ 1..k \subseteq 1..k + 1
  OBVIOUS
<1>2. item \in Items(ids)
  BY <1>1
<1>3. f[k + 1] = ScanItem(f[k], item)
  BY <1>1 DEF Scans
<1>4. /\ item.type \in {"message", "call", "output"}
      /\ item.type # "message" => Key(item) \in Keys(ids)
  BY <1>2, ItemShape
<1>5. CASE ~ \A j \in 1..k : FitsAt(items, j)
  <2>1. f[k] = Malformed
    BY <1>5 DEF ScannedTo
  <2>2. f[k + 1] = Malformed
    BY <1>2, <1>3, <2>1, ScanItemCases
  <2>3. ~ \A j \in 1..k + 1 : FitsAt(items, j)
    BY <1>1, <1>5
  <2> QED
    BY <2>2, <2>3 DEF ScannedTo
<1>6. CASE \A j \in 1..k : FitsAt(items, j)
  <2>1. f[k] \in SUBSET Keys(ids) /\ \A q : q \in f[k] <=> OpenAt(items, k, q)
    BY <1>6 DEF ScannedTo
  <2>2. f[k] # Malformed
    BY <2>1, KeysAreNotMalformed
  <2>3. (\A j \in 1..k + 1 : FitsAt(items, j)) <=> FitsAt(items, k + 1)
    BY <1>1, <1>6
  <2>4. FitsAt(items, k + 1) <=> /\ item.type = "output" => Key(item) \in f[k]
                                 /\ item.type = "call" => Key(item) \notin f[k]
    <3>1. OpenAt(items, (k + 1) - 1, Key(item)) <=> Key(item) \in f[k]
      <4>1. OpenAt(items, (k + 1) - 1, Key(item)) <=> OpenAt(items, k, Key(item))
        BY <1>1
      <4> QED
        BY <2>1, <4>1
    <3> QED
      BY <3>1, Zenon DEF FitsAt
  <2>5. CASE item.type = "message"
    <3>1. f[k + 1] = f[k] /\ FitsAt(items, k + 1)
      BY <1>2, <1>3, <2>2, <2>4, <2>5, ScanItemCases
    <3>2. \A q : OpenAt(items, k + 1, q) <=> OpenAt(items, k, q)
      BY <2>5, OpenStep
    <3> QED
      BY <2>1, <2>3, <3>1, <3>2 DEF ScannedTo
  <2>6. CASE item.type = "call"
    <3>1. f[k + 1] = IF Key(item) \in f[k] THEN Malformed ELSE f[k] \cup {Key(item)}
      BY <1>2, <1>3, <2>2, <2>6, ScanItemCases
    <3>2. \A q : OpenAt(items, k + 1, q) <=> OpenAt(items, k, q) \/ q = Key(item)
      BY <2>6, OpenStep
    <3>3. CASE Key(item) \in f[k]
      <4>1. f[k + 1] = Malformed
        BY <3>1, <3>3
      <4>2. ~ \A j \in 1..k + 1 : FitsAt(items, j)
        BY <2>3, <2>4, <2>6, <3>3
      <4> QED
        BY <4>1, <4>2 DEF ScannedTo
    <3>4. CASE Key(item) \notin f[k]
      <4>1. f[k + 1] \in SUBSET Keys(ids) /\ \A q : q \in f[k + 1] <=> OpenAt(items, k + 1, q)
        BY <1>4, <2>1, <2>6, <3>1, <3>2, <3>4
      <4>2. \A j \in 1..k + 1 : FitsAt(items, j)
        BY <2>3, <2>4, <2>6, <3>4
      <4> QED
        BY <4>1, <4>2 DEF ScannedTo
    <3> QED
      BY <3>3, <3>4
  <2>7. CASE item.type = "output"
    <3>1. f[k + 1] = IF Key(item) \in f[k] THEN f[k] \ {Key(item)} ELSE Malformed
      BY <1>2, <1>3, <2>2, <2>7, ScanItemCases
    <3>2. \A q : OpenAt(items, k + 1, q) <=> OpenAt(items, k, q) /\ q # Key(item)
      BY <2>7, OpenStep
    <3>3. CASE Key(item) \notin f[k]
      <4>1. f[k + 1] = Malformed
        BY <3>1, <3>3
      <4>2. ~ \A j \in 1..k + 1 : FitsAt(items, j)
        BY <2>3, <2>4, <2>7, <3>3
      <4> QED
        BY <4>1, <4>2 DEF ScannedTo
    <3>4. CASE Key(item) \in f[k]
      <4>1. f[k + 1] \in SUBSET Keys(ids) /\ \A q : q \in f[k + 1] <=> OpenAt(items, k + 1, q)
        BY <1>4, <2>1, <2>7, <3>1, <3>2, <3>4
      <4>2. \A j \in 1..k + 1 : FitsAt(items, j)
        BY <2>3, <2>4, <2>7, <3>4
      <4> QED
        BY <4>1, <4>2 DEF ScannedTo
    <3> QED
      BY <3>3, <3>4
  <2> QED
    BY <1>4, <2>5, <2>6, <2>7
<1> QED
  BY <1>5, <1>6

\* The calls no later output answers are finitely many keys.
LEMMA UnansweredAreKeys ==
    ASSUME NEW ids, NEW items \in Seq(Items(ids))
    PROVE  /\ Unanswered(items) \in SUBSET Keys(ids)
           /\ IsFiniteSet(Unanswered(items)) /\ Cardinality(Unanswered(items)) \in Nat
<1> DEFINE D == {k \in DOMAIN items :
                    /\ items[k].type = "call"
                    /\ ~ \E j \in k + 1..Len(items) : IsOutput(items[j]) /\ Key(items[j]) = Key(items[k])}
<1>1. Unanswered(items) = {Key(items[i]) : i \in D}
  BY Zenon DEF Unanswered
<1>2. \A i \in D : Key(items[i]) \in Keys(ids)
  <2> SUFFICES ASSUME NEW i \in D PROVE Key(items[i]) \in Keys(ids)
    OBVIOUS
  <2>1. items[i] \in Items(ids) /\ items[i].type # "message"
    OBVIOUS
  <2> QED
    BY <2>1, ItemShape
<1>3. IsFiniteSet(D)
  <2>1. IsFiniteSet(1..Len(items))
    BY FS_Interval
  <2>2. D \in SUBSET (1..Len(items))
    OBVIOUS
  <2> HIDE DEF D
  <2> QED
    BY <2>1, <2>2, FS_Subset
<1>4. IsFiniteSet({Key(items[i]) : i \in D})
  <2> DEFINE g == [i \in D |-> Key(items[i])]
             T == {Key(items[i]) : i \in D}
  <2>1. g \in Surjection(D, T)
    <3> HIDE DEF D
    <3> QED
      BY DEF Surjection
  <2> HIDE DEF g, D, T
  <2>2. IsFiniteSet(T)
    BY <1>3, <2>1, FS_Surjection
  <2> QED
    BY <2>2 DEF T
<1>5. IsFiniteSet(Unanswered(items))
  <2> HIDE DEF D
  <2> QED
    BY <1>1, <1>4
<1>6. Unanswered(items) \in SUBSET Keys(ids)
  <2> HIDE DEF D
  <2> QED
    BY <1>1, <1>2
<1> QED
  BY <1>5, <1>6, FS_CardinalityType

\* A key has a call with no later output if and only if its last item is a call.
LEMMA UnansweredAreOpen ==
    ASSUME NEW ids, NEW items \in Seq(Items(ids)), NEW q
    PROVE  q \in Unanswered(items) <=> OpenAt(items, Len(items), q)
<1> DEFINE n == Len(items)
<1>1. n \in Nat /\ DOMAIN items = 1..n /\ \A i \in 1..n : items[i] \in Items(ids)
  OBVIOUS
<1>2. \A i \in 1..n : /\ items[i].type \in {"message", "call", "output"}
                      /\ IsOutput(items[i]) <=> items[i].type = "output"
  BY <1>1, ItemShape
<1>3. q \in Unanswered(items) <=>
        \E i \in 1..n : /\ items[i].type = "call" /\ Key(items[i]) = q
                        /\ \A j \in i + 1..n : items[j].type = "output" => Key(items[j]) # q
  <2>1. \A i \in 1..n, j \in Nat : j \in i + 1..n => j \in 1..n
    BY <1>1
  <2> QED
    BY <1>1, <1>2, <2>1 DEF Unanswered
<1>4. ASSUME OpenAt(items, n, q) PROVE q \in Unanswered(items)
  <2>1. PICK i \in 1..n :
            /\ items[i].type = "call" /\ Key(items[i]) = q
            /\ \A j \in i + 1..n : items[j].type # "message" => Key(items[j]) # q
    BY <1>4 DEF OpenAt
  <2> QED
    BY <1>3, <2>1
<1>5. ASSUME q \in Unanswered(items) PROVE OpenAt(items, n, q)
  <2>1. PICK i \in 1..n :
            /\ items[i].type = "call" /\ Key(items[i]) = q
            /\ \A j \in i + 1..n : items[j].type = "output" => Key(items[j]) # q
    BY <1>3, <1>5
  <2> DEFINE C == {j \in 1..n : items[j].type # "message" /\ Key(items[j]) = q}
  <2>2. PICK l \in C : \A k \in C : k <= l
    <3>1. C \in SUBSET (1..n) /\ i \in C
      BY <2>1
    <3> HIDE DEF C, n
    <3> QED
      BY <1>1, <3>1, LastPosition
  <2>3. l \in 1..n /\ l >= i /\ items[l].type # "message" /\ Key(items[l]) = q
    BY <1>1, <2>1, <2>2
  <2>4. items[l].type = "call"
    <3>1. l = i \/ l \in i + 1..n
      BY <1>1, <2>1, <2>3
    <3> QED
      BY <1>2, <2>1, <2>3, <3>1
  <2>5. \A j \in l + 1..n : items[j].type # "message" => Key(items[j]) # q
    <3> SUFFICES ASSUME NEW j \in l + 1..n, items[j].type # "message", Key(items[j]) = q
                 PROVE  FALSE
      OBVIOUS
    <3>1. j \in C
      BY <1>1, <2>3
    <3> QED
      BY <2>2, <2>3, <3>1
  <2> QED
    BY <2>3, <2>4, <2>5 DEF OpenAt
<1> QED
  BY <1>4, <1>5

\* The scan fails exactly on the transcripts that are not well formed, and finds
\* the unanswered calls of the others: pending_bridge_tool_calls, for every
\* transcript.
THEOREM ScanIsExact ==
    ASSUME NEW ids, NEW items \in Seq(Items(ids))
    PROVE  PendingCalls(items) = IF WellFormed(items) THEN Unanswered(items) ELSE Malformed
<1> DEFINE n == Len(items)
<1>1. PICK f : Scans(f, items, n) /\ PendingCalls(items) = f[n]
  BY ScanUnfolds
<1> DEFINE S == {k \in Nat : k <= n => ScannedTo(f, ids, items, k)}
<1>2. 0 \in S
  <2>1. f[0] = {}
    BY <1>1 DEF Scans
  <2>2. \A q : ~ OpenAt(items, 0, q)
    BY DEF OpenAt
  <2> QED
    BY <2>1, <2>2 DEF ScannedTo
<1>3. ASSUME NEW k \in Nat, k \in S PROVE k + 1 \in S
  <2>1. CASE k + 1 <= n
    <3>1. k \in 0..n - 1 /\ k <= n
      BY <2>1
    <3>2. ScannedTo(f, ids, items, k)
      BY <1>3, <3>1
    <3>3. ScannedTo(f, ids, items, k + 1)
      BY <1>1, <3>1, <3>2, ScanStep
    <3> QED
      BY <3>3
  <2>2. CASE ~ (k + 1 <= n)
    BY <2>2
  <2> QED
    BY <2>1, <2>2
<1>4. ScannedTo(f, ids, items, n)
  <2>1. \A k \in Nat : k \in S
    <3> HIDE DEF S
    <3> QED
      BY <1>2, <1>3, SetInduction
  <2> QED
    BY <2>1
<1>5. CASE WellFormed(items)
  <2>1. f[n] \in SUBSET Keys(ids) /\ \A q : q \in f[n] <=> OpenAt(items, n, q)
    BY <1>4, <1>5, WellFormedFits DEF ScannedTo
  <2>2. \A q : q \in f[n] <=> q \in Unanswered(items)
    BY <2>1, UnansweredAreOpen
  <2>3. f[n] = Unanswered(items)
    <3> HIDE DEF n
    <3> QED
      BY <2>2, Zenon
  <2> QED
    BY <1>1, <1>5, <2>3
<1>6. CASE ~ WellFormed(items)
  BY <1>1, <1>4, <1>6, WellFormedFits DEF ScannedTo
<1> QED
  BY <1>5, <1>6

-----------------------------------------------------------------------------
(* The continuation *)

\* The first n items of a continuation answer the n calls in U, each once.
Answers1(U, current, n) ==
    /\ \A i \in 1..n : IsOutput(current[i]) /\ Key(current[i]) \in U
    /\ \A i, j \in 1..n : i # j => Key(current[i]) # Key(current[j])

\* As many different answers as calls answer every call.
LEMMA AnswersCover ==
    ASSUME NEW U, IsFiniteSet(U), NEW current, NEW n \in Nat, n = Cardinality(U),
           Answers1(U, current, n)
    PROVE  U = {Key(current[i]) : i \in 1..n}
<1> DEFINE g == [i \in 1..n |-> Key(current[i])]
<1>1. g \in Injection(1..n, U)
  <2>1. g \in [1..n -> U]
    BY DEF Answers1
  <2>2. \A a, b \in 1..n : a # b => g[a] # g[b]
    BY DEF Answers1
  <2> HIDE DEF g
  <2> QED
    BY <2>1, <2>2 DEF Injection, IsInjective
<1>2. IsFiniteSet(1..n) /\ Cardinality(1..n) = n
  BY FS_Interval
<1>3. g \in Surjection(1..n, U)
  <2> HIDE DEF g
  <2> QED
    BY <1>1, <1>2, FS_Injection
<1> QED
  BY <1>3 DEF Surjection

\* Answers to every call among as many items as there are calls fill them all,
\* each call answered once.
LEMMA CoverAnswers ==
    ASSUME NEW U, IsFiniteSet(U), NEW current, NEW n \in Nat, n = Cardinality(U),
           {Key(current[i]) : i \in {k \in 1..n : IsOutput(current[k])}} = U
    PROVE  Answers1(U, current, n)
<1> DEFINE D == {k \in 1..n : IsOutput(current[k])}
           g == [i \in D |-> Key(current[i])]
<1>1. IsFiniteSet(1..n) /\ Cardinality(1..n) = n
  BY FS_Interval
<1>2. D \in SUBSET (1..n)
  OBVIOUS
<1>3. g \in Surjection(D, U)
  BY DEF Surjection
<1> HIDE DEF D, g
<1>4. IsFiniteSet(D) /\ Cardinality(D) \in Nat /\ Cardinality(D) <= n
  BY <1>1, <1>2, FS_Subset, FS_CardinalityType
<1>5. n <= Cardinality(D) /\ (n = Cardinality(D) <=> g \in Injection(D, U))
  BY <1>3, <1>4, FS_Surjection
<1>6. n = Cardinality(D)
  BY <1>4, <1>5
<1>7. D = 1..n
  BY <1>1, <1>2, <1>6, FS_Subset
<1>8. g \in Injection(D, U)
  BY <1>5, <1>6
<1>9. \A a, b \in D : a # b => g[a] # g[b]
  BY <1>8 DEF Injection, IsInjective
<1>10. \A i \in 1..n : IsOutput(current[i]) /\ g[i] = Key(current[i])
  BY <1>7 DEF D, g
<1>11. \A i \in 1..n : g[i] \in U
  BY <1>3, <1>7 DEF Surjection
<1> QED
  BY <1>7, <1>9, <1>10, <1>11 DEF Answers1

LEMMA AllowedShape ==
    ASSUME NEW ids, NEW stored \in Seq(Items(ids)), NEW current \in Seq(Items(ids))
    PROVE  ContinuationAllowed(stored, current) <=>
              LET n == Cardinality(Unanswered(stored))
              IN  /\ WellFormed(stored)
                  /\ Len(current) >= n
                  /\ Answers1(Unanswered(stored), current, n)
                  /\ \A i \in n + 1..Len(current) : current[i].type = "message"
<1>1. CASE WellFormed(stored)
  <2>1. PendingCalls(stored) = Unanswered(stored)
    BY <1>1, ScanIsExact
  <2>2. Unanswered(stored) # Malformed
    BY UnansweredAreKeys, KeysAreNotMalformed
  <2> QED
    BY <1>1, <2>1, <2>2 DEF ContinuationAllowed, Answers1
<1>2. CASE ~ WellFormed(stored)
  <2>1. PendingCalls(stored) = Malformed
    BY <1>2, ScanIsExact
  <2> QED
    BY <1>2, <2>1, Zenon DEF ContinuationAllowed
<1> QED
  BY <1>1, <1>2

\* The validation of a continuation accepts exactly the answers to the pending
\* calls, in any order and each once, followed by messages:
\* validate_bridge_continuation_items, for every stored and every new transcript.
THEOREM ContinuationIsExact ==
    ASSUME NEW ids, NEW stored \in Seq(Items(ids)), NEW current \in Seq(Items(ids))
    PROVE  ContinuationAllowed(stored, current) <=> AnswersThenMessages(stored, current)
<1> DEFINE U == Unanswered(stored)
           n == Cardinality(U)
<1>1. IsFiniteSet(U) /\ n \in Nat
  BY UnansweredAreKeys
<1>2. \A i \in 1..Len(current) : current[i].type = "message" <=> current[i] = Message
  <2>1. \A i \in 1..Len(current) : current[i] \in Items(ids)
    OBVIOUS
  <2> QED
    BY <2>1, ItemShape
<1>3. ASSUME ContinuationAllowed(stored, current) PROVE AnswersThenMessages(stored, current)
  <2>1. /\ WellFormed(stored) /\ Len(current) >= n /\ Answers1(U, current, n)
        /\ \A i \in n + 1..Len(current) : current[i].type = "message"
    BY <1>3, AllowedShape
  <2> HIDE DEF n
  <2>2. U = {Key(current[i]) : i \in 1..n}
    BY <1>1, <2>1, AnswersCover DEF n
  <2>3. {k \in 1..n : IsOutput(current[k])} = 1..n
    BY <2>1 DEF Answers1
  <2>4. n \in 0..Len(current) /\ \A i \in n + 1..Len(current) : i \in 1..Len(current)
    BY <1>1, <2>1
  <2>5. \A i \in n + 1..Len(current) : current[i] = Message
    BY <1>2, <2>1, <2>4
  <2>6. {Key(current[i]) : i \in {k \in 1..n : IsOutput(current[k])}} = U
    BY <2>2, <2>3
  <2>7. n = Cardinality(U)
    BY DEF n
  <2> HIDE DEF U
  <2> QED
    BY <2>1, <2>4, <2>5, <2>6, <2>7 DEF AnswersThenMessages, U
<1>4. ASSUME AnswersThenMessages(stored, current) PROVE ContinuationAllowed(stored, current)
  <2>1. PICK m \in 0..Len(current) :
          /\ {Key(current[i]) : i \in {k \in 1..m : IsOutput(current[k])}} = U
          /\ m = Cardinality(U)
          /\ \A i \in m + 1..Len(current) : current[i] = Message
    BY <1>4 DEF AnswersThenMessages
  <2>2. Answers1(U, current, m)
    <3>1. m \in Nat
      OBVIOUS
    <3> HIDE DEF U
    <3> QED
      BY <1>1, <2>1, <3>1, CoverAnswers
  <2>3. \A i \in m + 1..Len(current) : current[i].type = "message"
    BY <2>1 DEF Message
  <2>4. WellFormed(stored)
    BY <1>4 DEF AnswersThenMessages
  <2>5. Len(current) >= m
    OBVIOUS
  <2> QED
    BY <2>1, <2>2, <2>3, <2>4, <2>5, AllowedShape
<1> QED
  BY <1>3, <1>4

\* What follows a transcript does not change what its items are.
LEMMA PrefixUnchanged ==
    ASSUME NEW ids, NEW s \in Seq(Items(ids)), NEW c \in Seq(Items(ids))
    PROVE  /\ s \o c \in Seq(Items(ids)) /\ Len(s \o c) = Len(s) + Len(c)
           /\ \A i \in 1..Len(c) : (s \o c)[Len(s) + i] = c[i]
           /\ \A k \in 0..Len(s) : \A q : OpenAt(s \o c, k, q) <=> OpenAt(s, k, q)
           /\ \A j \in 1..Len(s) : FitsAt(s \o c, j) <=> FitsAt(s, j)
<1> DEFINE z == s \o c
<1>1. z \in Seq(Items(ids)) /\ Len(z) = Len(s) + Len(c) /\ Len(s) \in Nat /\ Len(c) \in Nat
  OBVIOUS
<1>2. \A i \in 1..Len(c) : z[Len(s) + i] = c[i]
  BY <1>1
<1>3. \A i \in 1..Len(s) : z[i] = s[i]
  BY <1>1
<1> HIDE DEF z
<1>4. ASSUME NEW k \in 0..Len(s), NEW q PROVE OpenAt(z, k, q) <=> OpenAt(s, k, q)
  <2>1. \A i \in 1..k : z[i] = s[i]
    BY <1>1, <1>3
  <2>2. \A i \in 1..k : \A j \in i + 1..k : j \in 1..k
    BY <1>1
  <2> QED
    BY <2>1, <2>2 DEF OpenAt
<1>5. ASSUME NEW j \in 1..Len(s) PROVE FitsAt(z, j) <=> FitsAt(s, j)
  <2>1. z[j] = s[j] /\ j - 1 \in 0..Len(s)
    BY <1>1, <1>3
  <2>2. OpenAt(z, j - 1, Key(s[j])) <=> OpenAt(s, j - 1, Key(s[j]))
    BY <1>4, <2>1
  <2> QED
    BY <2>1, <2>2, Zenon DEF FitsAt
<1> QED
  BY <1>1, <1>2, <1>4, <1>5 DEF z

\* A continuation that is let through closes every call the stored transcript
\* left open, and opens none.
THEOREM ContinuationCloses ==
    ASSUME NEW ids, NEW stored \in Seq(Items(ids)), NEW current \in Seq(Items(ids)),
           ContinuationAllowed(stored, current)
    PROVE  PendingCalls(stored \o current) = {}
<1> DEFINE U == Unanswered(stored)
           n == Cardinality(U)
           h == Len(stored)
           z == stored \o current
           closed(k) == {Key(current[i]) : i \in {m \in 1..k : m <= n}}
           upTo(k) == /\ \A q : OpenAt(z, h + k, q) <=> q \in U \ closed(k)
                      /\ \A j \in 1..h + k : FitsAt(z, j)
           S == {k \in Nat : k <= Len(current) => upTo(k)}
<1>1. /\ WellFormed(stored) /\ Len(current) >= n /\ Answers1(U, current, n)
      /\ \A i \in n + 1..Len(current) : current[i].type = "message"
  BY AllowedShape
<1>2. IsFiniteSet(U) /\ n \in Nat /\ U \in SUBSET Keys(ids)
  BY UnansweredAreKeys
<1>3. h \in Nat /\ Len(current) \in Nat /\ z \in Seq(Items(ids)) /\ Len(z) = h + Len(current)
  OBVIOUS
<1>4. \A i \in 1..Len(current) : z[h + i] = current[i]
  BY PrefixUnchanged
<1>5. \A q : OpenAt(z, h, q) <=> q \in U
  <2>1. \A q : OpenAt(z, h, q) <=> OpenAt(stored, h, q)
    BY <1>3, PrefixUnchanged
  <2> QED
    BY <2>1, UnansweredAreOpen
<1>6. \A j \in 1..h : FitsAt(z, j)
  <2>1. \A j \in 1..h : FitsAt(stored, j)
    BY <1>1, WellFormedFits
  <2> QED
    BY <2>1, PrefixUnchanged
<1> HIDE DEF U, n, h, z
<1>7. 0 \in S
  <2>1. closed(0) = {} /\ h + 0 = h
    BY <1>3
  <2> QED
    BY <1>5, <1>6, <2>1
<1>8. ASSUME NEW k \in Nat, k \in S, k + 1 <= Len(current) PROVE upTo(k + 1)
  <2> DEFINE item == current[k + 1]
  <2>1. /\ h + k \in 0..Len(z) - 1 /\ h + (k + 1) = (h + k) + 1 /\ k + 1 \in 1..Len(current)
        /\ h + k \in Nat /\ ((h + k) + 1) - 1 = h + k /\ k <= Len(current)
    BY <1>3, <1>8
  <2>2. z[(h + k) + 1] = item /\ item \in Items(ids)
    BY <1>4, <2>1
  <2>3. upTo(k)
    BY <1>8, <2>1
  <2>4. CASE k + 1 <= n
    <3>1. IsOutput(item) /\ Key(item) \in U /\ \A i \in 1..k : Key(current[i]) # Key(item)
      <4>1. k + 1 \in 1..n /\ \A i \in 1..k : i \in 1..n /\ i # k + 1
        BY <1>2, <2>4
      <4> QED
        BY <1>1, <4>1 DEF Answers1
    <3>2. item.type = "output"
      BY <2>2, <3>1, ItemShape
    <3>3. closed(k + 1) = closed(k) \cup {Key(item)}
      <4>1. \A i \in Nat : i \in {m \in 1..k + 1 : m <= n} <=> i \in {m \in 1..k : m <= n} \/ i = k + 1
        BY <1>2, <2>4
      <4> QED
        BY <4>1
    <3>4. Key(item) \notin closed(k)
      BY <3>1
    <3> HIDE DEF closed
    <3>5. OpenAt(z, h + k, Key(item))
      BY <2>3, <3>1, <3>4
    <3>6. FitsAt(z, (h + k) + 1)
      <4>1. OpenAt(z, ((h + k) + 1) - 1, Key(item))
        BY <2>1, <3>5
      <4> QED
        BY <2>2, <3>2, <4>1 DEF FitsAt
    <3>7. \A q : OpenAt(z, (h + k) + 1, q) <=> OpenAt(z, h + k, q) /\ q # Key(item)
      <4>1. z[(h + k) + 1].type = "output" /\ Key(z[(h + k) + 1]) = Key(item)
        BY <2>2, <3>2
      <4>2. ~ OpenAt(z, (h + k) + 1, Key(item))
        BY <1>3, <2>1, <4>1, OpenStep
      <4>3. \A q : q # Key(item) => (OpenAt(z, (h + k) + 1, q) <=> OpenAt(z, h + k, q))
        BY <1>3, <2>1, <4>1, OpenStep
      <4> QED
        BY <4>2, <4>3
    <3>8. \A q : OpenAt(z, h + (k + 1), q) <=> q \in U \ closed(k + 1)
      BY <2>1, <2>3, <3>3, <3>7
    <3>9. \A j \in 1..h + (k + 1) : j \in 1..h + k \/ j = (h + k) + 1
      BY <2>1
    <3> QED
      BY <2>3, <3>6, <3>8, <3>9
  <2>5. CASE ~ (k + 1 <= n)
    <3>1. item.type = "message"
      BY <1>1, <1>2, <2>1, <2>5
    <3>2. closed(k + 1) = closed(k)
      <4>1. {m \in 1..k + 1 : m <= n} = {m \in 1..k : m <= n}
        BY <1>2, <2>5
      <4> QED
        BY <4>1
    <3> HIDE DEF closed
    <3>3. FitsAt(z, (h + k) + 1)
      BY <2>2, <3>1 DEF FitsAt
    <3>4. \A q : OpenAt(z, (h + k) + 1, q) <=> OpenAt(z, h + k, q)
      BY <1>3, <2>1, <2>2, <3>1, OpenStep
    <3>5. \A q : OpenAt(z, h + (k + 1), q) <=> q \in U \ closed(k + 1)
      BY <2>1, <2>3, <3>2, <3>4
    <3>6. \A j \in 1..h + (k + 1) : j \in 1..h + k \/ j = (h + k) + 1
      BY <2>1
    <3> QED
      BY <2>3, <3>3, <3>5, <3>6
  <2> QED
    BY <2>4, <2>5
<1>9. upTo(Len(current))
  <2>1. ASSUME NEW k \in Nat, k \in S PROVE k + 1 \in S
    <3>1. CASE k + 1 <= Len(current)
      <4>1. upTo(k + 1)
        BY <1>8, <2>1, <3>1
      <4> HIDE DEF upTo
      <4> QED
        BY <2>1, <4>1
    <3>2. CASE ~ (k + 1 <= Len(current))
      BY <3>2
    <3> QED
      BY <3>1, <3>2
  <2>2. \A k \in Nat : k \in S
    <3> HIDE DEF S
    <3> QED
      BY <1>7, <2>1, SetInduction
  <2> HIDE DEF upTo
  <2> QED
    BY <1>3, <2>2
<1>10. U \subseteq closed(Len(current))
  <2>1. U = {Key(current[i]) : i \in 1..n}
    BY <1>1, <1>2, AnswersCover DEF n
  <2>2. \A i \in 1..n : i \in {m \in 1..Len(current) : m <= n}
    BY <1>1, <1>2, <1>3
  <2> QED
    BY <2>1, <2>2
<1>11. \A q : ~ OpenAt(z, Len(z), q)
  <2> HIDE DEF closed
  <2> QED
    BY <1>3, <1>9, <1>10
<1>12. WellFormed(z) /\ Unanswered(z) = {}
  <2>1. \A j \in 1..Len(z) : FitsAt(z, j)
    BY <1>3, <1>9
  <2>2. \A q : q \notin Unanswered(z)
    BY <1>3, <1>11, UnansweredAreOpen
  <2> QED
    BY <1>3, <2>1, <2>2, WellFormedFits
<1>13. PendingCalls(z) = {}
  BY <1>3, <1>12, ScanIsExact
<1> QED
  BY <1>13 DEF z

-----------------------------------------------------------------------------
(* Transcripts and their bytes *)

\* The bytes of a set of entries, as a function of all transcripts.
BytesOf(S, h) == {b \in S \X (1..LargestLimit) : b[2] <= Len(h[b[1]])}

Transcripts == [Turns -> Seq(Items(CallIds))]

-----------------------------------------------------------------------------
(* The size of a set of entries *)

\* The bytes of a set of entries are finitely many.
LEMMA BytesFinite ==
    ASSUME NEW S \in SUBSET Turns, NEW h
    PROVE  IsFiniteSet(BytesOf(S, h)) /\ Cardinality(BytesOf(S, h)) \in Nat
<1>1. IsFiniteSet(S)
  BY TurnsAssumption, FS_Subset
<1>2. IsFiniteSet(1..LargestLimit)
  <2>1. 1 \in Int /\ LargestLimit \in Int
    BY LimitsAssumption
  <2> QED
    BY <2>1, FS_Interval
<1>3. IsFiniteSet(S \X (1..LargestLimit))
  BY <1>1, <1>2, FS_Product
<1>4. BytesOf(S, h) \in SUBSET (S \X (1..LargestLimit))
  BY DEF BytesOf
<1> QED
  BY <1>3, <1>4, FS_Subset, FS_CardinalityType

\* An entry that fits the largest limit adds its size.
LEMMA BytesWithEntry ==
    ASSUME NEW S \in SUBSET Turns, NEW h, NEW t \in Turns \ S,
           Len(h[t]) \in 0..LargestLimit
    PROVE  Cardinality(BytesOf(S \cup {t}, h)) = Cardinality(BytesOf(S, h)) + Len(h[t])
<1> DEFINE n == Len(h[t])
           added == {t} \X (1..n)
<1>1. IsFiniteSet(added) /\ Cardinality(added) = n
  <2>1. IsFiniteSet({t}) /\ Cardinality({t}) = 1
    BY FS_Singleton
  <2>2. IsFiniteSet(1..n) /\ Cardinality(1..n) = n
    <3>1. 1 \in Int /\ n \in Int
      OBVIOUS
    <3>2. /\ IsFiniteSet(1..n)
          /\ Cardinality(1..n) = IF 1 > n THEN 0 ELSE n - 1 + 1
      BY <3>1, FS_Interval
    <3> QED
      BY <3>2
  <2>3. /\ IsFiniteSet({t} \X (1..n))
        /\ Cardinality({t} \X (1..n)) = Cardinality({t}) * Cardinality(1..n)
    BY <2>1, <2>2, FS_Product
  <2> QED
    BY <2>1, <2>2, <2>3
<1>2. BytesOf(S \cup {t}, h) = BytesOf(S, h) \cup added
  BY LimitsAssumption DEF BytesOf
<1>3. BytesOf(S, h) \cap added = {}
  BY DEF BytesOf
<1>4. IsFiniteSet(BytesOf(S, h)) /\ Cardinality(BytesOf(S, h)) \in Nat
  BY BytesFinite
<1>5. Cardinality(BytesOf(S, h) \cup added)
        = Cardinality(BytesOf(S, h)) + Cardinality(added) - Cardinality(BytesOf(S, h) \cap added)
  BY <1>1, <1>4, FS_Union
<1>6. Cardinality(BytesOf(S, h) \cap added) = 0
  BY <1>3, FS_EmptySet
<1> HIDE DEF n, added
<1>7. n \in Nat
  BY DEF n
<1>8. Cardinality(BytesOf(S \cup {t}, h)) = Cardinality(BytesOf(S, h)) + n
  <2>1. Cardinality(BytesOf(S, h) \cup added) = Cardinality(BytesOf(S, h)) + n
    BY <1>1, <1>4, <1>5, <1>6, <1>7
  <2> QED
    BY <1>2, <2>1
<1> QED
  BY <1>8 DEF n

\* Pruning takes off the size of what is pruned.
LEMMA BytesWithout ==
    ASSUME NEW S \in SUBSET Turns, NEW h, NEW kept \in SUBSET S
    PROVE  /\ Cardinality(BytesOf(kept, h))
                = Cardinality(BytesOf(S, h)) - Cardinality(BytesOf(S \ kept, h))
           /\ Cardinality(BytesOf(kept, h)) \in Nat
<1> DEFINE A == BytesOf(kept, h)
           B == BytesOf(S \ kept, h)
<1>1. BytesOf(S, h) = A \cup B
  BY DEF BytesOf
<1>2. A \cap B = {}
  BY DEF BytesOf
<1>3. /\ IsFiniteSet(A) /\ Cardinality(A) \in Nat
      /\ IsFiniteSet(B) /\ Cardinality(B) \in Nat
  BY BytesFinite
<1>4. Cardinality(A \cup B) = Cardinality(A) + Cardinality(B) - Cardinality(A \cap B)
  BY <1>3, FS_Union
<1>5. Cardinality(A \cap B) = 0
  BY <1>2, FS_EmptySet
<1> HIDE DEF A, B
<1>6. Cardinality(BytesOf(S, h)) = Cardinality(A) + Cardinality(B)
  BY <1>1, <1>3, <1>4, <1>5
<1> QED
  BY <1>3, <1>6 DEF A, B

\* Only the transcripts of the entries count.
LEMMA BytesOfSame ==
    ASSUME NEW S \in SUBSET Turns, NEW h, NEW g, \A t \in S : g[t] = h[t]
    PROVE  BytesOf(S, g) = BytesOf(S, h)
  BY DEF BytesOf

-----------------------------------------------------------------------------
(* The store *)

\* The inductive invariant of the store: an entry belongs to a turn that is over,
\* so that nothing touches its transcript any more, and fits the largest limit;
\* a turn about to commit fits its own; no clock that was read is ahead.
Store ==
    /\ TypeOK
    /\ BytesExact
    /\ \A r \in responses : phase[r] = "replied" /\ Size(r) <= LargestLimit
    /\ \A t \in Turns : phase[t] = "commit" => Size(t) <= seenLimit[t]
    /\ \A t \in Turns : at[t] <= now

LEMMA LimitsAreNumbers == Limits \subseteq Nat
<1>1. 1..LargestLimit \subseteq Nat
  BY LimitsAssumption
<1> QED
  BY <1>1, LimitsAssumption

\* The bytes of a set of entries depend on nothing but the transcripts.
LEMMA BytesAreBytesOf ==
    ASSUME NEW S PROVE Bytes(S) = Cardinality(BytesOf(S, transcript))
  BY DEF Bytes, ByteSet, BytesOf, Size

LEMMA BytesAreBytesOfPrimed ==
    ASSUME NEW S PROVE Bytes(S)' = Cardinality(BytesOf(S', transcript'))
  BY DEF Bytes, ByteSet, BytesOf, Size

LEMMA InitStore == Init => Store
<1> SUFFICES ASSUME Init PROVE Store
  OBVIOUS
<1>1. TypeOK
  BY LimitsAssumption, BoundsAssumption, TurnsAssumption DEF Init, TypeOK, Phases
<1>2. BytesOf({}, transcript) = {}
  BY DEF BytesOf
<1>3. BytesExact
  <2>1. Bytes({}) = Cardinality(BytesOf({}, transcript))
    BY BytesAreBytesOf
  <2> QED
    BY <1>2, <2>1, FS_EmptySet DEF BytesExact, Init
<1> QED
  BY <1>1, <1>3 DEF Store, Init

\* A step that leaves the store alone and every transcript stored in it.
LEMMA StoreUntouched ==
    ASSUME Store, TypeOK', UNCHANGED <<responses, currentBytes>>,
           \A r \in responses : transcript'[r] = transcript[r] /\ phase'[r] = "replied",
           \A t \in Turns : phase'[t] = "commit" => Len(transcript'[t]) <= seenLimit'[t],
           \A t \in Turns : at'[t] <= now'
    PROVE  Store'
<1>1. responses \in SUBSET Turns
  BY DEF Store, TypeOK
<1>2. BytesOf(responses, transcript') = BytesOf(responses, transcript)
  BY <1>1, BytesOfSame
<1>3. BytesExact'
  <2>1. Bytes(responses)' = Cardinality(BytesOf(responses', transcript'))
    BY BytesAreBytesOfPrimed
  <2>2. Bytes(responses) = Cardinality(BytesOf(responses, transcript))
    BY BytesAreBytesOf
  <2> QED
    BY <1>2, <2>1, <2>2 DEF BytesExact, Store
<1> QED
  BY <1>3 DEF Store, Size

\* The clock and the administrator change nothing the store depends on.
LEMMA OutsideStore ==
    ASSUME Store,
           \/ Tick
           \/ RotateAuth
           \/ \E n \in Namespaces, limit \in Limits, responsesUpstream \in BOOLEAN :
                  Reconfigure(n, limit, responsesUpstream)
    PROVE  Store'
<1> USE BoundsAssumption
<1>1. CASE Tick
  <2>1. TypeOK'
    BY <1>1 DEF Store, TypeOK, Tick, configVars, requestVars, snapshotVars, storeVars
  <2>2. \A t \in Turns : at[t] <= now'
    BY <1>1 DEF Store, TypeOK, Tick
  <2> QED
    BY <1>1, <2>1, <2>2, StoreUntouched
    DEF Store, Tick, configVars, requestVars, snapshotVars, storeVars, Size
<1>2. CASE RotateAuth
  <2>1. TypeOK'
    BY <1>2 DEF Store, TypeOK, RotateAuth, configVars, requestVars, snapshotVars, storeVars
  <2> QED
    BY <1>2, <2>1, StoreUntouched
    DEF Store, RotateAuth, configVars, requestVars, snapshotVars, storeVars, Size
<1>3. ASSUME NEW n \in Namespaces, NEW limit \in Limits, NEW responsesUpstream \in BOOLEAN,
             Reconfigure(n, limit, responsesUpstream)
      PROVE  Store'
  <2>1. TypeOK'
    <3>1. native' \in [Namespaces -> BOOLEAN]
      BY <1>3, Zenon DEF Store, TypeOK, Reconfigure
    <3> QED
      BY <1>3, <3>1 DEF Store, TypeOK, Reconfigure, configVars, requestVars, snapshotVars, storeVars
  <2> QED
    BY <1>3, <2>1, StoreUntouched
    DEF Store, Reconfigure, configVars, requestVars, snapshotVars, storeVars, Size
<1> QED
  BY <1>1, <1>2, <1>3

\* A turn that begins, is routed, streams, completes or ends without a commit
\* leaves the store alone, and its own transcript is not stored yet.
LEMMA TurnOutsideStore ==
    ASSUME Store, NEW t \in Turns,
           \/ \E prev \in told \cup {NoTurn}, input \in Inputs, wantsStore \in BOOLEAN :
                  Begin(t, prev, input, wantsStore)
           \/ Route(t)
           \/ StreamStarts(t)
           \/ \E output \in Answers : Complete(t, output)
           \/ Finish(t)
    PROVE  Store'
<1> USE BoundsAssumption, ItemsAssumption
<1>1. ASSUME NEW prev \in told \cup {NoTurn}, NEW input \in Inputs, NEW wantsStore \in BOOLEAN,
             Begin(t, prev, input, wantsStore)
      PROVE  Store'
  <2>1. TypeOK'
    <3>1. candidate' \in [Turns -> BOOLEAN] /\ seenNative' \in [Turns -> BOOLEAN]
      BY <1>1, Zenon DEF Store, TypeOK, Begin
    <3>2. transcript' \in [Turns -> Seq(Items(CallIds))]
      BY <1>1 DEF Store, TypeOK, Begin
    <3>3. phase' \in [Turns -> Phases]
      BY <1>1 DEF Store, TypeOK, Begin, SetPhase, Phases
    <3> QED
      BY <1>1, <3>1, <3>2, <3>3 DEF Store, TypeOK, Begin, configVars, requestVars, storeVars
  <2>2. \A u \in Turns : phase'[u] = "commit" => Len(transcript'[u]) <= seenLimit'[u]
    BY <1>1 DEF Store, TypeOK, Begin, SetPhase, Size
  <2>3. \A u \in Turns : at'[u] <= now'
    BY <1>1 DEF Store, TypeOK, Begin
  <2> QED
    BY <1>1, <2>1, <2>2, <2>3, StoreUntouched DEF Store, TypeOK, Begin, SetPhase, storeVars
<1>2. CASE Route(t)
  <2>1. TypeOK'
    <3>1. candidate' \in [Turns -> BOOLEAN]
      <4> DEFINE fresh == \A i \in DOMAIN transcript[t] : ~ IsOutput(transcript[t][i])
      <4>1. \/ candidate' = [candidate EXCEPT ![t] = candidate[t] /\ ~ seenNative[t] /\ fresh]
            \/ candidate' = candidate
        BY <1>2 DEF Route
      <4>2. (candidate[t] /\ ~ seenNative[t] /\ fresh) \in BOOLEAN
        BY Zenon
      <4> HIDE DEF fresh
      <4> QED
        BY <4>1, <4>2, Zenon DEF Store, TypeOK
    <3>2. transcript' \in [Turns -> Seq(Items(CallIds))]
      <4>1. transcript' = transcript
            \/ /\ previous[t] \in Turns
               /\ transcript' = [transcript EXCEPT ![t] = transcript[previous[t]] \o transcript[t]]
        BY <1>2 DEF Store, TypeOK, Route
      <4>2. previous[t] \in Turns =>
                transcript[previous[t]] \o transcript[t] \in Seq(Items(CallIds))
        BY DEF Store, TypeOK
      <4> QED
        BY <4>1, <4>2 DEF Store, TypeOK
    <3>3. phase' \in [Turns -> Phases]
      BY <1>2 DEF Store, TypeOK, Route, SetPhase, Phases
    <3> QED
      BY <1>2, <3>1, <3>2, <3>3
      DEF Store, TypeOK, Route, configVars, requestVars, snapshotVars, storeVars
  <2>2. \A u \in Turns : phase'[u] = "commit" => Len(transcript'[u]) <= seenLimit'[u]
    BY <1>2 DEF Store, TypeOK, Route, SetPhase, Size, snapshotVars
  <2> QED
    BY <1>2, <2>1, <2>2, StoreUntouched DEF Store, TypeOK, Route, SetPhase, storeVars
<1>3. CASE StreamStarts(t)
  <2>1. TypeOK'
    BY <1>3 DEF Store, TypeOK, StreamStarts, configVars, requestVars, snapshotVars, storeVars
  <2> QED
    BY <1>3, <2>1, StoreUntouched DEF Store, StreamStarts, snapshotVars, storeVars, Size
<1>4. ASSUME NEW output \in Answers, Complete(t, output) PROVE Store'
  <2>1. transcript' \in [Turns -> Seq(Items(CallIds))]
    BY <1>4 DEF Store, TypeOK, Complete
  <2>2. phase' \in [Turns -> Phases]
    BY <1>4 DEF Store, TypeOK, Complete, SetPhase, Phases
  <2>3. TypeOK'
    BY <1>4, <2>1, <2>2
    DEF Store, TypeOK, Complete, configVars, requestVars, snapshotVars, storeVars
  <2>4. phase'[t] = "commit" => Len(transcript'[t]) <= seenLimit'[t]
    <3>1. /\ transcript[t] \in Seq(Items(CallIds)) /\ output \in Seq(Items(CallIds))
          /\ transcript'[t] = transcript[t] \o output
      BY <1>4 DEF Store, TypeOK, Complete
    <3>2. seenLimit[t] \in Nat /\ seenLimit'[t] = seenLimit[t]
      <4>1. seenLimit' = seenLimit
        BY <1>4 DEF Complete, snapshotVars
      <4>2. seenLimit[t] \in Limits
        BY DEF Store, TypeOK
      <4>3. seenLimit[t] \in Nat
        BY <4>2, LimitsAreNumbers
      <4> QED
        BY <4>1, <4>3, Zenon
    <3>3. phase'[t] = "commit" => ~ (Len(transcript[t]) + Len(output) > seenLimit[t])
      BY <1>4 DEF Store, TypeOK, Complete, SetPhase
    <3> QED
      BY <3>1, <3>2, <3>3
  <2>5. \A u \in Turns : phase'[u] = "commit" => Len(transcript'[u]) <= seenLimit'[u]
    BY <1>4, <2>4 DEF Store, TypeOK, Complete, SetPhase, Size, snapshotVars
  <2>6. \A u \in Turns : at'[u] <= now'
    BY <1>4 DEF Store, TypeOK, Complete
  <2> QED
    BY <1>4, <2>3, <2>5, <2>6, StoreUntouched DEF Store, TypeOK, Complete, SetPhase, storeVars
<1>5. CASE Finish(t)
  <2>1. TypeOK'
    BY <1>5 DEF Store, TypeOK, Finish, SetPhase, Phases, configVars, requestVars,
                snapshotVars, storeVars
  <2> QED
    BY <1>5, <2>1, StoreUntouched
    DEF Store, TypeOK, Finish, SetPhase, snapshotVars, storeVars, Size
<1> QED
  BY <1>1, <1>2, <1>3, <1>4, <1>5

\* The lookup removes an entry whose time is over, with its bytes.
LEMMA LookupStore == ASSUME Store, NEW t \in Turns, Lookup(t) PROVE Store'
<1> DEFINE p == previous[t]
<1>1. CASE responses' = responses /\ currentBytes' = currentBytes /\ expiresAt' = expiresAt
  <2>1. phase' \in [Turns -> Phases] /\ \A u \in Turns : phase'[u] # "commit" \/ phase[u] = "commit"
    BY DEF Store, TypeOK, Lookup, SetPhase, Phases
  <2>2. TypeOK'
    BY <1>1, <2>1 DEF Store, TypeOK, Lookup, configVars, requestVars, snapshotVars
  <2>3. \A r \in responses : transcript'[r] = transcript[r] /\ phase'[r] = "replied"
    BY DEF Store, TypeOK, Lookup, SetPhase
  <2>4. \A u \in Turns : phase'[u] = "commit" => Len(transcript'[u]) <= seenLimit'[u]
    BY <2>1 DEF Store, Lookup, snapshotVars, Size
  <2>5. \A u \in Turns : at'[u] <= now'
    BY DEF Store, Lookup
  <2> QED
    BY <1>1, <2>2, <2>3, <2>4, <2>5, StoreUntouched
<1>2. CASE /\ p \in responses /\ responses' = responses \ {p}
           /\ phase' = [phase EXCEPT ![t] = "refused"]
           /\ currentBytes' = currentBytes - Size(p) /\ expiresAt' = expiresAt
  <2> DEFINE rest == responses \ {p}
  <2>1. /\ rest \in SUBSET Turns /\ p \in Turns \ rest /\ rest \cup {p} = responses
        /\ Len(transcript[p]) \in 0..LargestLimit
    <3>1. p \in Turns /\ transcript[p] \in Seq(Items(CallIds))
      BY <1>2 DEF Store, TypeOK
    <3>2. Len(transcript[p]) <= LargestLimit
      BY <1>2 DEF Store, Size
    <3> QED
      BY <1>2, <3>1, <3>2, LimitsAssumption DEF Store, TypeOK
  <2>2. Cardinality(BytesOf(responses, transcript))
            = Cardinality(BytesOf(rest, transcript)) + Len(transcript[p])
    <3>1. Cardinality(BytesOf(rest \cup {p}, transcript))
            = Cardinality(BytesOf(rest, transcript)) + Len(transcript[p])
      <4> HIDE DEF rest, p
      <4> QED
        BY <2>1, BytesWithEntry
    <3> QED
      BY <2>1, <3>1
  <2>3. currentBytes = Cardinality(BytesOf(responses, transcript))
    BY BytesAreBytesOf DEF Store, BytesExact
  <2>4. Cardinality(BytesOf(rest, transcript)) \in Nat
    BY <2>1, BytesFinite
  <2>5. currentBytes' = Cardinality(BytesOf(rest, transcript))
    <3>1. currentBytes' = currentBytes - Len(transcript[p])
      BY <1>2 DEF Size
    <3>2. Len(transcript[p]) \in Nat
      BY <2>1
    <3> HIDE DEF rest, p
    <3> QED
      BY <2>2, <2>3, <2>4, <3>1, <3>2
  <2>6. BytesExact'
    <3>1. Bytes(responses)' = Cardinality(BytesOf(responses', transcript'))
      BY BytesAreBytesOfPrimed
    <3>2. responses' = rest /\ transcript' = transcript
      BY <1>2 DEF Lookup
    <3> QED
      BY <2>5, <3>1, <3>2 DEF BytesExact
  <2>7. TypeOK'
    BY <1>2, <2>4, <2>5
    DEF Store, TypeOK, Lookup, Phases, configVars, requestVars, snapshotVars
  <2>8. /\ \A r \in responses' : phase'[r] = "replied" /\ Len(transcript'[r]) <= LargestLimit
        /\ \A u \in Turns : phase'[u] = "commit" => Len(transcript'[u]) <= seenLimit'[u]
        /\ \A u \in Turns : at'[u] <= now'
    BY <1>2 DEF Store, TypeOK, Lookup, SetPhase, Size, snapshotVars
  <2> QED
    BY <2>6, <2>7, <2>8 DEF Store, Size
<1> QED
  BY <1>1, <1>2 DEF Lookup, SetPhase, storeVars

\* The commit prunes what its clock says is over and may add the turn's entry.
LEMMA CommitStore == ASSUME Store, NEW t \in Turns, Commit(t) PROVE Store'
<1> DEFINE live == Live(at[t])
           kept == currentBytes - Bytes(responses \ live)
<1>1. live \in SUBSET responses /\ live \in SUBSET Turns /\ responses \in SUBSET Turns
  BY DEF Live, Store, TypeOK
<1>2. kept = Cardinality(BytesOf(live, transcript)) /\ kept \in Nat
  <2>1. Bytes(responses \ live) = Cardinality(BytesOf(responses \ live, transcript))
    BY BytesAreBytesOf
  <2>2. currentBytes = Cardinality(BytesOf(responses, transcript))
    BY BytesAreBytesOf DEF Store, BytesExact
  <2> HIDE DEF live
  <2> QED
    BY <1>1, <2>1, <2>2, BytesWithout
<1>3. t \notin live /\ Len(transcript[t]) \in 0..LargestLimit
  <2>1. t \notin responses
    BY DEF Store, Commit
  <2>2. transcript[t] \in Seq(Items(CallIds)) /\ seenLimit[t] \in Limits
    BY DEF Store, TypeOK
  <2>3. Len(transcript[t]) <= seenLimit[t]
    BY DEF Store, Commit, Size
  <2>4. seenLimit[t] \in 1..LargestLimit
    BY <2>2, LimitsAssumption
  <2> QED
    BY <1>1, <2>1, <2>2, <2>3, <2>4, LimitsAssumption
<1>4. /\ transcript' = transcript /\ phase' = [phase EXCEPT ![t] = "replied"]
      /\ \/ responses' = live /\ currentBytes' = kept /\ UNCHANGED <<expiresAt, told>>
         \/ /\ responses' = live \cup {t} /\ currentBytes' = kept + Len(transcript[t])
            /\ expiresAt' = [expiresAt EXCEPT ![t] = at[t] + Ttl]
            /\ told' = told \cup {t}
  BY DEF Commit, SetPhase, Size
<1>5. currentBytes' = Cardinality(BytesOf(responses', transcript)) /\ currentBytes' \in Nat
  <2>1. CASE responses' = live /\ currentBytes' = kept
    <3> HIDE DEF live, kept
    <3> QED
      BY <1>2, <2>1
  <2>2. CASE responses' = live \cup {t} /\ currentBytes' = kept + Len(transcript[t])
    <3> HIDE DEF live, kept
    <3>1. Cardinality(BytesOf(live \cup {t}, transcript))
            = Cardinality(BytesOf(live, transcript)) + Len(transcript[t])
      BY <1>1, <1>3, BytesWithEntry
    <3>2. Len(transcript[t]) \in Nat
      BY <1>3
    <3> QED
      BY <1>2, <2>2, <3>1, <3>2
  <2> QED
    BY <1>4, <2>1, <2>2
<1>6. BytesExact'
  <2>1. Bytes(responses)' = Cardinality(BytesOf(responses', transcript'))
    BY BytesAreBytesOfPrimed
  <2> QED
    BY <1>4, <1>5, <2>1 DEF BytesExact
<1>7. TypeOK'
  <2>1. expiresAt' \in [Turns -> Nat]
    <3>1. at[t] + Ttl \in Nat
      BY BoundsAssumption, LimitsAssumption DEF Store, TypeOK
    <3> QED
      BY <1>4, <3>1 DEF Store, TypeOK
  <2>2. responses' \subseteq Turns /\ told' \subseteq Turns /\ phase' \in [Turns -> Phases]
    <3>1. told \subseteq Turns /\ phase \in [Turns -> Phases]
      BY DEF Store, TypeOK
    <3> HIDE DEF live, kept
    <3> QED
      BY <1>1, <1>4, <3>1 DEF Phases
  <2> QED
    BY <1>4, <1>5, <2>1, <2>2
    DEF Store, TypeOK, Commit, configVars, requestVars, snapshotVars
<1>8. /\ \A r \in responses' : phase'[r] = "replied" /\ Len(transcript'[r]) <= LargestLimit
      /\ \A u \in Turns : phase'[u] = "commit" => Len(transcript'[u]) <= seenLimit'[u]
      /\ \A u \in Turns : at'[u] <= now'
  <2>1. \A r \in live \cup {t} : phase'[r] = "replied" /\ Len(transcript'[r]) <= LargestLimit
    <3>1. \A r \in responses : phase[r] = "replied" /\ Len(transcript[r]) <= LargestLimit
      BY DEF Store, Size
    <3>2. phase \in [Turns -> Phases]
      BY DEF Store, TypeOK
    <3>3. Len(transcript[t]) <= LargestLimit
      BY <1>3, LimitsAssumption
    <3> HIDE DEF live, kept
    <3> QED
      BY <1>1, <1>4, <3>1, <3>2, <3>3
  <2>2. responses' \subseteq live \cup {t}
    BY <1>4
  <2>3. \A u \in Turns : phase'[u] = "commit" => Len(transcript'[u]) <= seenLimit'[u]
    BY <1>4 DEF Store, TypeOK, Commit, Size, snapshotVars
  <2>4. \A u \in Turns : at'[u] <= now'
    BY DEF Store, Commit
  <2> QED
    BY <2>1, <2>2, <2>3, <2>4
<1> QED
  BY <1>6, <1>7, <1>8 DEF Store, Size

\* Every step keeps the store's invariant.
LEMMA NextStore == Store /\ [Next]_vars => Store'
<1> SUFFICES ASSUME Store, [Next]_vars PROVE Store'
  OBVIOUS
<1>1. CASE UNCHANGED vars
  <2>1. TypeOK'
    BY <1>1 DEF Store, TypeOK, vars, configVars, requestVars, snapshotVars, storeVars
  <2> QED
    BY <1>1, <2>1, StoreUntouched
    DEF Store, vars, configVars, requestVars, snapshotVars, storeVars, Size
<1>2. CASE \E t \in Turns : TurnStep(t)
  BY <1>2, TurnOutsideStore, LookupStore, CommitStore DEF TurnStep
<1> QED
  BY <1>1, <1>2, OutsideStore DEF Next

\* The store's invariant holds for ever: types, sizes, and current_bytes.
LEMMA StoreInvariant == Spec => []Store
<1> QED
  BY InitStore, NextStore, PTL DEF Spec

\* Every variable keeps its type; in particular current_bytes never goes below
\* zero, so that no subtraction of the store saturates.
THEOREM TypesHold == Spec => []TypeOK
<1>1. Store => TypeOK
  BY DEF Store
<1> QED
  BY <1>1, StoreInvariant, PTL

\* current_bytes is the size of the stored entries after any interleaving of
\* lookups, commits and configurations, for every number of turns.
THEOREM BytesAreExact == Spec => []BytesExact
<1>1. Store => BytesExact
  BY DEF Store
<1> QED
  BY <1>1, StoreInvariant, PTL

\* An entry leaves the store only when its time to live is over: the clocks that
\* turns read before they waited for the lock are never ahead.
THEOREM ForgottenOnlyExpired == Spec => OnlyExpiredAreForgotten
<1> DEFINE Kept == \A r \in responses : r \notin responses' => expiresAt[r] <= now
<1>1. Store /\ [Next]_vars => [Kept]_vars
  <2> SUFFICES ASSUME Store, Next, NEW r \in responses, r \notin responses'
               PROVE  expiresAt[r] <= now
    OBVIOUS
  <2>1. expiresAt[r] \in Nat /\ now \in Nat /\ \A t \in Turns : at[t] \in Nat /\ at[t] <= now
    BY BoundsAssumption DEF Store, TypeOK
  <2>2. PICK t \in Turns : Lookup(t) \/ Commit(t)
    BY DEF Next, TurnStep, Tick, RotateAuth, Reconfigure, Begin, Route, StreamStarts,
           Complete, Finish, storeVars
  <2>3. expiresAt[r] <= at[t]
    BY <2>2 DEF Lookup, Commit, Live, Expired, storeVars
  <2> QED
    BY <2>1, <2>3
<1> QED
  BY <1>1, StoreInvariant, PTL DEF Spec, OnlyExpiredAreForgotten

-----------------------------------------------------------------------------
(* The context of a replay *)

\* Turn t goes on where turn p ended: the same owner, the same route, and
\* nothing can change what p sent and got.
Follows(t, p) ==
    /\ p \in Turns /\ phase[p] = "replied"
    /\ namespace[t] = namespace[p] /\ credential[t] = credential[p]
    /\ seenGeneration[t] = seenGeneration[p]

\* A turn that found its history follows it, and one that was let through
\* carries it and is on its route.
InContext(t) ==
    /\ phase[t] = "route" /\ previous[t] # NoTurn /\ ~ seenNative[t] =>
            Follows(t, previous[t])
    /\ Continued(t) =>
            /\ Follows(t, previous[t])
            /\ IsPrefixOf(transcript[previous[t]], transcript[t])
            /\ seenRevision[t] = seenRevision[previous[t]]
            /\ model[t] = model[previous[t]]

\* The inductive invariant.
Context == Store /\ \A t \in Turns : InContext(t)

\* A step that does not touch turn t.
Same(t) ==
    /\ phase'[t] = phase[t] /\ transcript'[t] = transcript[t] /\ previous'[t] = previous[t]
    /\ seenRevision'[t] = seenRevision[t] /\ seenGeneration'[t] = seenGeneration[t]
    /\ seenNative'[t] = seenNative[t]

\* What is appended to a sequence leaves it a prefix, and prefixes of a prefix too.
LEMMA PrefixOfConcat ==
    ASSUME NEW I, NEW s \in Seq(I), NEW u \in Seq(I), NEW v \in Seq(I)
    PROVE  /\ IsPrefixOf(s, s \o u)
           /\ IsPrefixOf(s, u) => IsPrefixOf(s, u \o v)
<1>1. /\ Len(s) \in Nat /\ Len(u) \in Nat /\ Len(v) \in Nat
      /\ Len(s \o u) = Len(s) + Len(u) /\ Len(u \o v) = Len(u) + Len(v)
  OBVIOUS
<1>2. \A i \in 1..Len(s) : (s \o u)[i] = s[i]
  BY <1>1
<1>3. \A i \in 1..Len(u) : (u \o v)[i] = u[i]
  BY <1>1
<1> QED
  BY <1>1, <1>2, <1>3 DEF IsPrefixOf

LEMMA InitContext == Init => Context
  BY InitStore DEF Init, Context, InContext, Continued

\* Every step leaves all turns alone but the one that takes it, and that one is
\* not over.
LEMMA OthersStay ==
    ASSUME Store, NEW u \in Turns, TurnStep(u)
    PROVE  /\ UNCHANGED requestVars
           /\ phase[u] # "replied"
           /\ \A t \in Turns : t # u => Same(t)
<1> USE DEF Store, TypeOK, Same, SetPhase, snapshotVars
<1>1. ASSUME NEW prev \in told \cup {NoTurn}, NEW input \in Inputs, NEW wantsStore \in BOOLEAN,
             Begin(u, prev, input, wantsStore)
      PROVE  UNCHANGED requestVars /\ phase[u] # "replied" /\ \A t \in Turns : t # u => Same(t)
  BY <1>1 DEF Begin
<1>2. CASE Lookup(u)
  BY <1>2 DEF Lookup
<1>3. CASE Route(u)
  BY <1>3 DEF Route
<1>4. CASE StreamStarts(u)
  BY <1>4 DEF StreamStarts
<1>5. ASSUME NEW output \in Answers, Complete(u, output)
      PROVE  UNCHANGED requestVars /\ phase[u] # "replied" /\ \A t \in Turns : t # u => Same(t)
  BY <1>5 DEF Complete
<1>6. CASE Finish(u)
  BY <1>6 DEF Finish
<1>7. CASE Commit(u)
  BY <1>7 DEF Commit
<1> QED
  BY <1>1, <1>2, <1>3, <1>4, <1>5, <1>6, <1>7 DEF TurnStep

\* A turn the step does not touch stays in its context, because no step touches
\* a turn that is over.
LEMMA UntouchedInContext ==
    ASSUME Context, UNCHANGED requestVars, NEW t \in Turns, Same(t),
           \A p \in Turns : phase[p] = "replied" => Same(p)
    PROVE  InContext(t)'
  BY DEF Context, InContext, Continued, Follows, Same, requestVars

\* The turn that takes the step: it is let through only after its history was
\* found, checked against its owner and its route, and put before its own items.
LEMMA ActorInContext ==
    ASSUME Context, NEW t \in Turns, TurnStep(t),
           \A p \in Turns : p # t => Same(p), UNCHANGED requestVars
    PROVE  InContext(t)'
<1>0. InContext(t)
  BY DEF Context
<1>1. ASSUME NEW prev \in told \cup {NoTurn}, NEW input \in Inputs, NEW wantsStore \in BOOLEAN,
             Begin(t, prev, input, wantsStore)
      PROVE  InContext(t)'
  <2>1. phase'[t] \in {"route", "lookup"}
        /\ (phase'[t] = "route" => previous'[t] = NoTurn \/ seenNative'[t])
    BY <1>1 DEF Context, Store, TypeOK, Begin, SetPhase
  <2> QED
    BY <2>1 DEF InContext, Continued
<1>2. CASE Lookup(t)
  <2>1. \/ phase'[t] = "refused"
        \/ phase'[t] = "route" /\ previous[t] \in responses /\ SameOwner(t, previous[t])
    <3>1. phase \in [Turns -> Phases]
      BY DEF Context, Store, TypeOK
    <3>2. \/ phase' = [phase EXCEPT ![t] = "refused"]
          \/ /\ previous[t] \in responses
             /\ phase' = [phase EXCEPT ![t] =
                    IF SameOwner(t, previous[t]) THEN "route" ELSE "refused"]
      BY <1>2 DEF Lookup, SetPhase
    <3> QED
      BY <3>1, <3>2
  <2>2. previous[t] \in responses => previous[t] \in Turns /\ phase[previous[t]] = "replied"
                                      /\ previous[t] # t
    BY <1>2 DEF Context, Store, TypeOK, Lookup
  <2>3. UNCHANGED snapshotVars
    BY <1>2 DEF Lookup
  <2> QED
    BY <2>1, <2>2, <2>3 DEF InContext, Continued, Follows, SameOwner, Same, requestVars, snapshotVars
<1>3. CASE Route(t)
  <2>1. UNCHANGED <<snapshotVars, requestVars>> /\ phase[t] = "route"
    BY <1>3 DEF Route
  <2>2. CASE phase'[t] = "refused" \/ previous[t] = NoTurn
    BY <1>3, <2>1, <2>2
    DEF Context, Store, TypeOK, Route, SetPhase, InContext, Continued, snapshotVars
  <2>3. CASE /\ previous[t] # NoTurn /\ MayContinue(t, previous[t]) /\ phase'[t] = "upstream"
             /\ transcript'[t] = transcript[previous[t]] \o transcript[t]
    <3> DEFINE p == previous[t]
    <3>1. Follows(t, p) /\ SameRoute(t, p) /\ p \in Turns /\ p # t
      BY <1>0, <2>1, <2>3 DEF InContext, MayContinue, Follows
    <3>2. IsPrefixOf(transcript[p], transcript'[t])
      <4>1. transcript[p] \in Seq(Items(CallIds)) /\ transcript[t] \in Seq(Items(CallIds))
        BY <3>1 DEF Context, Store, TypeOK
      <4> QED
        BY <2>3, <4>1, PrefixOfConcat
    <3>3. Same(p) /\ previous'[t] = p
      BY <2>1, <3>1 DEF snapshotVars
    <3> QED
      BY <2>1, <2>3, <3>1, <3>2, <3>3
      DEF InContext, Follows, SameRoute, Same, requestVars, snapshotVars
  <2> QED
    BY <1>3, <2>2, <2>3 DEF Context, Store, TypeOK, Route, SetPhase
<1>4. CASE StreamStarts(t)
  <2>1. Same(t)
    BY <1>4 DEF StreamStarts, Same, snapshotVars
  <2> QED
    BY <2>1, UntouchedInContext
<1>5. CASE /\ phase[t] \in {"upstream", "commit"} /\ phase'[t] \in {"commit", "replied"}
           /\ UNCHANGED <<snapshotVars, requestVars>>
           /\ \/ transcript'[t] = transcript[t]
              \/ \E output \in Answers : transcript'[t] = transcript[t] \o output
  <2>1. CASE previous[t] = NoTurn
    BY <1>5, <2>1 DEF InContext, Continued, snapshotVars
  <2>2. CASE previous[t] # NoTurn
    <3> DEFINE p == previous[t]
    <3>1. /\ Follows(t, p) /\ seenRevision[t] = seenRevision[p] /\ model[t] = model[p]
          /\ IsPrefixOf(transcript[p], transcript[t])
      BY <1>0, <1>5, <2>2 DEF InContext, Continued
    <3>2. p # t /\ p \in Turns /\ Same(p) /\ previous'[t] = p
      BY <1>5, <3>1 DEF Follows, snapshotVars
    <3>3. IsPrefixOf(transcript[p], transcript'[t])
      <4>1. transcript[p] \in Seq(Items(CallIds)) /\ transcript[t] \in Seq(Items(CallIds))
        BY <3>2 DEF Context, Store, TypeOK
      <4>2. \A output \in Answers : output \in Seq(Items(CallIds))
        BY ItemsAssumption
      <4> QED
        BY <1>5, <3>1, <4>1, <4>2, PrefixOfConcat
    <3> QED
      BY <1>5, <3>1, <3>2, <3>3 DEF InContext, Follows, Same, requestVars, snapshotVars
  <2> QED
    BY <2>1, <2>2
<1>6. CASE \E output \in Answers : Complete(t, output)
  BY <1>5, <1>6 DEF Context, Store, TypeOK, Complete, SetPhase
<1>7. CASE Finish(t)
  BY <1>5, <1>7 DEF Context, Store, TypeOK, Finish, SetPhase
<1>8. CASE Commit(t)
  BY <1>5, <1>8 DEF Context, Store, TypeOK, Commit, SetPhase
<1> QED
  BY <1>1, <1>2, <1>3, <1>4, <1>6, <1>7, <1>8 DEF TurnStep

LEMMA NextContext == Context /\ [Next]_vars => Context'
<1> SUFFICES ASSUME Context, [Next]_vars, NEW t \in Turns PROVE InContext(t)'
  BY NextStore DEF Context
<1>1. CASE UNCHANGED <<requestVars, snapshotVars, phase, transcript>>
  <2>1. UNCHANGED requestVars /\ \A p \in Turns : Same(p)
    BY <1>1 DEF Same, snapshotVars
  <2> QED
    BY <2>1, UntouchedInContext
<1>2. ASSUME NEW u \in Turns, TurnStep(u) PROVE InContext(t)'
  <2>1. /\ UNCHANGED requestVars /\ phase[u] # "replied"
        /\ \A p \in Turns : p # u => Same(p)
    BY <1>2, OthersStay DEF Context
  <2>2. CASE t = u
    BY <1>2, <2>1, <2>2, ActorInContext
  <2>3. CASE t # u
    BY <2>1, <2>3, UntouchedInContext
  <2> QED
    BY <2>2, <2>3
<1> QED
  BY <1>1, <1>2 DEF Next, vars, Tick, RotateAuth, Reconfigure

LEMMA ContextInvariant == Spec => []Context
<1> QED
  BY InitContext, NextContext, PTL DEF Spec

\* A turn that was let through carries the whole history it names and has the
\* owner and the route it was captured under, for every number of turns,
\* reconfigurations and rotations.
THEOREM ReplaysStayInContext == Spec => []ReplayStaysInContext
<1>1. Context => ReplayStaysInContext
  BY DEF Context, InContext, Follows, ReplayStaysInContext
<1> QED
  BY <1>1, ContextInvariant, PTL

-----------------------------------------------------------------------------
(* The tool calls of a replay *)

LEMMA InitAnswered == Init => ForwardedCallsAreAnswered
  BY DEF Init, ForwardedCallsAreAnswered

\* A turn goes upstream only through its route, which lets a continuation through
\* only when it closes the calls of its history; from then on nothing is added to
\* its transcript before it completes, and no other turn's step touches it.
LEMMA NextAnswered ==
    ASSUME Store, ForwardedCallsAreAnswered, [Next]_vars
    PROVE  ForwardedCallsAreAnswered'
<1> SUFFICES ASSUME NEW t \in Turns, previous'[t] # NoTurn, phase'[t] = "upstream"
             PROVE  PendingCalls(transcript'[t]) = {}
  BY DEF ForwardedCallsAreAnswered
<1>1. CASE Same(t)
  BY <1>1 DEF ForwardedCallsAreAnswered, Same
<1>2. CASE UNCHANGED <<snapshotVars, phase, transcript>>
  BY <1>1, <1>2 DEF Same, snapshotVars
<1>3. ASSUME NEW u \in Turns, TurnStep(u) PROVE PendingCalls(transcript'[t]) = {}
  <2>1. CASE t # u
    BY <1>1, <1>3, <2>1, OthersStay
  <2>2. CASE t = u /\ Route(u)
    <3> DEFINE p == previous[t]
    <3>1. previous'[t] = p
      BY <2>2 DEF Route, snapshotVars
    <3>2. p \in Turns
      BY <3>1 DEF Store, TypeOK
    <3>3. ContinuationAllowed(transcript[p], transcript[t])
          /\ transcript'[t] = transcript[p] \o transcript[t]
      BY <2>2, <3>1 DEF Store, TypeOK, Route, SetPhase, MayContinue
    <3>4. transcript[p] \in Seq(Items(CallIds)) /\ transcript[t] \in Seq(Items(CallIds))
      BY <3>2 DEF Store, TypeOK
    <3> QED
      BY <3>3, <3>4, ContinuationCloses
  <2>3. CASE t = u /\ StreamStarts(u)
    BY <1>2, <2>3 DEF StreamStarts
  <2>4. CASE t = u /\ ~ Route(u) /\ ~ StreamStarts(u)
    <3>1. phase'[t] # "upstream"
      BY <1>3, <2>4
      DEF TurnStep, Store, TypeOK, Begin, Lookup, Complete, Finish, Commit, SetPhase
    <3> QED
      BY <3>1
  <2> QED
    BY <2>1, <2>2, <2>3, <2>4
<1> QED
  BY <1>2, <1>3 DEF Next, vars, Tick, RotateAuth, Reconfigure

\* What goes upstream as a continuation leaves no tool call open, whatever was
\* stored and whatever the client sent, for transcripts of every length.
THEOREM ForwardedAreAnswered == Spec => []ForwardedCallsAreAnswered
<1>1. Store /\ ForwardedCallsAreAnswered /\ [Next]_vars => ForwardedCallsAreAnswered'
  BY NextAnswered
<1> QED
  BY <1>1, InitAnswered, StoreInvariant, PTL DEF Spec

\* The validation of a continuation is exact on every transcript that can be
\* stored or sent.
THEOREM ValidationsAreExact == Spec => []ValidationIsExact
<1>1. TypeOK => ValidationIsExact
  <2> SUFFICES ASSUME TypeOK, NEW t \in Turns, previous[t] # NoTurn
               PROVE  ContinuationAllowed(transcript[previous[t]], transcript[t])
                        <=> AnswersThenMessages(transcript[previous[t]], transcript[t])
    BY DEF ValidationIsExact
  <2>1. previous[t] \in Turns
    BY DEF TypeOK
  <2>2. transcript[previous[t]] \in Seq(Items(CallIds)) /\ transcript[t] \in Seq(Items(CallIds))
    BY <2>1 DEF TypeOK
  <2> QED
    BY <2>2, ContinuationIsExact
<1> QED
  BY <1>1, TypesHold, PTL
=============================================================================
