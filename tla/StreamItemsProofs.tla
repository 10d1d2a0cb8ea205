------------------------- MODULE StreamItemsProofs -------------------------
(***************************************************************************)
(* The output items of a Responses client are paired and add up, proved    *)
(* for every upstream that is translated to it, every number of calls and  *)
(* of events, and every answer of the upstream. With the blocks of         *)
(* StreamTranslationProofs this is all of PartsArePaired.                  *)
(*                                                                         *)
(* Account relates what the client has got to itself, Holding to what the  *)
(* sink remembers of its items, ChatKnows and UsesKnown to what the        *)
(* upstream has said. ItemsInv is the three of them at each phase.         *)
(***************************************************************************)
EXTENDS StreamTranslationProofs

-----------------------------------------------------------------------------
(* Texts, one after another *)

LEMMA Joining ==
    ASSUME NEW l, IsList(l), NEW m, IsList(m)
    PROVE  /\ IsList(l \o m) /\ Len(l \o m) = Len(l) + Len(m)
           /\ \A i \in 1..Len(l) : (l \o m)[i] = l[i]
           /\ \A i \in 1..Len(m) : (l \o m)[Len(l) + i] = m[i]
           /\ l \o <<>> = l /\ <<>> \o l = l
<1> DEFINE T == {l[i] : i \in 1..Len(l)} \cup {m[i] : i \in 1..Len(m)}
<1>1. l \in [1..Len(l) -> T] /\ m \in [1..Len(m) -> T] /\ Len(l) \in Nat /\ Len(m) \in Nat
  BY DEF IsList
<1>2. l \in Seq(T) /\ m \in Seq(T)
  BY <1>1
<1> HIDE DEF T
<1>3. l \o m \in Seq(T) /\ Len(l \o m) = Len(l) + Len(m)
  BY <1>2
<1>4. IsList(l \o m)
  BY <1>3, SequencesAreLists
<1>5. ASSUME NEW i \in 1..Len(l) PROVE (l \o m)[i] = l[i]
  BY <1>2
<1>6. ASSUME NEW i \in 1..Len(m) PROVE (l \o m)[Len(l) + i] = m[i]
  BY <1>2
<1>7. l \o <<>> = l /\ <<>> \o l = l
  BY <1>2
<1> QED
  BY <1>3, <1>4, <1>5, <1>6, <1>7

LEMMA Cutting ==
    ASSUME NEW l, IsList(l), NEW a \in Nat, NEW b \in Int
    PROVE  IsList(SubSeq(l, a + 1, b)) \/ b > Len(l)
<1> DEFINE T == {l[i] : i \in 1..Len(l)}
<1>1. l \in [1..Len(l) -> T] /\ Len(l) \in Nat
  BY DEF IsList
<1>2. l \in Seq(T)
  BY <1>1
<1> HIDE DEF T
<1>3. ASSUME b <= Len(l) PROVE SubSeq(l, a + 1, b) \in Seq(T)
  <2>1. CASE a + 1 > b
    BY <1>2, <2>1
  <2>2. CASE a + 1 <= b
    BY <1>2, <1>3, <2>2
  <2> QED
    BY <2>1, <2>2
<1>4. ASSUME b <= Len(l) PROVE IsList(SubSeq(l, a + 1, b))
  BY <1>3, <1>4, SequencesAreLists
<1> QED
  BY <1>1, <1>4

\* The function of FlattenSeq, up to the n-th list.
Flattens(f, l, n) == f = [i \in 1..n |-> IF i = 1 THEN l[i] ELSE f[i - 1] \o l[i]]

LEMMA FlatteningExists ==
    ASSUME NEW l, NEW n \in Nat
    PROVE  \E f : Flattens(f, l, n)
<1> DEFINE Fine == {m \in Nat : \E f : Flattens(f, l, m)}
<1>1. 0 \in Fine
  <2> DEFINE f == [i \in 1..0 |-> <<>>]
  <2>1. Flattens(f, l, 0)
    BY DEF Flattens
  <2> HIDE DEF f
  <2> QED
    BY <2>1
<1>2. ASSUME NEW m \in Nat, m \in Fine PROVE m + 1 \in Fine
  <2>1. PICK g : Flattens(g, l, m)
    BY <1>2
  <2> DEFINE h == [i \in 1..(m + 1) |-> IF i = m + 1 THEN IF i = 1 THEN l[i] ELSE g[m] \o l[i] ELSE g[i]]
  <2>2. ASSUME NEW i \in 1..(m + 1) PROVE h[i] = IF i = 1 THEN l[i] ELSE h[i - 1] \o l[i]
    <3>1. CASE i = m + 1
      <4>1. i # 1 => h[i - 1] = g[m]
        BY <3>1
      <4> QED
        BY <3>1, <4>1
    <3>2. CASE i # m + 1
      <4>1. i \in 1..m /\ h[i] = g[i] /\ (i # 1 => h[i - 1] = g[i - 1])
        BY <3>2
      <4>2. g[i] = IF i = 1 THEN l[i] ELSE g[i - 1] \o l[i]
        BY <2>1, <4>1 DEF Flattens
      <4> QED
        BY <4>1, <4>2
    <3> QED
      BY <3>1, <3>2
  <2>3. h = [i \in 1..(m + 1) |-> IF i = 1 THEN l[i] ELSE h[i - 1] \o l[i]]
    <3>1. h = [i \in 1..(m + 1) |-> h[i]]
      OBVIOUS
    <3> HIDE DEF h
    <3> QED
      BY <2>2, <3>1
  <2>4. Flattens(h, l, m + 1)
    BY <2>3 DEF Flattens
  <2> HIDE DEF h
  <2> QED
    BY <2>4
<1> HIDE DEF Fine
<1>3. n \in Fine
  BY <1>1, <1>2, AllNumbers
<1> QED
  BY <1>3 DEF Fine

LEMMA FlatteningAgrees ==
    ASSUME NEW l, NEW m, NEW n \in Nat, NEW k \in Nat, n <= k, \A i \in 1..n : m[i] = l[i],
           NEW f, Flattens(f, l, n), NEW g, Flattens(g, m, k)
    PROVE  \A i \in 1..n : f[i] = g[i]
<1> DEFINE Fine == {i \in Nat : i \in 1..n => f[i] = g[i]}
<1>1. 0 \in Fine
  OBVIOUS
<1>2. ASSUME NEW i \in Nat, i \in Fine PROVE i + 1 \in Fine
  <2>1. ASSUME i + 1 \in 1..n PROVE f[i + 1] = g[i + 1]
    <3>1. i + 1 \in 1..k /\ (i + 1) - 1 = i /\ m[i + 1] = l[i + 1]
      BY <2>1
    <3>2. f[i + 1] = IF i + 1 = 1 THEN l[i + 1] ELSE f[i] \o l[i + 1]
      BY <2>1, <3>1 DEF Flattens
    <3>3. g[i + 1] = IF i + 1 = 1 THEN m[i + 1] ELSE g[i] \o m[i + 1]
      BY <3>1 DEF Flattens
    <3>4. i + 1 # 1 => f[i] = g[i]
      BY <1>2, <2>1
    <3> QED
      BY <3>1, <3>2, <3>3, <3>4
  <2> QED
    BY <2>1
<1> HIDE DEF Fine
<1>3. \A i \in Nat : i \in Fine
  BY <1>1, <1>2, AllNumbers
<1> QED
  BY <1>3 DEF Fine

LEMMA FlatteningOneMore ==
    ASSUME NEW l, IsList(l), NEW x, IsList(x)
    PROVE  /\ FlattenSeq(Append(l, x)) = FlattenSeq(l) \o x
           /\ Len(l) = 0 => FlattenSeq(l) = <<>>
<1> DEFINE m == Append(l, x)
           n == Len(l)
<1>1. n \in Nat /\ IsList(m) /\ Len(m) = n + 1 /\ m[n + 1] = x /\ \A i \in 1..n : m[i] = l[i]
  BY Appending DEF IsList
<1>2. n = 0 => l = <<>>
  BY DEF IsList
<1> HIDE DEF m
<1>3. PICK g : g = CHOOSE f : Flattens(f, m, n + 1)
  OBVIOUS
<1>4. Flattens(g, m, n + 1)
  <2>1. n + 1 \in Nat
    BY <1>1
  <2>2. \E f : Flattens(f, m, n + 1)
    BY <2>1, FlatteningExists
  <2> QED
    BY <1>3, <2>2, Zenon
<1>5. PICK f : f = CHOOSE h : Flattens(h, l, n)
  OBVIOUS
<1>6. Flattens(f, l, n)
  <2>1. \E h : Flattens(h, l, n)
    BY <1>1, FlatteningExists
  <2> QED
    BY <1>5, <2>1, Zenon
<1>7. FlattenSeq(m) = g[n + 1]
  <2>1. Len(m) # 0
    BY <1>1
  <2>2. FlattenSeq(m) = (CHOOSE h : Flattens(h, m, Len(m)))[Len(m)]
    BY <2>1 DEF FlattenSeq, Flattens
  <2> QED
    BY <1>1, <1>3, <2>2
<1>8. FlattenSeq(l) = IF n = 0 THEN <<>> ELSE f[n]
  <2>1. FlattenSeq(l) = IF n = 0 THEN l ELSE (CHOOSE h : Flattens(h, l, n))[n]
    BY DEF FlattenSeq, Flattens
  <2> QED
    BY <1>2, <1>5, <2>1
<1>9. g[n + 1] = IF n = 0 THEN x ELSE g[n] \o x
  <2>1. n + 1 \in 1..(n + 1) /\ (n + 1) - 1 = n /\ (n + 1 = 1 <=> n = 0)
    BY <1>1
  <2>2. g[n + 1] = IF n + 1 = 1 THEN m[n + 1] ELSE g[(n + 1) - 1] \o m[n + 1]
    BY <1>4, <2>1 DEF Flattens
  <2> QED
    BY <1>1, <2>1, <2>2
<1> HIDE DEF n
<1>10. n # 0 => g[n] = f[n]
  <2>1. n + 1 \in Nat /\ n <= n + 1 /\ (n # 0 => n \in 1..n)
    BY <1>1
  <2>2. \A i \in 1..n : m[i] = l[i]
    BY <1>1
  <2>3. \A i \in 1..n : f[i] = g[i]
    <3>1. PICK k : k = n + 1
      OBVIOUS
    <3>2. k \in Nat /\ n \in Nat /\ n <= k /\ Flattens(g, m, k)
      BY <1>1, <1>4, <2>1, <3>1
    <3> QED
      BY <1>6, <2>2, <3>2, FlatteningAgrees
  <2> QED
    BY <2>1, <2>3
<1>11. <<>> \o x = x
  BY Joining
<1>12. FlattenSeq(m) = FlattenSeq(l) \o x
  BY <1>7, <1>8, <1>9, <1>10, <1>11
<1> QED
  BY <1>8, <1>12 DEF m, n

-----------------------------------------------------------------------------
(* The items of a Responses stream *)

TextOf(e, x, part) == IF e.type = "delta" /\ e.index = x /\ e.part = part THEN e.text ELSE <<>>
SaidIn(l, x, part) == FlattenSeq([i \in 1..Len(l) |-> TextOf(l[i], x, part)])

Adds(l) == {i \in 1..Len(l) : l[i].type = "item_added"}
Dones(l) == {i \in 1..Len(l) : l[i].type = "item_done"}
AddedIn(l) == {<<l[i].index, l[i].kind>> : i \in Adds(l)}
DoneIn(l) == {[index |-> l[i].index, item |-> l[i].item] : i \in Dones(l)}

PartsOf(item) ==
    IF item.kind = "message" THEN ToSet(item.body) ELSE {[kind |-> item.kind, text |-> item.body]}

\* ItemsArePaired of a list of events.
ItemsPaired(l) ==
    /\ \A i, j \in Adds(l) : l[i].index = l[j].index => i = j
    /\ \A i \in 1..Len(l) : l[i].type = "delta" =>
        /\ \E j \in Adds(l) : j < i /\ l[j].index = l[i].index
        /\ \A j \in Dones(l) : l[j].index = l[i].index => i < j
    /\ \A i, j \in Dones(l) : l[i].index = l[j].index => i = j
    /\ \A i \in Dones(l) :
        /\ \E j \in Adds(l) : j < i /\ l[j].index = l[i].index /\ l[j].kind = l[i].item.kind
        /\ \A part \in PartsOf(l[i].item) : part.text = SaidIn(l, l[i].index, part.kind)

\* An event that may come next.
Follows(l, e) ==
    /\ e.type = "item_added" => \A a \in AddedIn(l) : a[1] # e.index
    /\ e.type = "delta" =>
        /\ \E a \in AddedIn(l) : a[1] = e.index
        /\ \A d \in DoneIn(l) : d.index # e.index
        /\ IsList(e.text)
    /\ e.type = "item_done" =>
        /\ <<e.index, e.item.kind>> \in AddedIn(l)
        /\ \A d \in DoneIn(l) : d.index # e.index
        /\ \A part \in PartsOf(e.item) : part.text = SaidIn(l, e.index, part.kind)

\* The items so far, the next under index n.
Account(l, n) ==
    /\ IsList(l) /\ n \in Nat /\ ItemsPaired(l)
    /\ \A a \in AddedIn(l) : a[1] \in Nat /\ a[1] < n
    /\ \A x, part : IsList(SaidIn(l, x, part))
    /\ \A x, part : (\A a \in AddedIn(l) : a[1] # x) => SaidIn(l, x, part) = <<>>
    /\ \A i \in 1..Len(l) : l[i].type \notin {"completed", "incomplete"}

LEMMA AddsGrow ==
    ASSUME NEW l, IsList(l), NEW e
    PROVE  /\ Adds(Append(l, e)) = Adds(l) \cup (IF e.type = "item_added" THEN {Len(l) + 1} ELSE {})
           /\ Dones(Append(l, e)) = Dones(l) \cup (IF e.type = "item_done" THEN {Len(l) + 1} ELSE {})
           /\ AddedIn(Append(l, e)) = AddedIn(l) \cup (IF e.type = "item_added" THEN {<<e.index, e.kind>>} ELSE {})
           /\ DoneIn(Append(l, e)) = DoneIn(l) \cup
                (IF e.type = "item_done" THEN {[index |-> e.index, item |-> e.item]} ELSE {})
<1> DEFINE m == Append(l, e)
           n == Len(l)
<1>1. n \in Nat /\ Len(m) = n + 1 /\ m[n + 1] = e /\ \A i \in 1..n : m[i] = l[i]
  BY Appending DEF IsList
<1> HIDE DEF m
<1>2. /\ Adds(m) = Adds(l) \cup (IF e.type = "item_added" THEN {n + 1} ELSE {})
      /\ Dones(m) = Dones(l) \cup (IF e.type = "item_done" THEN {n + 1} ELSE {})
  BY <1>1 DEF Adds, Dones
<1>3. \A i \in Adds(l) \cup Dones(l) : i \in 1..n
  BY DEF Adds, Dones
<1>4. AddedIn(m) = AddedIn(l) \cup (IF e.type = "item_added" THEN {<<e.index, e.kind>>} ELSE {})
  BY <1>1, <1>2, <1>3 DEF AddedIn
<1>5. DoneIn(m) = DoneIn(l) \cup (IF e.type = "item_done" THEN {[index |-> e.index, item |-> e.item]} ELSE {})
  BY <1>1, <1>2, <1>3 DEF DoneIn
<1> QED
  BY <1>2, <1>4, <1>5 DEF m

LEMMA SaidGrows ==
    ASSUME NEW l, IsList(l), NEW e, NEW x, NEW part, e.type = "delta" => IsList(e.text)
    PROVE  /\ SaidIn(Append(l, e), x, part) = SaidIn(l, x, part) \o TextOf(e, x, part)
           /\ IsList(TextOf(e, x, part))
<1> DEFINE m == Append(l, e)
           n == Len(l)
           texts == [i \in 1..n |-> TextOf(l[i], x, part)]
           more == [i \in 1..(n + 1) |-> TextOf(m[i], x, part)]
           text == TextOf(e, x, part)
<1>1. n \in Nat /\ Len(m) = n + 1 /\ m[n + 1] = e /\ \A i \in 1..n : m[i] = l[i]
  BY Appending DEF IsList
<1>2. IsList(text)
  <2>1. <<>> \in Seq({})
    OBVIOUS
  <2>2. IsList(<<>>)
    BY <2>1, SequencesAreLists
  <2> QED
    BY <2>2 DEF TextOf
<1>3. SaidIn(m, x, part) = FlattenSeq(more) /\ SaidIn(l, x, part) = FlattenSeq(texts)
  BY <1>1 DEF SaidIn
<1>4. \A i \in 1..n : more[i] = texts[i]
  BY <1>1
<1>5. more[n + 1] = text
  BY <1>1
<1> HIDE DEF m, text
<1> DEFINE T == {texts[i] : i \in 1..n} \cup {text}
<1>6. texts \in [1..n -> T] /\ more \in [1..(n + 1) -> T] /\ text \in T
  BY <1>1, <1>4, <1>5
<1> HIDE DEF texts, more, T, n
<1>7. texts \in Seq(T) /\ Len(texts) = n /\ more \in Seq(T) /\ Len(more) = n + 1
  BY <1>1, <1>6
<1>8. more = Append(texts, text)
  <2>1. Append(texts, text) \in Seq(T) /\ Len(Append(texts, text)) = n + 1
    BY <1>6, <1>7
  <2>2. ASSUME NEW i \in 1..(n + 1) PROVE more[i] = Append(texts, text)[i]
    <3>1. CASE i = n + 1
      BY <1>5, <1>6, <1>7, <3>1
    <3>2. CASE i \in 1..n
      BY <1>4, <1>6, <1>7, <3>2
    <3>3. i = n + 1 \/ i \in 1..n
      BY <1>1
    <3> QED
      BY <3>1, <3>2, <3>3
  <2>3. IsList(more) /\ IsList(Append(texts, text))
    BY <1>7, <2>1, SequencesAreLists
  <2>4. /\ more = [i \in 1..(n + 1) |-> more[i]]
        /\ Append(texts, text) = [i \in 1..(n + 1) |-> Append(texts, text)[i]]
    BY <1>7, <2>1, <2>3 DEF IsList
  <2> QED
    BY <2>2, <2>4
<1>9. IsList(texts)
  BY <1>7, SequencesAreLists
<1>10. FlattenSeq(Append(texts, text)) = FlattenSeq(texts) \o text
  BY <1>2, <1>9, FlatteningOneMore
<1>11. SaidIn(m, x, part) = SaidIn(l, x, part) \o text
  BY <1>3, <1>8, <1>10
<1> QED
  BY <1>2, <1>11 DEF m, text

\* Only a delta is said.
LEMMA SaidStays ==
    ASSUME NEW l, NEW n, Account(l, n), NEW e, NEW x, NEW part, Follows(l, e),
           e.type # "delta" \/ e.index # x \/ e.part # part
    PROVE  SaidIn(Append(l, e), x, part) = SaidIn(l, x, part)
<1>1. IsList(l) /\ IsList(SaidIn(l, x, part)) /\ (e.type = "delta" => IsList(e.text))
  BY DEF Account, Follows
<1>2. TextOf(e, x, part) = <<>>
  BY DEF TextOf
<1>3. SaidIn(Append(l, e), x, part) = SaidIn(l, x, part) \o <<>>
  <2>1. SaidIn(Append(l, e), x, part) = SaidIn(l, x, part) \o TextOf(e, x, part)
    BY <1>1, SaidGrows
  <2> QED
    BY <1>2, <2>1
<1>4. SaidIn(l, x, part) \o <<>> = SaidIn(l, x, part)
  BY <1>1, Joining
<1> QED
  BY <1>3, <1>4

LEMMA ItemsGrow ==
    ASSUME NEW l, NEW n, Account(l, n), NEW e, Follows(l, e)
    PROVE  ItemsPaired(Append(l, e))
<1> DEFINE m == Append(l, e)
           last == Len(l) + 1
<1>1. /\ IsList(l) /\ Len(l) \in Nat /\ Len(m) = last /\ m[last] = e /\ \A i \in 1..Len(l) : m[i] = l[i]
  BY Appending DEF IsList, Account
<1>2. /\ Adds(m) = Adds(l) \cup (IF e.type = "item_added" THEN {last} ELSE {})
      /\ Dones(m) = Dones(l) \cup (IF e.type = "item_done" THEN {last} ELSE {})
  BY <1>1, AddsGrow
<1>3. \A i \in Adds(l) \cup Dones(l) : i \in 1..Len(l) /\ m[i] = l[i] /\ i < last
  BY <1>1 DEF Adds, Dones
<1>4. /\ \A i \in Adds(l) : l[i].type = "item_added" /\ <<l[i].index, l[i].kind>> \in AddedIn(l)
      /\ \A i \in Dones(l) : l[i].type = "item_done" /\ [index |-> l[i].index, item |-> l[i].item] \in DoneIn(l)
      /\ \A a \in AddedIn(l) : \E i \in Adds(l) : a = <<l[i].index, l[i].kind>>
      /\ \A i \in 1..Len(l) : l[i].type = "item_done" => i \in Dones(l)
  BY DEF Adds, Dones, AddedIn, DoneIn
<1>5. ItemsPaired(l)
  BY DEF Account
<1>6. \A x, part : e.type # "delta" \/ e.index # x => SaidIn(m, x, part) = SaidIn(l, x, part)
  BY SaidStays
<1> HIDE DEF m
<1>7. \A i \in Adds(l) : e.type = "item_added" => l[i].index # e.index
  BY <1>4 DEF Follows
<1>8. \A i \in Dones(l) : e.type \in {"delta", "item_done"} => l[i].index # e.index
  BY <1>4 DEF Follows
<1>9. \A i, j \in Adds(m) : m[i].index = m[j].index => i = j
  BY <1>1, <1>2, <1>3, <1>5, <1>7 DEF ItemsPaired
<1>10. \A i, j \in Dones(m) : m[i].index = m[j].index => i = j
  BY <1>1, <1>2, <1>3, <1>5, <1>8 DEF ItemsPaired
<1>11. ASSUME NEW i \in 1..last, m[i].type = "delta"
       PROVE  /\ \E j \in Adds(m) : j < i /\ m[j].index = m[i].index
              /\ \A j \in Dones(m) : m[j].index = m[i].index => i < j
  <2>1. CASE i = last
    <3>1. m[i] = e /\ e.type = "delta"
      BY <1>1, <1>11, <2>1
    <3>2. PICK a \in AddedIn(l) : a[1] = e.index
      BY <3>1 DEF Follows
    <3>3. PICK j \in Adds(l) : a = <<l[j].index, l[j].kind>>
      BY <1>4
    <3>4. l[j].index = e.index
      BY <3>2, <3>3
    <3>5. j \in Adds(m) /\ j < i /\ m[j].index = m[i].index
      BY <1>2, <1>3, <2>1, <3>1, <3>4
    <3>6. ASSUME NEW k \in Dones(m), m[k].index = m[i].index PROVE FALSE
      <4>1. k \in Dones(l)
        BY <1>2, <3>1
      <4> QED
        BY <1>3, <1>8, <3>1, <3>6, <4>1
    <3> QED
      BY <3>5, <3>6
  <2>2. CASE i \in 1..Len(l)
    <3>1. m[i] = l[i] /\ l[i].type = "delta" /\ i < last
      BY <1>1, <1>11, <2>2
    <3>2. PICK j \in Adds(l) : j < i /\ l[j].index = l[i].index
      BY <1>5, <2>2, <3>1 DEF ItemsPaired
    <3>3. j \in Adds(m) /\ m[j].index = m[i].index
      BY <1>2, <1>3, <3>1, <3>2
    <3>4. ASSUME NEW k \in Dones(m), m[k].index = m[i].index PROVE i < k
      <4>1. CASE k \in Dones(l)
        BY <1>3, <1>5, <2>2, <3>1, <3>4, <4>1 DEF ItemsPaired
      <4> QED
        BY <1>2, <3>1, <4>1
    <3> QED
      BY <3>2, <3>3, <3>4
  <2> QED
    BY <1>1, <2>1, <2>2
<1>12. ASSUME NEW i \in Dones(m)
       PROVE  /\ \E j \in Adds(m) : j < i /\ m[j].index = m[i].index /\ m[j].kind = m[i].item.kind
              /\ \A part \in PartsOf(m[i].item) : part.text = SaidIn(m, m[i].index, part.kind)
  <2>1. CASE i \in Dones(l)
    <3>1. m[i] = l[i] /\ i < last
      BY <1>3, <2>1
    <3>2. PICK j \in Adds(l) : j < i /\ l[j].index = l[i].index /\ l[j].kind = l[i].item.kind
      BY <1>5, <2>1 DEF ItemsPaired
    <3>3. j \in Adds(m) /\ m[j] = l[j]
      BY <1>2, <1>3
    <3>4. ASSUME NEW part \in PartsOf(l[i].item) PROVE part.text = SaidIn(m, l[i].index, part.kind)
      <4>1. part.text = SaidIn(l, l[i].index, part.kind)
        BY <1>5, <2>1 DEF ItemsPaired
      <4>2. e.type # "delta" \/ e.index # l[i].index
        BY <1>8, <2>1
      <4> QED
        BY <1>6, <4>1, <4>2
    <3> QED
      BY <3>1, <3>2, <3>3, <3>4
  <2>2. CASE i = last /\ e.type = "item_done"
    <3>1. m[i] = e
      BY <1>1, <2>2
    <3>2. PICK j \in Adds(l) : <<e.index, e.item.kind>> = <<l[j].index, l[j].kind>>
      BY <1>4, <2>2 DEF Follows
    <3>3. l[j].index = e.index /\ l[j].kind = e.item.kind
      BY <3>2
    <3>4. j \in Adds(m) /\ j < i /\ m[j] = l[j]
      BY <1>2, <1>3, <2>2
    <3>5. \A part \in PartsOf(e.item) : part.text = SaidIn(m, e.index, part.kind)
      BY <1>6, <2>2 DEF Follows
    <3> QED
      BY <3>1, <3>3, <3>4, <3>5
  <2> QED
    BY <1>2, <2>1, <2>2
<1> HIDE DEF last
<1>13. ItemsPaired(m)
  BY <1>1, <1>9, <1>10, <1>11, <1>12 DEF ItemsPaired
<1> QED
  BY <1>13 DEF m

LEMMA AccountGrows ==
    ASSUME NEW l, NEW n, Account(l, n), NEW e, Follows(l, e),
           e.type \notin {"completed", "incomplete"},
           e.type = "item_added" => e.index \in Nat /\ e.index < n
    PROVE  Account(Append(l, e), n)
<1> DEFINE m == Append(l, e)
<1>1. /\ IsList(l) /\ IsList(m) /\ Len(l) \in Nat /\ Len(m) = Len(l) + 1 /\ m[Len(l) + 1] = e
      /\ \A i \in 1..Len(l) : m[i] = l[i]
  BY Appending DEF IsList, Account
<1>2. ItemsPaired(m)
  BY ItemsGrow
<1>3. AddedIn(m) = AddedIn(l) \cup (IF e.type = "item_added" THEN {<<e.index, e.kind>>} ELSE {})
  BY <1>1, AddsGrow
<1>4. \A a \in AddedIn(m) : a[1] \in Nat /\ a[1] < n
  BY <1>3 DEF Account
<1>5. ASSUME NEW x, NEW part
      PROVE  IsList(SaidIn(m, x, part)) /\ ((\A a \in AddedIn(m) : a[1] # x) => SaidIn(m, x, part) = <<>>)
  <2>1. IsList(SaidIn(l, x, part)) /\ (e.type = "delta" => IsList(e.text))
    BY DEF Account, Follows
  <2>2. SaidIn(m, x, part) = SaidIn(l, x, part) \o TextOf(e, x, part) /\ IsList(TextOf(e, x, part))
    BY <1>1, <2>1, SaidGrows
  <2>3. IsList(SaidIn(m, x, part))
    BY <2>1, <2>2, Joining
  <2>4. ASSUME \A a \in AddedIn(m) : a[1] # x PROVE SaidIn(m, x, part) = <<>>
    <3>1. \A a \in AddedIn(l) : a[1] # x
      BY <1>3, <2>4
    <3>2. e.type # "delta" \/ e.index # x
      BY <3>1 DEF Follows
    <3>3. SaidIn(m, x, part) = SaidIn(l, x, part)
      BY <3>2, SaidStays
    <3> QED
      BY <3>1, <3>3 DEF Account
  <2> QED
    BY <2>3, <2>4
<1>6. \A i \in 1..Len(m) : m[i].type \notin {"completed", "incomplete"}
  BY <1>1 DEF Account
<1> HIDE DEF m
<1>7. Account(m, n)
  BY <1>1, <1>2, <1>4, <1>5, <1>6 DEF Account
<1> QED
  BY <1>7 DEF m

-----------------------------------------------------------------------------
(* The items that the sink knows *)

\* Items that were added and are not done.
OpenItems(l) == {a \in AddedIn(l) : \A d \in DoneIn(l) : d.index # a[1]}

ItemFields ==
    {"out", "nextOutput", "reasoning", "message", "completedMessages", "toolCalls", "finish", "seen", "fatal",
     "terminalSent", "usage", "responsesStarted", "roleSent", "claudeToolUses", "claudeToolUseIndex"}

\* over: the reasoning item is done.
OpenReasoning(s, over) == IF over \/ s.reasoning.index = None THEN {} ELSE {<<s.reasoning.index, "reasoning">>}
OpenMessage(s) == IF s.message.index = None THEN {} ELSE {<<s.message.index, "message">>}
OpenCalls(calls) ==
    {<<calls[i].block, TypeOf(calls[i])>> : i \in {j \in DOMAIN calls : calls[j].added /\ ~ calls[j].done}}
DoneReasoning(s, over) ==
    IF over /\ s.reasoning.index # None THEN {[index |-> s.reasoning.index, item |-> ReasoningItem(s)]} ELSE {}
DoneCalls(calls, finish) ==
    {[index |-> calls[i].block, item |-> CallItem(calls[i], finish)] : i \in {j \in DOMAIN calls : calls[j].done}}

IsCall(call) ==
    /\ DOMAIN call = DOMAIN NewCall
    /\ IsList(call.args) /\ TypeOf(call) \in {"function", "custom"}
    /\ call.added \in BOOLEAN /\ call.done \in BOOLEAN /\ call.customDone \in BOOLEAN

\* What a call's item is in, if it has one.
CallFits(call, l, n) ==
    /\ IsCall(call)
    /\ call.block # None => call.block \in Nat /\ call.block < n
    /\ call.added => call.block # None /\ call.id # None
    /\ call.done => call.added
    /\ ~ call.added => \A a \in AddedIn(l) : a[1] # call.block
    /\ call.added /\ ~ call.done => SaidIn(l, call.block, TypeOf(call)) = call.args

CallsFit(calls, l, n) ==
    /\ Bounded(DOMAIN calls) /\ \A i \in DOMAIN calls : CallFits(calls[i], l, n)
    /\ \A i, j \in DOMAIN calls : calls[i].block # None /\ calls[i].block = calls[j].block => i = j

ReasoningFits(reasoning, l) ==
    /\ DOMAIN reasoning = {"index", "text"} /\ IsList(reasoning.text)
    /\ reasoning.text = IF reasoning.index = None THEN <<>> ELSE SaidIn(l, reasoning.index, "reasoning")

MessageFits(message, l) ==
    /\ DOMAIN message = {"index", "parts"} /\ IsList(message.parts)
    /\ \A i \in 1..Len(message.parts) :
        LET part == message.parts[i]
        IN /\ DOMAIN part = {"kind", "text"} /\ IsList(part.text)
           /\ \A j \in 1..Len(message.parts) : message.parts[j].kind = part.kind => j = i
           /\ message.index # None /\ part.text = SaidIn(l, message.index, part.kind)
    /\ message.index # None =>
        \A kind : (\A i \in 1..Len(message.parts) : message.parts[i].kind # kind) => SaidIn(l, message.index, kind) = <<>>

Holding(s, over) ==
    /\ ItemFields \subseteq DOMAIN s
    /\ Account(s.out, s.nextOutput)
    /\ ReasoningFits(s.reasoning, s.out) /\ MessageFits(s.message, s.out)
    /\ CallsFit(s.toolCalls, s.out, s.nextOutput)
    /\ IsList(s.completedMessages)
    /\ OpenItems(s.out) = OpenReasoning(s, over) \cup OpenMessage(s) \cup OpenCalls(s.toolCalls)
    /\ DoneIn(s.out) = DoneReasoning(s, over) \cup ToSet(s.completedMessages) \cup DoneCalls(s.toolCalls, s.finish)

\* What a sink's step leaves alone.
Frame(s, t) ==
    /\ t.finish = s.finish /\ t.seen = s.seen /\ t.fatal = s.fatal /\ t.terminalSent = s.terminalSent
    /\ t.roleSent = s.roleSent /\ t.claudeToolUses = s.claudeToolUses
    /\ t.claudeToolUseIndex = s.claudeToolUseIndex

Notes(s, t) == Holding(t, FALSE) /\ Frame(s, t) /\ t.toolCalls = s.toolCalls

\* An index is that of one item.
LEMMA OneKind ==
    ASSUME NEW l, NEW n, Account(l, n)
    PROVE  /\ \A a, b \in AddedIn(l) : a[1] = b[1] => a = b
           /\ \A d \in DoneIn(l) : \E a \in AddedIn(l) : a = <<d.index, d.item.kind>>
           /\ \A d, e \in DoneIn(l) : d.index = e.index => d = e
<1>1. ItemsPaired(l)
  BY DEF Account
<1>2. ASSUME NEW a \in AddedIn(l), NEW b \in AddedIn(l), a[1] = b[1] PROVE a = b
  <2>1. PICK i \in Adds(l) : a = <<l[i].index, l[i].kind>>
    BY DEF AddedIn
  <2>2. PICK j \in Adds(l) : b = <<l[j].index, l[j].kind>>
    BY DEF AddedIn
  <2>3. l[i].index = l[j].index
    BY <1>2, <2>1, <2>2
  <2> QED
    BY <1>1, <2>1, <2>2, <2>3 DEF ItemsPaired
<1>3. ASSUME NEW d \in DoneIn(l) PROVE \E a \in AddedIn(l) : a = <<d.index, d.item.kind>>
  <2>1. PICK i \in Dones(l) : d = [index |-> l[i].index, item |-> l[i].item]
    BY DEF DoneIn
  <2>2. PICK j \in Adds(l) : l[j].index = l[i].index /\ l[j].kind = l[i].item.kind
    BY <1>1 DEF ItemsPaired
  <2> QED
    BY <2>1, <2>2 DEF AddedIn
<1>4. ASSUME NEW d \in DoneIn(l), NEW e \in DoneIn(l), d.index = e.index PROVE d = e
  <2>1. PICK i \in Dones(l) : d = [index |-> l[i].index, item |-> l[i].item]
    BY DEF DoneIn
  <2>2. PICK j \in Dones(l) : e = [index |-> l[j].index, item |-> l[j].item]
    BY DEF DoneIn
  <2>3. l[i].index = l[j].index
    BY <1>4, <2>1, <2>2
  <2> QED
    BY <1>1, <2>1, <2>2, <2>3 DEF ItemsPaired
<1> QED
  BY <1>2, <1>3, <1>4

LEMMA OpenGrow ==
    ASSUME NEW l, NEW n, Account(l, n), NEW e, Follows(l, e)
    PROVE  /\ e.type = "item_added" => OpenItems(Append(l, e)) = OpenItems(l) \cup {<<e.index, e.kind>>}
           /\ e.type = "item_done" => OpenItems(Append(l, e)) = OpenItems(l) \ {<<e.index, e.item.kind>>}
           /\ e.type \notin {"item_added", "item_done"} => OpenItems(Append(l, e)) = OpenItems(l)
<1> DEFINE m == Append(l, e)
<1>1. /\ AddedIn(m) = AddedIn(l) \cup (IF e.type = "item_added" THEN {<<e.index, e.kind>>} ELSE {})
      /\ DoneIn(m) = DoneIn(l) \cup (IF e.type = "item_done" THEN {[index |-> e.index, item |-> e.item]} ELSE {})
  BY AddsGrow DEF Account
<1> HIDE DEF m
<1>2. ASSUME e.type = "item_added" PROVE OpenItems(m) = OpenItems(l) \cup {<<e.index, e.kind>>}
  <2>1. AddedIn(m) = AddedIn(l) \cup {<<e.index, e.kind>>} /\ DoneIn(m) = DoneIn(l)
    BY <1>1, <1>2
  <2>2. \A d \in DoneIn(l) : d.index # e.index
    <3>1. ASSUME NEW d \in DoneIn(l) PROVE d.index # e.index
      <4>1. PICK a \in AddedIn(l) : a = <<d.index, d.item.kind>>
        BY OneKind
      <4>2. a[1] # e.index
        BY <1>2 DEF Follows
      <4> QED
        BY <4>1, <4>2
    <3> QED
      BY <3>1
  <2> QED
    BY <2>1, <2>2 DEF OpenItems
<1>3. ASSUME e.type = "item_done" PROVE OpenItems(m) = OpenItems(l) \ {<<e.index, e.item.kind>>}
  <2>1. AddedIn(m) = AddedIn(l) /\ DoneIn(m) = DoneIn(l) \cup {[index |-> e.index, item |-> e.item]}
    BY <1>1, <1>3
  <2>2. <<e.index, e.item.kind>> \in AddedIn(l)
    BY <1>3 DEF Follows
  <2>3. \A a \in AddedIn(l) : a[1] = e.index <=> a = <<e.index, e.item.kind>>
    BY <2>2, OneKind
  <2>4. \A a \in AddedIn(l) : (\A d \in DoneIn(m) : d.index # a[1]) <=>
                              (\A d \in DoneIn(l) : d.index # a[1]) /\ a[1] # e.index
    <3>1. PICK r : r = [index |-> e.index, item |-> e.item]
      OBVIOUS
    <3>2. r.index = e.index /\ DoneIn(m) = DoneIn(l) \cup {r}
      BY <2>1, <3>1
    <3> QED
      BY <3>2
  <2> QED
    BY <2>1, <2>3, <2>4 DEF OpenItems
<1>4. e.type \notin {"item_added", "item_done"} => OpenItems(m) = OpenItems(l)
  BY <1>1 DEF OpenItems
<1> QED
  BY <1>2, <1>3, <1>4 DEF m

\* An event of another item.
LEMMA CallsStay ==
    ASSUME NEW l, NEW n, Account(l, n), NEW calls, CallsFit(calls, l, n), NEW e, Follows(l, e),
           NEW k \in Nat, n <= k,
           e.type \in {"item_added", "delta"} => \A i \in DOMAIN calls : calls[i].block # e.index
    PROVE  CallsFit(calls, Append(l, e), k)
<1>1. AddedIn(Append(l, e)) = AddedIn(l) \cup (IF e.type = "item_added" THEN {<<e.index, e.kind>>} ELSE {})
  BY AddsGrow DEF Account
<1>2. ASSUME NEW i \in DOMAIN calls PROVE CallFits(calls[i], Append(l, e), k)
  <2> DEFINE call == calls[i]
  <2>1. CallFits(call, l, n) /\ n \in Nat
    BY DEF CallsFit, Account
  <2>2. call.block # None => call.block \in Nat /\ call.block < k
    BY <2>1 DEF CallFits
  <2>3. ~ call.added => \A a \in AddedIn(Append(l, e)) : a[1] # call.block
    BY <1>1, <2>1 DEF CallFits
  <2>4. SaidIn(Append(l, e), call.block, TypeOf(call)) = SaidIn(l, call.block, TypeOf(call))
    BY SaidStays
  <2> QED
    BY <2>1, <2>2, <2>3, <2>4 DEF CallFits
<1> QED
  BY <1>2 DEF CallsFit

LEMMA MoreOutputs ==
    ASSUME NEW l, NEW n, NEW k \in Nat, n <= k
    PROVE  /\ Account(l, n) => Account(l, k)
           /\ Account(l, n) => \A calls : CallsFit(calls, l, n) => CallsFit(calls, l, k)
<1>1. ASSUME Account(l, n) PROVE Account(l, k)
  BY <1>1 DEF Account
<1>2. ASSUME Account(l, n), NEW calls, CallsFit(calls, l, n) PROVE CallsFit(calls, l, k)
  <2>1. n \in Nat
    BY <1>2 DEF Account
  <2>2. ASSUME NEW i \in DOMAIN calls PROVE CallFits(calls[i], l, k)
    <3>1. CallFits(calls[i], l, n)
      BY <1>2 DEF CallsFit
    <3> QED
      BY <2>1, <3>1 DEF CallFits
  <2> QED
    BY <1>2, <2>2 DEF CallsFit
<1> QED
  BY <1>1, <1>2

LEMMA ReasoningStays ==
    ASSUME NEW l, NEW n, Account(l, n), NEW e, Follows(l, e), NEW reasoning, ReasoningFits(reasoning, l),
           e.type = "delta" => e.index # reasoning.index
    PROVE  ReasoningFits(reasoning, Append(l, e))
<1>1. SaidIn(Append(l, e), reasoning.index, "reasoning") = SaidIn(l, reasoning.index, "reasoning")
  BY SaidStays
<1> QED
  BY <1>1 DEF ReasoningFits

LEMMA MessageStays ==
    ASSUME NEW l, NEW n, Account(l, n), NEW e, Follows(l, e), NEW message, MessageFits(message, l),
           e.type = "delta" => e.index # message.index
    PROVE  MessageFits(message, Append(l, e))
<1>1. \A kind : SaidIn(Append(l, e), message.index, kind) = SaidIn(l, message.index, kind)
  BY SaidStays
<1> QED
  BY <1>1 DEF MessageFits

\* Every open item is of one owner.
LEMMA Owners ==
    ASSUME NEW s, NEW over, Holding(s, over)
    PROVE  /\ s.message.index # None => <<s.message.index, "message">> \in OpenItems(s.out)
           /\ ~ over /\ s.reasoning.index # None => <<s.reasoning.index, "reasoning">> \in OpenItems(s.out)
           /\ \A i \in DOMAIN s.toolCalls : LET call == s.toolCalls[i] IN
                /\ call.added /\ ~ call.done => <<call.block, TypeOf(call)>> \in OpenItems(s.out)
                /\ call.done => \E d \in DoneIn(s.out) : d.index = call.block
                /\ \A a \in OpenItems(s.out) : a[2] \notin {"function", "custom"} => a[1] # call.block
           /\ over /\ s.reasoning.index # None => \E d \in DoneIn(s.out) : d.index = s.reasoning.index
           /\ s.message.index # None => s.message.index # s.reasoning.index
           /\ s.message.index # None => s.message.index \in Nat /\ s.message.index < s.nextOutput
           /\ s.reasoning.index # None => s.reasoning.index \in Nat /\ s.reasoning.index < s.nextOutput
<1>0. /\ Account(s.out, s.nextOutput)
      /\ \A a \in AddedIn(s.out) : a[1] \in Nat /\ a[1] < s.nextOutput
      /\ \A i \in DOMAIN s.toolCalls : CallFits(s.toolCalls[i], s.out, s.nextOutput)
  BY DEF Holding, Account, CallsFit
<1>1. s.message.index # None => <<s.message.index, "message">> \in OpenItems(s.out)
  BY DEF Holding, OpenMessage
<1>2. ~ over /\ s.reasoning.index # None => <<s.reasoning.index, "reasoning">> \in OpenItems(s.out)
  BY DEF Holding, OpenReasoning
<1>3. over /\ s.reasoning.index # None => \E d \in DoneIn(s.out) : d.index = s.reasoning.index
  <2>1. over /\ s.reasoning.index # None =>
            [index |-> s.reasoning.index, item |-> ReasoningItem(s)] \in DoneIn(s.out)
    BY DEF Holding, DoneReasoning
  <2> QED
    BY <2>1
<1>4. \A a \in OpenItems(s.out) : a \in AddedIn(s.out) /\ \A d \in DoneIn(s.out) : d.index # a[1]
  BY DEF OpenItems
<1>5. ASSUME NEW i \in DOMAIN s.toolCalls
      PROVE  LET call == s.toolCalls[i] IN
                /\ call.added /\ ~ call.done => <<call.block, TypeOf(call)>> \in OpenItems(s.out)
                /\ call.done => \E d \in DoneIn(s.out) : d.index = call.block
                /\ \A a \in OpenItems(s.out) : a[2] \notin {"function", "custom"} => a[1] # call.block
  <2> DEFINE call == s.toolCalls[i]
  <2>1. call.added /\ ~ call.done => <<call.block, TypeOf(call)>> \in OpenItems(s.out)
    BY DEF Holding, OpenCalls
  <2>2. call.done => \E d \in DoneIn(s.out) : d.index = call.block
    <3>1. call.done => [index |-> call.block, item |-> CallItem(call, s.finish)] \in DoneIn(s.out)
      BY DEF Holding, DoneCalls
    <3> QED
      BY <3>1
  <2>3. CallFits(call, s.out, s.nextOutput)
    BY <1>0
  <2>4. ASSUME NEW a \in OpenItems(s.out), a[2] \notin {"function", "custom"}, a[1] = call.block PROVE FALSE
    <3>1. call.added /\ ~ call.done
      BY <1>4, <2>2, <2>3, <2>4 DEF CallFits
    <3>2. <<call.block, TypeOf(call)>> \in AddedIn(s.out)
      BY <1>4, <2>1, <3>1
    <3>3. a = <<call.block, TypeOf(call)>>
      BY <1>0, <1>4, <2>4, <3>2, OneKind
    <3> QED
      BY <2>3, <2>4, <3>3 DEF CallFits, IsCall
  <2> QED
    BY <2>1, <2>2, <2>4
<1>6. s.message.index # None => s.message.index # s.reasoning.index
  <2>1. SUFFICES ASSUME s.message.index # None, s.message.index = s.reasoning.index PROVE FALSE
    OBVIOUS
  <2>2. ~ over
    BY <1>1, <1>3, <1>4, <2>1
  <2>3. <<s.message.index, "message">> = <<s.reasoning.index, "reasoning">>
    BY <1>0, <1>1, <1>2, <1>4, <2>1, <2>2, OneKind
  <2> QED
    BY <2>3
<1>7. s.message.index # None => s.message.index \in Nat /\ s.message.index < s.nextOutput
  BY <1>0, <1>1, <1>4
<1>8. s.reasoning.index # None => s.reasoning.index \in Nat /\ s.reasoning.index < s.nextOutput
  <2>1. CASE over
    <3>1. \A d \in DoneIn(s.out) : \E a \in AddedIn(s.out) : a = <<d.index, d.item.kind>>
      BY <1>0, OneKind
    <3>2. \A d \in DoneIn(s.out) : d.index \in Nat /\ d.index < s.nextOutput
      BY <1>0, <3>1
    <3> QED
      BY <1>3, <2>1, <3>2
  <2>2. CASE ~ over
    BY <1>0, <1>2, <1>4, <2>2
  <2> QED
    BY <2>1, <2>2
<1> QED
  BY <1>1, <1>2, <1>3, <1>5, <1>6, <1>7, <1>8

IsBeside(e) == e.type \notin {"item_added", "delta", "item_done", "completed", "incomplete"}

\* An event that is of no item.
LEMMA BesideFollows ==
    ASSUME NEW l, NEW n, Account(l, n), NEW e, IsBeside(e)
    PROVE  /\ Follows(l, e) /\ Account(Append(l, e), n)
           /\ OpenItems(Append(l, e)) = OpenItems(l) /\ DoneIn(Append(l, e)) = DoneIn(l)
           /\ AddedIn(Append(l, e)) = AddedIn(l)
<1>1. Follows(l, e)
  BY DEF Follows, IsBeside
<1>2. Account(Append(l, e), n)
  BY <1>1, AccountGrows DEF IsBeside
<1>3. OpenItems(Append(l, e)) = OpenItems(l)
  BY <1>1, OpenGrow DEF IsBeside
<1>4. DoneIn(Append(l, e)) = DoneIn(l) /\ AddedIn(Append(l, e)) = AddedIn(l)
  <2>1. e.type # "item_added" /\ e.type # "item_done"
    BY DEF IsBeside
  <2>2. /\ AddedIn(Append(l, e)) = AddedIn(l) \cup (IF e.type = "item_added" THEN {<<e.index, e.kind>>} ELSE {})
        /\ DoneIn(Append(l, e)) = DoneIn(l) \cup
                (IF e.type = "item_done" THEN {[index |-> e.index, item |-> e.item]} ELSE {})
    BY AddsGrow DEF Account
  <2> QED
    BY <2>1, <2>2
<1> QED
  BY <1>1, <1>2, <1>3, <1>4

LEMMA BesideHolds ==
    ASSUME NEW s, NEW over, Holding(s, over), NEW e, IsBeside(e), NEW t, ItemFields \subseteq DOMAIN t,
           t.out = Append(s.out, e), t.nextOutput = s.nextOutput, t.reasoning = s.reasoning,
           t.completedMessages = s.completedMessages, t.message = s.message,
           t.toolCalls = s.toolCalls, t.finish = s.finish
    PROVE  Holding(t, over)
<1>1. Account(s.out, s.nextOutput) /\ s.nextOutput \in Nat /\ s.nextOutput <= s.nextOutput
  BY DEF Holding, Account
<1>2. /\ Follows(s.out, e) /\ Account(t.out, s.nextOutput)
      /\ OpenItems(t.out) = OpenItems(s.out) /\ DoneIn(t.out) = DoneIn(s.out)
  BY <1>1, BesideFollows
<1>3. e.type \notin {"item_added", "delta"}
  BY DEF IsBeside
<1>4. ReasoningFits(s.reasoning, t.out) /\ MessageFits(s.message, t.out)
  BY <1>1, <1>2, <1>3, ReasoningStays, MessageStays DEF Holding
<1>5. CallsFit(s.toolCalls, t.out, s.nextOutput)
  BY <1>1, <1>2, <1>3, CallsStay DEF Holding
<1>6. /\ OpenReasoning(t, over) = OpenReasoning(s, over) /\ OpenMessage(t) = OpenMessage(s)
      /\ DoneReasoning(t, over) = DoneReasoning(s, over)
  BY DEF OpenReasoning, OpenMessage, DoneReasoning, ReasoningItem
<1> QED
  BY <1>2, <1>4, <1>5, <1>6 DEF Holding

\* A new item takes the next index.
LEMMA NextIsNew ==
    ASSUME NEW s, NEW over, Holding(s, over), NEW e, e.type = "item_added", e.index = s.nextOutput
    PROVE  /\ Follows(s.out, e) /\ Account(Append(s.out, e), s.nextOutput + 1)
           /\ OpenItems(Append(s.out, e)) = OpenItems(s.out) \cup {<<s.nextOutput, e.kind>>}
           /\ DoneIn(Append(s.out, e)) = DoneIn(s.out)
           /\ CallsFit(s.toolCalls, Append(s.out, e), s.nextOutput + 1)
           /\ ReasoningFits(s.reasoning, Append(s.out, e)) /\ MessageFits(s.message, Append(s.out, e))
           /\ \A part : SaidIn(Append(s.out, e), s.nextOutput, part) = <<>>
<1> DEFINE n == s.nextOutput
<1>1. Account(s.out, n) /\ n \in Nat /\ n + 1 \in Nat /\ n <= n + 1 /\ n < n + 1
  BY DEF Holding, Account
<1>2. \A a \in AddedIn(s.out) : a[1] # n
  BY <1>1 DEF Account
<1>3. Follows(s.out, e)
  BY <1>2 DEF Follows
<1> HIDE DEF n
<1>4. Account(s.out, n + 1)
  BY <1>1, MoreOutputs
<1>5. Account(Append(s.out, e), n + 1)
  BY <1>1, <1>3, <1>4, AccountGrows DEF n
<1>6. /\ OpenItems(Append(s.out, e)) = OpenItems(s.out) \cup {<<n, e.kind>>}
      /\ DoneIn(Append(s.out, e)) = DoneIn(s.out)
  <2>1. OpenItems(Append(s.out, e)) = OpenItems(s.out) \cup {<<e.index, e.kind>>}
    BY <1>1, <1>3, OpenGrow
  <2>2. DoneIn(Append(s.out, e)) = DoneIn(s.out) \cup
                (IF e.type = "item_done" THEN {[index |-> e.index, item |-> e.item]} ELSE {})
    BY <1>1, AddsGrow DEF Account
  <2>3. DoneIn(Append(s.out, e)) = DoneIn(s.out)
    BY <2>2
  <2> QED
    BY <2>1, <2>3 DEF n
<1>7. CallsFit(s.toolCalls, Append(s.out, e), n + 1)
  <2>1. CallsFit(s.toolCalls, s.out, n)
    BY DEF Holding, n
  <2>2. ASSUME NEW i \in DOMAIN s.toolCalls PROVE s.toolCalls[i].block # e.index
    <3>1. CallFits(s.toolCalls[i], s.out, n)
      BY <2>1 DEF CallsFit
    <3> QED
      BY <1>1, <3>1, NoneAssumption DEF CallFits, n
  <2> QED
    BY <1>1, <1>3, <2>1, <2>2, CallsStay
<1>8. ReasoningFits(s.reasoning, Append(s.out, e)) /\ MessageFits(s.message, Append(s.out, e))
  BY <1>1, <1>3, ReasoningStays, MessageStays DEF Holding
<1>9. ASSUME NEW part PROVE SaidIn(Append(s.out, e), n, part) = <<>>
  <2>1. SaidIn(Append(s.out, e), n, part) = SaidIn(s.out, n, part)
    BY <1>1, <1>3, SaidStays
  <2> QED
    BY <1>1, <1>2, <2>1 DEF Account
<1> QED
  BY <1>3, <1>5, <1>6, <1>7, <1>8, <1>9 DEF n

LEMMA MessageIsAdded ==
    ASSUME NEW s, Holding(s, FALSE)
    PROVE  Notes(s, EnsureMessage(s)) /\ EnsureMessage(s).message.index # None
<1>1. CASE s.message.index # None
  BY <1>1 DEF EnsureMessage, Notes, Frame
<1>2. CASE s.message.index = None
  <2> DEFINE n == s.nextOutput
             e == ItemAdded(n, "message", None)
             t == [Send(s, e) EXCEPT !.message.index = n, !.nextOutput = @ + 1]
  <2>1. EnsureMessage(s) = t
    BY <1>2 DEF EnsureMessage
  <2>2. ItemFields \subseteq DOMAIN s
    BY DEF Holding
  <2>3. /\ DOMAIN t = DOMAIN s /\ t.out = Append(s.out, e) /\ t.nextOutput = n + 1
        /\ t.message = [s.message EXCEPT !.index = n]
        /\ \A f \in ItemFields \ {"out", "nextOutput", "message"} : t[f] = s[f]
    BY <2>2 DEF Send, ItemFields
  <2>4. e.type = "item_added" /\ e.index = n /\ e.kind = "message"
    BY DEF ItemAdded
  <2> HIDE DEF t, e
  <2>5. /\ t.reasoning = s.reasoning /\ t.completedMessages = s.completedMessages /\ t.toolCalls = s.toolCalls
        /\ Frame(s, t)
    BY <2>3 DEF ItemFields, Frame
  <2>6. /\ Account(t.out, n + 1) /\ CallsFit(s.toolCalls, t.out, n + 1) /\ ReasoningFits(s.reasoning, t.out)
        /\ OpenItems(t.out) = OpenItems(s.out) \cup {<<n, "message">>} /\ DoneIn(t.out) = DoneIn(s.out)
        /\ \A part : SaidIn(t.out, n, part) = <<>>
    <3> DEFINE m == Append(s.out, e)
    <3>1. /\ Account(m, n + 1) /\ CallsFit(s.toolCalls, m, n + 1) /\ ReasoningFits(s.reasoning, m)
          /\ OpenItems(m) = OpenItems(s.out) \cup {<<n, e.kind>>} /\ DoneIn(m) = DoneIn(s.out)
          /\ \A part : SaidIn(m, n, part) = <<>>
      BY <2>4, NextIsNew
    <3> QED
      BY <2>3, <2>4, <3>1
  <2>7. DOMAIN s.message = {"index", "parts"} /\ IsList(s.message.parts) /\ Len(s.message.parts) = 0
    BY <1>2 DEF Holding, MessageFits, IsList
  <2>8. n \in Nat /\ n # None
    BY NoneAssumption DEF Holding, Account
  <2>9. DOMAIN t.message = {"index", "parts"} /\ t.message.index = n /\ t.message.parts = s.message.parts
    BY <2>3, <2>7
  <2>10. MessageFits(t.message, t.out)
    BY <2>6, <2>7, <2>9 DEF MessageFits
  <2>11. OpenMessage(t) = {<<n, "message">>} /\ OpenMessage(s) = {}
    BY <1>2, <2>8, <2>9 DEF OpenMessage
  <2>12. /\ OpenReasoning(t, FALSE) = OpenReasoning(s, FALSE)
         /\ DoneReasoning(t, FALSE) = DoneReasoning(s, FALSE)
    BY <2>5 DEF OpenReasoning, DoneReasoning
  <2>13. OpenItems(t.out) = OpenReasoning(t, FALSE) \cup OpenMessage(t) \cup OpenCalls(t.toolCalls)
    BY <2>5, <2>6, <2>11, <2>12 DEF Holding
  <2>14. Holding(t, FALSE)
    BY <2>2, <2>3, <2>5, <2>6, <2>10, <2>12, <2>13 DEF Holding, Frame
  <2> QED
    BY <2>1, <2>5, <2>8, <2>9, <2>14 DEF Notes
<1> QED
  BY <1>1, <1>2

\* The place of a part.
LEMMA PartPlace ==
    ASSUME NEW s, NEW l, MessageFits(s.message, l), NEW kind
    PROVE  LET k == PartOf(s, kind) parts == s.message.parts
           IN IF k = 0 THEN \A i \in 1..Len(parts) : parts[i].kind # kind
              ELSE k \in 1..Len(parts) /\ parts[k].kind = kind
<1> DEFINE parts == s.message.parts
           I == {i \in 1..Len(parts) : parts[i].kind = kind}
<1>1. PartOf(s, kind) = IF I # {} THEN Min(I) ELSE 0
  BY DEF PartOf, SelectInSeq
<1>2. CASE I = {}
  BY <1>1, <1>2
<1>3. ASSUME NEW k \in I PROVE Min(I) = k /\ k # 0
  <2>1. I = {k}
    BY DEF MessageFits
  <2>2. k \in Nat
    BY DEF MessageFits, IsList
  <2>3. Min({k}) = k
    BY <2>2 DEF Min
  <2>4. k # 0
    BY <2>2 DEF MessageFits, IsList
  <2> HIDE DEF I
  <2> QED
    BY <2>1, <2>3, <2>4
<1> QED
  BY <1>1, <1>2, <1>3

LEMMA PartIsAdded ==
    ASSUME NEW s, Holding(s, FALSE), s.message.index # None, NEW kind
    PROVE  LET t == EnsurePart(s, kind)
           IN /\ Notes(s, t) /\ t.message.index = s.message.index
              /\ PartOf(t, kind) \in 1..Len(t.message.parts)
              /\ t.message.parts[PartOf(t, kind)].kind = kind
<1>0. MessageFits(s.message, s.out)
  BY DEF Holding
<1>1. CASE PartOf(s, kind) # 0
  <2>1. EnsurePart(s, kind) = s
    BY <1>1 DEF EnsurePart
  <2> QED
    BY <1>0, <1>1, <2>1, PartPlace DEF Notes, Frame
<1>2. CASE PartOf(s, kind) = 0
  <2> DEFINE e == [type |-> "part_added", index |-> s.message.index, kind |-> kind]
             part == [kind |-> kind, text |-> <<>>]
             u == Send(s, e)
             t == [u EXCEPT !.message.parts = Append(@, part)]
             parts == s.message.parts
  <2>1. EnsurePart(s, kind) = t
    BY <1>2 DEF EnsurePart
  <2>2. ItemFields \subseteq DOMAIN s
    BY DEF Holding
  <2>3. /\ DOMAIN u = DOMAIN s /\ u.out = Append(s.out, e)
        /\ \A f \in ItemFields \ {"out"} : u[f] = s[f]
    BY <2>2 DEF Send, ItemFields
  <2>4. IsBeside(e)
    BY DEF IsBeside
  <2> HIDE DEF e, u
  <2>5. Holding(u, FALSE)
    BY <2>2, <2>3, <2>4, BesideHolds DEF ItemFields
  <2>6. u.message = s.message /\ u.toolCalls = s.toolCalls /\ Frame(s, u)
    BY <2>3 DEF ItemFields, Frame
  <2>7. /\ DOMAIN s.message = {"index", "parts"} /\ IsList(parts)
        /\ \A i \in 1..Len(parts) : parts[i].kind # kind
    BY <1>0, <1>2, PartPlace DEF MessageFits
  <2>8. /\ DOMAIN t = DOMAIN u /\ \A f \in ItemFields \ {"message"} : t[f] = u[f]
        /\ t.message = [s.message EXCEPT !.parts = Append(parts, part)]
    BY <2>2, <2>3, <2>6 DEF ItemFields
  <2> DEFINE more == Append(parts, part)
  <2>9. /\ IsList(more) /\ Len(more) = Len(parts) + 1 /\ Len(parts) \in Nat
        /\ more[Len(parts) + 1] = part /\ \A i \in 1..Len(parts) : more[i] = parts[i]
    BY <2>7, Appending DEF IsList
  <2>10. DOMAIN t.message = {"index", "parts"} /\ t.message.index = s.message.index /\ t.message.parts = more
    BY <2>7, <2>8
  <2> HIDE DEF t, more, parts
  <2>11. MessageFits(t.message, u.out)
    <3>1. MessageFits(s.message, u.out)
      BY <2>5, <2>6 DEF Holding
    <3>2. DOMAIN part = {"kind", "text"} /\ part.text = <<>> /\ part.kind = kind
      OBVIOUS
    <3>3. IsList(<<>>)
      <4>1. <<>> \in Seq({})
        OBVIOUS
      <4> QED
        BY <4>1, SequencesAreLists
    <3>4. SaidIn(u.out, s.message.index, kind) = <<>>
      BY <2>7, <3>1 DEF MessageFits, parts
    <3>5. ASSUME NEW i \in 1..Len(more)
          PROVE  /\ DOMAIN more[i] = {"kind", "text"} /\ IsList(more[i].text)
                 /\ \A j \in 1..Len(more) : more[j].kind = more[i].kind => j = i
                 /\ more[i].text = SaidIn(u.out, s.message.index, more[i].kind)
      <4>1. CASE i = Len(parts) + 1
        BY <2>7, <2>9, <3>2, <3>3, <3>4, <4>1
      <4>2. CASE i \in 1..Len(parts)
        BY <2>7, <2>9, <3>1, <3>2, <4>2 DEF MessageFits, parts
      <4> QED
        BY <2>9, <4>1, <4>2
    <3>6. ASSUME NEW k, \A i \in 1..Len(more) : more[i].kind # k PROVE SaidIn(u.out, s.message.index, k) = <<>>
      <4>1. \A i \in 1..Len(parts) : parts[i].kind # k
        BY <2>9, <3>6
      <4> QED
        BY <3>1, <4>1 DEF MessageFits, parts
    <3> QED
      BY <2>9, <2>10, <3>5, <3>6 DEF MessageFits
  <2>12. /\ t.out = u.out /\ t.nextOutput = u.nextOutput /\ t.reasoning = u.reasoning
         /\ t.completedMessages = u.completedMessages /\ t.toolCalls = u.toolCalls /\ Frame(u, t)
    BY <2>8 DEF ItemFields, Frame
  <2>13. /\ OpenMessage(t) = OpenMessage(u) /\ OpenReasoning(t, FALSE) = OpenReasoning(u, FALSE)
         /\ DoneReasoning(t, FALSE) = DoneReasoning(u, FALSE)
    BY <2>6, <2>10, <2>12 DEF OpenMessage, OpenReasoning, DoneReasoning
  <2>14. Holding(t, FALSE)
    BY <2>2, <2>3, <2>5, <2>8, <2>11, <2>12, <2>13 DEF Holding, Frame
  <2>15. PartOf(t, kind) \in 1..Len(t.message.parts) /\ t.message.parts[PartOf(t, kind)].kind = kind
    <3>1. MessageFits(t.message, t.out)
      BY <2>14 DEF Holding
    <3>2. Len(parts) + 1 \in 1..Len(t.message.parts) /\ t.message.parts[Len(parts) + 1].kind = kind
      BY <2>9, <2>10
    <3> QED
      BY <3>1, <3>2, PartPlace
  <2> QED
    BY <2>1, <2>6, <2>10, <2>12, <2>14, <2>15 DEF Notes, Frame
<1> QED
  BY <1>1, <1>2

\* A delta of an open item.
LEMMA DeltaFollows ==
    ASSUME NEW l, NEW n, Account(l, n), NEW e, e.type = "delta", IsList(e.text),
           \E a \in OpenItems(l) : a[1] = e.index
    PROVE  /\ Follows(l, e) /\ Account(Append(l, e), n)
           /\ OpenItems(Append(l, e)) = OpenItems(l) /\ DoneIn(Append(l, e)) = DoneIn(l)
           /\ AddedIn(Append(l, e)) = AddedIn(l)
           /\ SaidIn(Append(l, e), e.index, e.part) = SaidIn(l, e.index, e.part) \o e.text
<1>1. Follows(l, e)
  BY DEF Follows, OpenItems
<1>2. Account(Append(l, e), n) /\ OpenItems(Append(l, e)) = OpenItems(l)
  BY <1>1, AccountGrows, OpenGrow
<1>3. IsList(l)
  BY DEF Account
<1>4. DoneIn(Append(l, e)) = DoneIn(l) /\ AddedIn(Append(l, e)) = AddedIn(l)
  <2>1. /\ AddedIn(Append(l, e)) = AddedIn(l) \cup (IF e.type = "item_added" THEN {<<e.index, e.kind>>} ELSE {})
        /\ DoneIn(Append(l, e)) = DoneIn(l) \cup
                (IF e.type = "item_done" THEN {[index |-> e.index, item |-> e.item]} ELSE {})
    BY <1>3, AddsGrow
  <2> QED
    BY <2>1
<1>5. SaidIn(Append(l, e), e.index, e.part) = SaidIn(l, e.index, e.part) \o TextOf(e, e.index, e.part)
  <2>1. \A x, part : SaidIn(Append(l, e), x, part) = SaidIn(l, x, part) \o TextOf(e, x, part)
    BY <1>3, SaidGrows
  <2> QED
    BY <2>1
<1>6. TextOf(e, e.index, e.part) = e.text
  BY DEF TextOf
<1> QED
  BY <1>1, <1>2, <1>4, <1>5, <1>6

\* A part with more text.
LEMMA PartGrows ==
    ASSUME NEW s, Holding(s, FALSE), s.message.index # None, NEW k \in 1..Len(s.message.parts),
           NEW text, IsList(text)
    PROVE  Notes(s, Send([s EXCEPT !.message.parts[k].text = @ \o text],
                         ItemDelta(s.message.index, s.message.parts[k].kind, text)))
<1> DEFINE x == s.message.index
           parts == s.message.parts
           kind == parts[k].kind
           e == ItemDelta(x, kind, text)
           r == [s EXCEPT !.message.parts[k].text = @ \o text]
           t == Send(r, e)
           more == [parts EXCEPT ![k].text = @ \o text]
<1>1. ItemFields \subseteq DOMAIN s /\ MessageFits(s.message, s.out) /\ Account(s.out, s.nextOutput)
  BY DEF Holding
<1>2. e.type = "delta" /\ e.index = x /\ e.part = kind /\ e.text = text
  BY DEF ItemDelta
<1>3. /\ DOMAIN t = DOMAIN s /\ t.out = Append(s.out, e) /\ t.message = [s.message EXCEPT !.parts = more]
      /\ \A f \in ItemFields \ {"out", "message"} : t[f] = s[f]
  <2>1. DOMAIN r = DOMAIN s /\ r.message = [s.message EXCEPT !.parts = more] /\ r.out = s.out
        /\ \A f \in ItemFields \ {"message"} : r[f] = s[f]
    BY <1>1 DEF ItemFields
  <2> HIDE DEF r, more, e
  <2> QED
    BY <1>1, <2>1 DEF Send, ItemFields
<1>4. /\ t.nextOutput = s.nextOutput /\ t.reasoning = s.reasoning /\ t.completedMessages = s.completedMessages
      /\ t.toolCalls = s.toolCalls /\ Frame(s, t)
  <2> HIDE DEF t
  <2> QED
    BY <1>3 DEF ItemFields, Frame
<1>5. DOMAIN s.message = {"index", "parts"} /\ IsList(parts) /\ DOMAIN parts = 1..Len(parts)
  BY <1>1 DEF MessageFits, IsList
<1>6. \A i \in 1..Len(parts) : DOMAIN parts[i] = {"kind", "text"} /\ IsList(parts[i].text)
        /\ (parts[i].kind = kind => i = k)
        /\ parts[i].text = SaidIn(s.out, x, parts[i].kind)
  BY <1>1 DEF MessageFits
<1>7. /\ DOMAIN more = 1..Len(parts) /\ more[k] = [parts[k] EXCEPT !.text = @ \o text]
      /\ \A i \in 1..Len(parts) \ {k} : more[i] = parts[i]
  BY <1>5
<1>8. DOMAIN more[k] = {"kind", "text"} /\ more[k].kind = kind /\ more[k].text = parts[k].text \o text
  BY <1>6, <1>7
<1>9. DOMAIN t.message = {"index", "parts"} /\ t.message.index = x /\ t.message.parts = more
  <2> HIDE DEF more, t
  <2> QED
    BY <1>3, <1>5
<1>10. IsList(more) /\ Len(more) = Len(parts)
  <2> DEFINE T == {more[i] : i \in 1..Len(parts)}
  <2>1. more \in [1..Len(parts) -> T] /\ Len(parts) \in Nat
    BY <1>5, <1>7 DEF IsList
  <2> HIDE DEF T, more
  <2>2. more \in Seq(T) /\ Len(more) = Len(parts)
    BY <2>1
  <2> QED
    BY <2>2, SequencesAreLists
<1>11. <<x, "message">> \in OpenItems(s.out) /\ x # s.reasoning.index
       /\ \A i \in DOMAIN s.toolCalls : s.toolCalls[i].block # x
  <2>1. <<x, "message">> \in OpenItems(s.out) /\ x # s.reasoning.index
    BY Owners
  <2>2. ASSUME NEW i \in DOMAIN s.toolCalls PROVE s.toolCalls[i].block # x
    <3>1. PICK a \in OpenItems(s.out) : a = <<x, "message">>
      BY <2>1
    <3>2. a[2] \notin {"function", "custom"} => a[1] # s.toolCalls[i].block
      BY Owners
    <3> QED
      BY <3>1, <3>2
  <2> QED
    BY <2>1, <2>2
<1> HIDE DEF e, r, t, more
<1>12. /\ Follows(s.out, e) /\ Account(t.out, s.nextOutput)
       /\ OpenItems(t.out) = OpenItems(s.out) /\ DoneIn(t.out) = DoneIn(s.out)
       /\ SaidIn(t.out, x, kind) = SaidIn(s.out, x, kind) \o text
  <2>1. \E a \in OpenItems(s.out) : a[1] = e.index
    BY <1>2, <1>11
  <2> DEFINE m == Append(s.out, e)
  <2>2. /\ Follows(s.out, e) /\ Account(m, s.nextOutput)
        /\ OpenItems(m) = OpenItems(s.out) /\ DoneIn(m) = DoneIn(s.out)
        /\ SaidIn(m, e.index, e.part) = SaidIn(s.out, e.index, e.part) \o e.text
    BY <1>1, <1>2, <2>1, DeltaFollows
  <2> QED
    BY <1>2, <1>3, <2>2
<1>13. \A p : p # kind => SaidIn(t.out, x, p) = SaidIn(s.out, x, p)
  BY <1>1, <1>2, <1>3, <1>12, SaidStays
<1>14. CallsFit(s.toolCalls, t.out, s.nextOutput) /\ ReasoningFits(s.reasoning, t.out)
  <2>1. s.nextOutput \in Nat /\ s.nextOutput <= s.nextOutput
    BY <1>1 DEF Account
  <2> QED
    BY <1>1, <1>2, <1>3, <1>11, <1>12, <2>1, CallsStay, ReasoningStays DEF Holding
<1>15. MessageFits(t.message, t.out)
  <2>1. ASSUME NEW i \in 1..Len(more)
        PROVE  /\ DOMAIN more[i] = {"kind", "text"} /\ IsList(more[i].text)
               /\ \A j \in 1..Len(more) : more[j].kind = more[i].kind => j = i
               /\ more[i].text = SaidIn(t.out, x, more[i].kind)
    <3>0. \A j \in 1..Len(parts) : more[j].kind = parts[j].kind
      BY <1>7, <1>8
    <3>1. \A j \in 1..Len(more) : more[j].kind = more[i].kind => j = i
      BY <1>1, <1>10, <3>0 DEF MessageFits
    <3>2. CASE i = k
      <4>1. IsList(parts[k].text \o text)
        BY <1>6, Joining
      <4> QED
        BY <1>6, <1>8, <1>12, <3>1, <3>2, <4>1
    <3>3. CASE i # k
      <4>1. i \in 1..Len(parts) /\ more[i] = parts[i] /\ parts[i].kind # kind
        BY <1>6, <1>7, <1>10, <3>3
      <4> QED
        BY <1>6, <1>13, <3>1, <4>1
    <3> QED
      BY <3>2, <3>3
  <2>2. ASSUME NEW p, \A i \in 1..Len(more) : more[i].kind # p PROVE SaidIn(t.out, x, p) = <<>>
    <3>0. \A j \in 1..Len(parts) : more[j].kind = parts[j].kind
      BY <1>7, <1>8
    <3>1. \A i \in 1..Len(parts) : parts[i].kind # p
      BY <1>10, <2>2, <3>0
    <3>2. SaidIn(s.out, x, p) = <<>>
      BY <1>1, <3>1 DEF MessageFits
    <3> QED
      BY <1>13, <3>1, <3>2
  <2> QED
    BY <1>9, <1>10, <2>1, <2>2 DEF MessageFits
<1>16. /\ OpenMessage(t) = OpenMessage(s) /\ OpenReasoning(t, FALSE) = OpenReasoning(s, FALSE)
       /\ DoneReasoning(t, FALSE) = DoneReasoning(s, FALSE)
  BY <1>4, <1>9 DEF OpenMessage, OpenReasoning, DoneReasoning
<1>17. Holding(t, FALSE)
  BY <1>1, <1>3, <1>4, <1>12, <1>14, <1>15, <1>16 DEF Holding, Frame
<1> QED
  BY <1>4, <1>17 DEF Notes, t, r, e

LEMMA NotesAgain ==
    ASSUME NEW s, NEW t, NEW r, Notes(s, t), Notes(t, r)
    PROVE  Notes(s, r)
BY DEF Notes, Frame

LEMMA MessageIsTold ==
    ASSUME NEW s, Holding(s, FALSE), NEW kind, NEW text, IsList(text)
    PROVE  Notes(s, MessageDelta(s, kind, text))
<1> DEFINE added == EnsureMessage(s)
           opened == EnsurePart(added, kind)
           part == PartOf(opened, kind)
           t == Send([opened EXCEPT !.message.parts[part].text = @ \o text],
                     ItemDelta(opened.message.index, kind, text))
<1>1. MessageDelta(s, kind, text) = IF text = <<>> THEN s ELSE t
  BY DEF MessageDelta
<1>2. Notes(s, added) /\ added.message.index # None
  BY MessageIsAdded
<1> HIDE DEF added
<1>3. /\ Notes(added, opened) /\ opened.message.index = added.message.index
      /\ part \in 1..Len(opened.message.parts) /\ opened.message.parts[part].kind = kind
  BY <1>2, PartIsAdded DEF Notes
<1> HIDE DEF opened, part
<1>4. Notes(opened, t)
  <2>1. Notes(opened, Send([opened EXCEPT !.message.parts[part].text = @ \o text],
                         ItemDelta(opened.message.index, opened.message.parts[part].kind, text)))
    BY <1>2, <1>3, PartGrows DEF Notes
  <2> QED
    BY <1>3, <2>1
<1> HIDE DEF t
<1>5. Notes(s, t)
  BY <1>2, <1>3, <1>4, NotesAgain
<1>6. Notes(s, s)
  BY DEF Notes, Frame
<1> QED
  BY <1>1, <1>5, <1>6

\* A list without its last element, and what it is appended to.
IsFront(front, k, l, m) ==
    /\ IsList(front) /\ Len(front) = k /\ \A i \in 1..k : front[i] = m[i]
    /\ l \o m = Append(l \o front, m[k + 1])

LEMMA Splitting ==
    ASSUME NEW l, IsList(l), NEW m, IsList(m), NEW k \in Nat, Len(m) = k + 1
    PROVE  \E front : IsFront(front, k, l, m)
<1> DEFINE T == {m[i] : i \in 1..Len(m)} \cup {l[i] : i \in 1..Len(l)}
           front == [i \in 1..k |-> m[i]]
           last == m[k + 1]
<1>1. m \in [1..(k + 1) -> T] /\ l \in [1..Len(l) -> T] /\ Len(l) \in Nat /\ front \in [1..k -> T] /\ last \in T
  BY DEF IsList
<1>2. \A i \in 1..k : front[i] = m[i]
  OBVIOUS
<1> HIDE DEF T, front, last
<1>3. m \in Seq(T) /\ l \in Seq(T) /\ front \in Seq(T) /\ Len(front) = k
  BY <1>1
<1>4. IsList(front) /\ IsList(l \o front) /\ Len(l \o front) = Len(l) + k
  <2>1. IsList(front)
    BY <1>3, SequencesAreLists
  <2> QED
    BY <1>3, <2>1, Joining
<1> DEFINE a == l \o m
           b == Append(l \o front, last)
<1>5. IsList(a) /\ IsList(b) /\ Len(a) = Len(l) + (k + 1) /\ Len(b) = (Len(l) + k) + 1
  BY <1>4, Joining, Appending
<1>6. ASSUME NEW i \in 1..Len(a) PROVE a[i] = b[i]
  <2>1. CASE i \in 1..Len(l)
    <3>1. a[i] = l[i] /\ (l \o front)[i] = l[i]
      BY <1>4, <2>1, Joining
    <3>2. i \in 1..Len(l \o front)
      BY <1>1, <1>4, <2>1
    <3> QED
      BY <1>4, <3>1, <3>2, Appending
  <2>2. CASE i \in (Len(l) + 1)..(Len(l) + k)
    <3>1. PICK j \in 1..k : i = Len(l) + j
      <4>1. i - Len(l) \in 1..k /\ i = Len(l) + (i - Len(l))
        BY <1>1, <2>2
      <4> QED
        BY <4>1
    <3>2. a[i] = m[j]
      BY <3>1, Joining
    <3>3. (l \o front)[i] = front[j]
      BY <1>3, <1>4, <3>1, Joining
    <3>4. b[i] = (l \o front)[i]
      BY <1>4, <2>2, <1>1, Appending
    <3> QED
      BY <1>2, <3>2, <3>3, <3>4
  <2>3. CASE i = Len(l) + (k + 1)
    <3>1. a[i] = m[k + 1]
      <4>1. \A j \in 1..Len(m) : a[Len(l) + j] = m[j]
        BY Joining
      <4>2. k + 1 \in 1..Len(m)
        OBVIOUS
      <4> QED
        BY <2>3, <4>1, <4>2
    <3>2. b[Len(l \o front) + 1] = last
      BY <1>4, Appending
    <3>3. i = Len(l \o front) + 1
      BY <1>1, <1>4, <2>3
    <3> QED
      BY <3>1, <3>2, <3>3 DEF last
  <2>4. i \in 1..Len(l) \/ i \in (Len(l) + 1)..(Len(l) + k) \/ i = Len(l) + (k + 1)
    BY <1>1, <1>5
  <2> QED
    BY <2>1, <2>2, <2>3, <2>4
<1>7. Len(a) = Len(b)
  BY <1>1, <1>5
<1>8. a = b
  <2> HIDE DEF a, b
  <2>1. a = [i \in 1..Len(a) |-> a[i]] /\ b = [i \in 1..Len(a) |-> b[i]]
    BY <1>5, <1>7 DEF IsList
  <2> QED
    BY <1>6, <2>1
<1> QED
  BY <1>2, <1>3, <1>4, <1>8 DEF last, IsFront

\* Events that are of no item.
LEMMA AsidesJoin ==
    ASSUME NEW l, NEW n, Account(l, n), NEW m, IsList(m), \A i \in 1..Len(m) : IsBeside(m[i])
    PROVE  /\ Account(l \o m, n)
           /\ OpenItems(l \o m) = OpenItems(l) /\ DoneIn(l \o m) = DoneIn(l) /\ AddedIn(l \o m) = AddedIn(l)
           /\ \A x, part : SaidIn(l \o m, x, part) = SaidIn(l, x, part)
<1> DEFINE Joins(k) ==
             /\ Account(k, n)
             /\ OpenItems(k) = OpenItems(l) /\ DoneIn(k) = DoneIn(l) /\ AddedIn(k) = AddedIn(l)
             /\ \A x, part : SaidIn(k, x, part) = SaidIn(l, x, part)
           Fine == {k \in Nat : \A p : IsList(p) /\ Len(p) = k /\ (\A i \in 1..k : IsBeside(p[i])) => Joins(l \o p)}
<1>0. IsList(l)
  BY DEF Account
<1>1. 0 \in Fine
  <2>1. ASSUME NEW p, IsList(p), Len(p) = 0 PROVE Joins(l \o p)
    <3>1. p = <<>>
      BY <2>1 DEF IsList
    <3>2. l \o p = l
      BY <1>0, <3>1, <2>1, Joining
    <3> QED
      BY <3>2
  <2> HIDE DEF Joins
  <2> QED
    BY <2>1
<1>2. ASSUME NEW k \in Nat, k \in Fine PROVE k + 1 \in Fine
  <2>1. ASSUME NEW p, IsList(p), Len(p) = k + 1, \A i \in 1..(k + 1) : IsBeside(p[i]) PROVE Joins(l \o p)
    <3>0. \E front : IsFront(front, k, l, p)
      <4> HIDE DEF Fine, Joins
      <4> QED
        BY <1>0, <2>1, Splitting
    <3>1. PICK front : IsFront(front, k, l, p)
      BY <3>0
    <3>2. \A i \in 1..k : IsBeside(front[i])
      BY <2>1, <3>1 DEF IsFront
    <3>3. Joins(l \o front)
      BY <1>2, <3>1, <3>2 DEF IsFront
    <3> DEFINE q == l \o front
               e == p[k + 1]
    <3>4. IsBeside(e)
      BY <2>1
    <3> HIDE DEF q, e
    <3>5. Account(q, n)
      BY <3>3 DEF q
    <3>6. /\ Follows(q, e) /\ Account(Append(q, e), n) /\ OpenItems(Append(q, e)) = OpenItems(q)
          /\ DoneIn(Append(q, e)) = DoneIn(q) /\ AddedIn(Append(q, e)) = AddedIn(q)
      BY <3>4, <3>5, BesideFollows
    <3>7. \A x, part : SaidIn(Append(q, e), x, part) = SaidIn(q, x, part)
      BY <3>4, <3>5, <3>6, SaidStays DEF IsBeside
    <3>8. Joins(Append(q, e))
      BY <3>3, <3>6, <3>7 DEF q
    <3> QED
      BY <3>1, <3>8 DEF q, e, IsFront
  <2> HIDE DEF Joins
  <2> QED
    BY <2>1
<1> HIDE DEF Fine, Joins
<1>3. \A k \in Nat : k \in Fine
  BY <1>1, <1>2, AllNumbers
<1>4. Len(m) \in Fine
  BY <1>3 DEF IsList
<1>5. Joins(l \o m)
  BY <1>4 DEF Fine
<1> QED
  BY <1>5 DEF Joins

LEMMA AppendedSet ==
    ASSUME NEW l, IsList(l), NEW e
    PROVE  ToSet(Append(l, e)) = ToSet(l) \cup {e}
<1> DEFINE m == Append(l, e)
<1>1. /\ DOMAIN l = 1..Len(l) /\ DOMAIN m = 1..(Len(l) + 1) /\ Len(l) \in Nat
      /\ m[Len(l) + 1] = e /\ \A i \in 1..Len(l) : m[i] = l[i]
  BY Appending DEF IsList
<1> HIDE DEF m
<1>2. ToSet(m) = ToSet(l) \cup {e}
  BY <1>1 DEF ToSet
<1> QED
  BY <1>2 DEF m

\* The message that is told, if any, is done.
LEMMA MessageIsDone ==
    ASSUME NEW s, NEW over \in BOOLEAN, Holding(s, over)
    PROVE  LET t == MessageDone(s)
           IN /\ Holding(t, over) /\ Frame(s, t) /\ t.toolCalls = s.toolCalls
              /\ t.message.index = None /\ t.reasoning = s.reasoning
<1>1. CASE s.message.index = None
  <2>1. MessageDone(s) = s
    BY <1>1 DEF MessageDone
  <2> QED
    BY <1>1, <2>1 DEF Frame
<1>2. CASE s.message.index # None
  <2> DEFINE x == s.message.index
             parts == s.message.parts
             item == Item("message", None, parts, FALSE)
             asides == [i \in DOMAIN parts |-> [type |-> "part_done", index |-> x, kind |-> parts[i].kind]]
             told == [s EXCEPT !.out = @ \o asides]
             e == ItemDone(x, item)
             r == [index |-> x, item |-> item]
             t == [Send(told, e) EXCEPT !.completedMessages = Append(@, r),
                                        !.message = [index |-> None, parts |-> <<>>]]
  <2>1. MessageDone(s) = t
    BY <1>2 DEF MessageDone
  <2>2. ItemFields \subseteq DOMAIN s /\ MessageFits(s.message, s.out) /\ Account(s.out, s.nextOutput)
    BY DEF Holding
  <2>3. /\ DOMAIN t = DOMAIN s /\ t.out = Append(s.out \o asides, e)
        /\ t.completedMessages = Append(s.completedMessages, r)
        /\ t.message = [index |-> None, parts |-> <<>>]
        /\ \A f \in ItemFields \ {"out", "message", "completedMessages"} : t[f] = s[f]
    <3>1. DOMAIN told = DOMAIN s /\ told.out = s.out \o asides
          /\ \A f \in ItemFields \ {"out"} : told[f] = s[f]
      BY <2>2 DEF ItemFields
    <3> HIDE DEF told, e, r, asides
    <3> QED
      BY <2>2, <3>1 DEF Send, ItemFields
  <2>4. /\ t.nextOutput = s.nextOutput /\ t.reasoning = s.reasoning /\ t.toolCalls = s.toolCalls
        /\ t.finish = s.finish /\ Frame(s, t)
    <3> HIDE DEF t
    <3> QED
      BY <2>3 DEF ItemFields, Frame
  <2>5. e.type = "item_done" /\ e.index = x /\ e.item = item /\ item.kind = "message" /\ item.body = parts
    BY DEF ItemDone, Item
  <2>6. IsList(asides) /\ \A i \in 1..Len(asides) : IsBeside(asides[i])
    <3> DEFINE T == {asides[i] : i \in DOMAIN parts}
    <3>1. DOMAIN parts = 1..Len(parts) /\ Len(parts) \in Nat
      BY <2>2 DEF MessageFits, IsList
    <3>2. asides \in [1..Len(parts) -> T]
      BY <3>1
    <3>3. \A a \in T : IsBeside(a)
      <4>1. \A i \in DOMAIN parts : asides[i].type = "part_done"
        OBVIOUS
      <4>2. \A a \in T : a.type = "part_done"
        BY <4>1
      <4> HIDE DEF T, asides
      <4> QED
        BY <4>2 DEF IsBeside
    <3> HIDE DEF T, asides
    <3>4. asides \in Seq(T)
      BY <3>1, <3>2
    <3> QED
      BY <3>3, <3>4, SequencesAreLists
  <2> DEFINE l == s.out \o asides
  <2> HIDE DEF asides, t, e, item
  <2>7. /\ Account(l, s.nextOutput)
        /\ OpenItems(l) = OpenItems(s.out) /\ DoneIn(l) = DoneIn(s.out) /\ AddedIn(l) = AddedIn(s.out)
        /\ \A y, part : SaidIn(l, y, part) = SaidIn(s.out, y, part)
    BY <2>2, <2>6, AsidesJoin
  <2>8. t.out = Append(l, e)
    BY <2>3
  <2>9. CallsFit(s.toolCalls, l, s.nextOutput)
    <3>1. CallsFit(s.toolCalls, s.out, s.nextOutput)
      BY DEF Holding
    <3>2. \A i \in DOMAIN s.toolCalls : CallFits(s.toolCalls[i], l, s.nextOutput)
      <4>1. ASSUME NEW i \in DOMAIN s.toolCalls PROVE CallFits(s.toolCalls[i], l, s.nextOutput)
        <5> DEFINE call == s.toolCalls[i]
        <5>1. CallFits(call, s.out, s.nextOutput)
          BY <3>1 DEF CallsFit
        <5>2. SaidIn(l, call.block, TypeOf(call)) = SaidIn(s.out, call.block, TypeOf(call))
          BY <2>7
        <5> QED
          BY <2>7, <5>1, <5>2 DEF CallFits
      <4> QED
        BY <4>1
    <3> QED
      BY <3>1, <3>2 DEF CallsFit
  <2>10. ReasoningFits(s.reasoning, l)
    BY <2>7 DEF Holding, ReasoningFits
  <2> HIDE DEF l
  <2>11. <<x, "message">> \in OpenItems(l)
    BY <1>2, <2>7, Owners
  <2>12. Follows(l, e)
    <3>1. <<x, "message">> \in AddedIn(l) /\ \A d \in DoneIn(l) : d.index # x
      <4>1. PICK a \in OpenItems(l) : a = <<x, "message">>
        BY <2>11
      <4>2. a \in AddedIn(l) /\ (\A d \in DoneIn(l) : d.index # a[1]) /\ a[1] = x
        BY <4>1 DEF OpenItems
      <4> QED
        BY <4>1, <4>2
    <3>2. ASSUME NEW part \in PartsOf(item) PROVE part.text = SaidIn(l, x, part.kind)
      <4>1. PICK i \in 1..Len(parts) : part = parts[i]
        BY <2>2, <2>5 DEF PartsOf, ToSet, MessageFits, IsList
      <4>2. parts[i].text = SaidIn(s.out, x, parts[i].kind)
        BY <2>2 DEF MessageFits
      <4> QED
        BY <2>7, <4>1, <4>2
    <3> QED
      BY <2>5, <3>1, <3>2 DEF Follows
  <2>13. Account(t.out, s.nextOutput)
    <3>1. e.type \notin {"item_added", "completed", "incomplete"}
      BY <2>5
    <3> QED
      BY <2>7, <2>8, <2>12, <3>1, AccountGrows
  <2>14. /\ OpenItems(t.out) = OpenItems(l) \ {<<x, "message">>}
         /\ DoneIn(t.out) = DoneIn(l) \cup {r}
    <3>1. OpenItems(Append(l, e)) = OpenItems(l) \ {<<e.index, e.item.kind>>}
      BY <2>5, <2>7, <2>12, OpenGrow
    <3>2. DoneIn(Append(l, e)) = DoneIn(l) \cup
                (IF e.type = "item_done" THEN {[index |-> e.index, item |-> e.item]} ELSE {})
      BY <2>7, AddsGrow DEF Account
    <3>3. DoneIn(Append(l, e)) = DoneIn(l) \cup {r}
      BY <2>5, <3>2
    <3> QED
      BY <2>5, <2>8, <3>1, <3>3
  <2>15. CallsFit(s.toolCalls, t.out, s.nextOutput) /\ ReasoningFits(s.reasoning, t.out)
    <3>1. s.nextOutput \in Nat /\ s.nextOutput <= s.nextOutput
      BY <2>2 DEF Account
    <3>2. e.type \notin {"item_added", "delta"}
      BY <2>5
    <3> QED
      BY <2>7, <2>8, <2>9, <2>10, <2>12, <3>1, <3>2, CallsStay, ReasoningStays
  <2>16. MessageFits(t.message, t.out) /\ t.message.index = None
    <3>1. <<>> \in Seq({})
      OBVIOUS
    <3>2. IsList(<<>>)
      BY <3>1, SequencesAreLists
    <3> QED
      BY <2>3, <3>2 DEF MessageFits
  <2>17. /\ OpenMessage(t) = {} /\ OpenMessage(s) = {<<x, "message">>}
         /\ OpenReasoning(t, over) = OpenReasoning(s, over)
         /\ DoneReasoning(t, over) = DoneReasoning(s, over)
    BY <1>2, <2>4, <2>16 DEF OpenMessage, OpenReasoning, DoneReasoning, ReasoningItem
  <2>18. OpenItems(t.out) = OpenReasoning(t, over) \cup OpenMessage(t) \cup OpenCalls(t.toolCalls)
    <3>1. OpenItems(t.out) = (OpenReasoning(s, over) \cup {<<x, "message">>} \cup OpenCalls(s.toolCalls)) \ {<<x, "message">>}
      BY <2>7, <2>14, <2>17 DEF Holding
    <3>2. <<x, "message">> \notin OpenReasoning(s, over)
      BY DEF OpenReasoning
    <3>3. <<x, "message">> \notin OpenCalls(s.toolCalls)
      <4>1. ASSUME NEW i \in DOMAIN s.toolCalls PROVE <<x, "message">> # <<s.toolCalls[i].block, TypeOf(s.toolCalls[i])>>
        <5>1. TypeOf(s.toolCalls[i]) \in {"function", "custom"}
          BY DEF Holding, CallsFit, CallFits, IsCall
        <5> QED
          BY <5>1
      <4> QED
        BY <4>1 DEF OpenCalls
    <3> QED
      BY <2>4, <2>17, <3>1, <3>2, <3>3
  <2>19. IsList(t.completedMessages) /\ ToSet(t.completedMessages) = ToSet(s.completedMessages) \cup {r}
    BY <2>3, Appending, AppendedSet DEF Holding
  <2>20. DoneIn(t.out) = DoneReasoning(t, over) \cup ToSet(t.completedMessages) \cup DoneCalls(t.toolCalls, t.finish)
    BY <2>4, <2>7, <2>14, <2>17, <2>19 DEF Holding
  <2>21. Holding(t, over)
    BY <2>2, <2>3, <2>4, <2>13, <2>15, <2>16, <2>18, <2>19, <2>20 DEF Holding
  <2> QED
    BY <2>1, <2>4, <2>16, <2>21
<1> QED
  BY <1>1, <1>2

LEMMA ReasoningIsAdded ==
    ASSUME NEW s, Holding(s, FALSE), s.reasoning.index = None
    PROVE  LET t == [Send(s, ItemAdded(s.nextOutput, "reasoning", None)) EXCEPT
                        !.reasoning.index = s.nextOutput, !.nextOutput = @ + 1]
           IN Notes(s, t) /\ t.reasoning.index # None
<1> DEFINE n == s.nextOutput
           e == ItemAdded(n, "reasoning", None)
           t == [Send(s, e) EXCEPT !.reasoning.index = n, !.nextOutput = @ + 1]
<1>1. ItemFields \subseteq DOMAIN s
  BY DEF Holding
<1>2. /\ DOMAIN t = DOMAIN s /\ t.out = Append(s.out, e) /\ t.nextOutput = n + 1
      /\ t.reasoning = [s.reasoning EXCEPT !.index = n]
      /\ \A f \in ItemFields \ {"out", "nextOutput", "reasoning"} : t[f] = s[f]
  BY <1>1 DEF Send, ItemFields
<1>3. e.type = "item_added" /\ e.index = n /\ e.kind = "reasoning"
  BY DEF ItemAdded
<1> HIDE DEF t, e
<1>4. /\ t.message = s.message /\ t.completedMessages = s.completedMessages /\ t.toolCalls = s.toolCalls
      /\ Frame(s, t)
  BY <1>2 DEF ItemFields, Frame
<1>5. /\ Account(t.out, n + 1) /\ CallsFit(s.toolCalls, t.out, n + 1) /\ MessageFits(s.message, t.out)
      /\ OpenItems(t.out) = OpenItems(s.out) \cup {<<n, "reasoning">>} /\ DoneIn(t.out) = DoneIn(s.out)
      /\ SaidIn(t.out, n, "reasoning") = <<>>
  <2> DEFINE m == Append(s.out, e)
  <2>1. /\ Account(m, n + 1) /\ CallsFit(s.toolCalls, m, n + 1) /\ MessageFits(s.message, m)
        /\ OpenItems(m) = OpenItems(s.out) \cup {<<n, e.kind>>} /\ DoneIn(m) = DoneIn(s.out)
        /\ \A part : SaidIn(m, n, part) = <<>>
    BY <1>3, NextIsNew
  <2> QED
    BY <1>2, <1>3, <2>1
<1>6. n \in Nat /\ n # None
  BY NoneAssumption DEF Holding, Account
<1>7. DOMAIN s.reasoning = {"index", "text"} /\ IsList(s.reasoning.text) /\ s.reasoning.text = <<>>
  BY DEF Holding, ReasoningFits
<1>8. DOMAIN t.reasoning = {"index", "text"} /\ t.reasoning.index = n /\ t.reasoning.text = s.reasoning.text
  BY <1>2, <1>7
<1>9. ReasoningFits(t.reasoning, t.out)
  BY <1>5, <1>6, <1>7, <1>8 DEF ReasoningFits
<1>10. /\ OpenReasoning(t, FALSE) = {<<n, "reasoning">>} /\ OpenReasoning(s, FALSE) = {}
       /\ OpenMessage(t) = OpenMessage(s) /\ DoneReasoning(t, FALSE) = DoneReasoning(s, FALSE)
  BY <1>4, <1>6, <1>8 DEF OpenReasoning, OpenMessage, DoneReasoning
<1>11. OpenItems(t.out) = OpenReasoning(t, FALSE) \cup OpenMessage(t) \cup OpenCalls(t.toolCalls)
  BY <1>4, <1>5, <1>10 DEF Holding
<1>12. Holding(t, FALSE)
  BY <1>1, <1>2, <1>4, <1>5, <1>9, <1>10, <1>11 DEF Holding, Frame
<1> QED
  BY <1>4, <1>6, <1>8, <1>12 DEF Notes, t, e

LEMMA ReasoningGrows ==
    ASSUME NEW s, Holding(s, FALSE), s.reasoning.index # None, NEW text, IsList(text)
    PROVE  Notes(s, Send([s EXCEPT !.reasoning.text = @ \o text],
                         ItemDelta(s.reasoning.index, "reasoning", text)))
<1> DEFINE x == s.reasoning.index
           e == ItemDelta(x, "reasoning", text)
           t == Send([s EXCEPT !.reasoning.text = @ \o text], e)
<1>1. ItemFields \subseteq DOMAIN s /\ ReasoningFits(s.reasoning, s.out) /\ Account(s.out, s.nextOutput)
  BY DEF Holding
<1>2. e.type = "delta" /\ e.index = x /\ e.part = "reasoning" /\ e.text = text
  BY DEF ItemDelta
<1>3. /\ DOMAIN t = DOMAIN s /\ t.out = Append(s.out, e)
      /\ t.reasoning = [s.reasoning EXCEPT !.text = @ \o text]
      /\ \A f \in ItemFields \ {"out", "reasoning"} : t[f] = s[f]
  BY <1>1 DEF Send, ItemFields
<1> HIDE DEF t, e
<1>4. /\ t.nextOutput = s.nextOutput /\ t.message = s.message /\ t.completedMessages = s.completedMessages
      /\ t.toolCalls = s.toolCalls /\ Frame(s, t)
  BY <1>3 DEF ItemFields, Frame
<1>5. /\ DOMAIN s.reasoning = {"index", "text"} /\ IsList(s.reasoning.text)
      /\ s.reasoning.text = SaidIn(s.out, x, "reasoning")
  BY <1>1 DEF ReasoningFits
<1>6. /\ DOMAIN t.reasoning = {"index", "text"} /\ t.reasoning.index = x
      /\ t.reasoning.text = s.reasoning.text \o text
  BY <1>3, <1>5
<1>7. <<x, "reasoning">> \in OpenItems(s.out) /\ (s.message.index # None => x # s.message.index)
      /\ \A i \in DOMAIN s.toolCalls : s.toolCalls[i].block # x
  <2>1. <<x, "reasoning">> \in OpenItems(s.out) /\ (s.message.index # None => x # s.message.index)
    BY Owners
  <2>2. ASSUME NEW i \in DOMAIN s.toolCalls PROVE s.toolCalls[i].block # x
    <3>1. PICK a \in OpenItems(s.out) : a = <<x, "reasoning">>
      BY <2>1
    <3>2. a[2] \notin {"function", "custom"} => a[1] # s.toolCalls[i].block
      BY Owners
    <3> QED
      BY <3>1, <3>2
  <2> QED
    BY <2>1, <2>2
<1>8. /\ Follows(s.out, e) /\ Account(t.out, s.nextOutput)
      /\ OpenItems(t.out) = OpenItems(s.out) /\ DoneIn(t.out) = DoneIn(s.out)
      /\ SaidIn(t.out, x, "reasoning") = SaidIn(s.out, x, "reasoning") \o text
  <2>1. \E a \in OpenItems(s.out) : a[1] = e.index
    BY <1>2, <1>7
  <2> DEFINE m == Append(s.out, e)
  <2>2. /\ Follows(s.out, e) /\ Account(m, s.nextOutput)
        /\ OpenItems(m) = OpenItems(s.out) /\ DoneIn(m) = DoneIn(s.out)
        /\ SaidIn(m, e.index, e.part) = SaidIn(s.out, e.index, e.part) \o e.text
    BY <1>1, <1>2, <2>1, DeltaFollows
  <2> QED
    BY <1>2, <1>3, <2>2
<1>9. CallsFit(s.toolCalls, t.out, s.nextOutput) /\ MessageFits(s.message, t.out)
  <2>1. s.nextOutput \in Nat /\ s.nextOutput <= s.nextOutput
    BY <1>1 DEF Account
  <2>2. x # s.message.index
    BY <1>7
  <2> QED
    BY <1>1, <1>2, <1>3, <1>7, <1>8, <2>1, <2>2, CallsStay, MessageStays DEF Holding
<1>10. ReasoningFits(t.reasoning, t.out)
  <2>1. IsList(s.reasoning.text \o text)
    BY <1>5, Joining
  <2> QED
    BY <1>5, <1>6, <1>8, <2>1 DEF ReasoningFits
<1>11. /\ OpenMessage(t) = OpenMessage(s) /\ OpenReasoning(t, FALSE) = OpenReasoning(s, FALSE)
       /\ DoneReasoning(t, FALSE) = DoneReasoning(s, FALSE)
  BY <1>4, <1>6 DEF OpenMessage, OpenReasoning, DoneReasoning
<1>12. Holding(t, FALSE)
  BY <1>1, <1>3, <1>4, <1>8, <1>9, <1>10, <1>11 DEF Holding, Frame
<1> QED
  BY <1>4, <1>12 DEF Notes, t, e

LEMMA ReasoningIsTold ==
    ASSUME NEW s, Holding(s, FALSE), NEW text, IsList(text)
    PROVE  Notes(s, ReasoningDelta(s, text))
<1> DEFINE new == [Send(s, ItemAdded(s.nextOutput, "reasoning", None)) EXCEPT
                        !.reasoning.index = s.nextOutput, !.nextOutput = @ + 1]
           added == IF s.reasoning.index # None THEN s ELSE new
           t == Send([added EXCEPT !.reasoning.text = @ \o text],
                     ItemDelta(added.reasoning.index, "reasoning", text))
<1>1. ReasoningDelta(s, text) = IF text = <<>> THEN s ELSE t
  BY DEF ReasoningDelta
<1>2. Notes(s, s)
  BY DEF Notes, Frame
<1>3. Notes(s, added) /\ added.reasoning.index # None
  <2>1. s.reasoning.index = None => Notes(s, new) /\ new.reasoning.index # None
    BY ReasoningIsAdded
  <2> HIDE DEF new
  <2> QED
    BY <1>2, <2>1
<1> HIDE DEF added
<1>4. Notes(added, t)
  BY <1>3, ReasoningGrows DEF Notes
<1> HIDE DEF t
<1>5. Notes(s, t)
  BY <1>3, <1>4, NotesAgain
<1> QED
  BY <1>1, <1>2, <1>5

\* The reasoning item, if any, is done.
LEMMA ReasoningIsDone ==
    ASSUME NEW s, Holding(s, FALSE)
    PROVE  LET t == IF s.reasoning.index = None THEN s
                    ELSE Send(s, ItemDone(s.reasoning.index, ReasoningItem(s)))
           IN Holding(t, TRUE) /\ Frame(s, t) /\ t.toolCalls = s.toolCalls
<1>1. CASE s.reasoning.index = None
  <2>1. /\ OpenReasoning(s, TRUE) = OpenReasoning(s, FALSE)
        /\ DoneReasoning(s, TRUE) = DoneReasoning(s, FALSE)
    BY <1>1 DEF OpenReasoning, DoneReasoning
  <2>2. Holding(s, TRUE)
    BY <2>1 DEF Holding
  <2> QED
    BY <1>1, <2>2 DEF Frame
<1>2. CASE s.reasoning.index # None
  <2> DEFINE x == s.reasoning.index
             item == ReasoningItem(s)
             e == ItemDone(x, item)
             r == [index |-> x, item |-> item]
             t == Send(s, e)
  <2>1. ItemFields \subseteq DOMAIN s /\ ReasoningFits(s.reasoning, s.out) /\ Account(s.out, s.nextOutput)
    BY DEF Holding
  <2>2. /\ e.type = "item_done" /\ e.index = x /\ e.item = item
        /\ item.kind = "reasoning" /\ item.body = s.reasoning.text
    BY DEF ItemDone, ReasoningItem, Item
  <2>3. DOMAIN t = DOMAIN s /\ t.out = Append(s.out, e) /\ \A f \in ItemFields \ {"out"} : t[f] = s[f]
    BY <2>1 DEF Send, ItemFields
  <2> HIDE DEF t, e
  <2>4. /\ t.nextOutput = s.nextOutput /\ t.message = s.message /\ t.completedMessages = s.completedMessages
        /\ t.reasoning = s.reasoning /\ t.toolCalls = s.toolCalls /\ Frame(s, t)
    BY <2>3 DEF ItemFields, Frame
  <2>5. <<x, "reasoning">> \in OpenItems(s.out)
    BY <1>2, Owners
  <2>6. Follows(s.out, e)
    <3>1. <<x, "reasoning">> \in AddedIn(s.out) /\ \A d \in DoneIn(s.out) : d.index # x
      <4>1. PICK a \in OpenItems(s.out) : a = <<x, "reasoning">>
        BY <2>5
      <4>2. a \in AddedIn(s.out) /\ (\A d \in DoneIn(s.out) : d.index # a[1]) /\ a[1] = x
        BY <4>1 DEF OpenItems
      <4> QED
        BY <4>1, <4>2
    <3>2. PartsOf(item) = {[kind |-> "reasoning", text |-> s.reasoning.text]}
      BY <2>2 DEF PartsOf
    <3>3. s.reasoning.text = SaidIn(s.out, x, "reasoning")
      BY <1>2, <2>1 DEF ReasoningFits
    <3>4. \A part \in PartsOf(item) : part.text = SaidIn(s.out, x, part.kind)
      BY <3>2, <3>3
    <3> QED
      BY <2>2, <3>1, <3>4 DEF Follows
  <2> HIDE DEF item
  <2>7. Account(t.out, s.nextOutput)
    <3>1. e.type \notin {"item_added", "completed", "incomplete"}
      BY <2>2
    <3> QED
      BY <2>1, <2>3, <2>6, <3>1, AccountGrows
  <2>8. /\ OpenItems(t.out) = OpenItems(s.out) \ {<<x, "reasoning">>}
        /\ DoneIn(t.out) = DoneIn(s.out) \cup {r}
    <3>1. OpenItems(Append(s.out, e)) = OpenItems(s.out) \ {<<e.index, e.item.kind>>}
      BY <2>1, <2>2, <2>6, OpenGrow
    <3>2. DoneIn(Append(s.out, e)) = DoneIn(s.out) \cup
                (IF e.type = "item_done" THEN {[index |-> e.index, item |-> e.item]} ELSE {})
      BY <2>1, AddsGrow DEF Account
    <3>3. DoneIn(Append(s.out, e)) = DoneIn(s.out) \cup {r}
      BY <2>2, <3>2
    <3> QED
      BY <2>2, <2>3, <3>1, <3>3
  <2>9. /\ CallsFit(s.toolCalls, t.out, s.nextOutput) /\ ReasoningFits(s.reasoning, t.out)
        /\ MessageFits(s.message, t.out)
    <3>1. s.nextOutput \in Nat /\ s.nextOutput <= s.nextOutput
      BY <2>1 DEF Account
    <3>2. e.type \notin {"item_added", "delta"}
      BY <2>2
    <3> QED
      BY <2>1, <2>3, <2>6, <3>1, <3>2, CallsStay, ReasoningStays, MessageStays DEF Holding
  <2>10. /\ OpenMessage(t) = OpenMessage(s) /\ OpenReasoning(t, TRUE) = {}
         /\ OpenReasoning(s, FALSE) = {<<x, "reasoning">>}
         /\ DoneReasoning(t, TRUE) = {r} /\ DoneReasoning(s, FALSE) = {}
    BY <1>2, <2>4 DEF OpenMessage, OpenReasoning, DoneReasoning, item, ReasoningItem
  <2>11. OpenItems(t.out) = OpenReasoning(t, TRUE) \cup OpenMessage(t) \cup OpenCalls(t.toolCalls)
    <3>1. <<x, "reasoning">> \notin OpenMessage(s)
      BY DEF OpenMessage
    <3>2. <<x, "reasoning">> \notin OpenCalls(s.toolCalls)
      <4>1. ASSUME NEW i \in DOMAIN s.toolCalls PROVE <<x, "reasoning">> # <<s.toolCalls[i].block, TypeOf(s.toolCalls[i])>>
        <5>1. TypeOf(s.toolCalls[i]) \in {"function", "custom"}
          BY DEF Holding, CallsFit, CallFits, IsCall
        <5> QED
          BY <5>1
      <4> QED
        BY <4>1 DEF OpenCalls
    <3>3. OpenItems(s.out) = {<<x, "reasoning">>} \cup OpenMessage(s) \cup OpenCalls(s.toolCalls)
      BY <2>10 DEF Holding
    <3> QED
      BY <2>4, <2>8, <2>10, <3>1, <3>2, <3>3
  <2>12. DoneIn(t.out) = DoneReasoning(t, TRUE) \cup ToSet(t.completedMessages) \cup DoneCalls(t.toolCalls, t.finish)
    BY <2>4, <2>8, <2>10 DEF Holding, Frame
  <2>13. Holding(t, TRUE)
    BY <2>1, <2>3, <2>4, <2>7, <2>9, <2>11, <2>12 DEF Holding
  <2> QED
    BY <1>2, <2>4, <2>13 DEF t, e, item
<1> QED
  BY <1>1, <1>2

\* A step that is about calls.
OfCalls(s, t) ==
    /\ ItemFields \subseteq DOMAIN t /\ Frame(s, t)
    /\ t.reasoning = s.reasoning /\ t.message = s.message /\ t.completedMessages = s.completedMessages

LEMMA WithoutOne ==
    ASSUME NEW f, NEW x
    PROVE  DOMAIN Without(f, x) = DOMAIN f \ {x} /\ \A i \in DOMAIN f \ {x} : Without(f, x)[i] = f[i]
BY DEF Without

LEMMA ExceptOne ==
    ASSUME NEW f, NEW x \in DOMAIN f, NEW v
    PROVE  [f EXCEPT ![x] = v] = With(f, x, v)
<1>1. DOMAIN f \cup {x} = DOMAIN f
  OBVIOUS
<1> QED
  BY <1>1 DEF With

LEMMA CallsFitWithout ==
    ASSUME NEW calls, NEW l, NEW n, CallsFit(calls, l, n), NEW x
    PROVE  CallsFit(Without(calls, x), l, n)
<1>1. DOMAIN Without(calls, x) = DOMAIN calls \ {x} /\ \A i \in DOMAIN calls \ {x} : Without(calls, x)[i] = calls[i]
  BY WithoutOne
<1>2. Bounded(DOMAIN calls \ {x})
  BY DEF CallsFit, Bounded
<1> QED
  BY <1>1, <1>2 DEF CallsFit

\* One call is new or has changed, and is not done.
LEMMA CallChanges ==
    ASSUME NEW s, Holding(s, FALSE), NEW x \in Nat, NEW call, NEW t, OfCalls(s, t),
           t.toolCalls = With(s.toolCalls, x, call), Account(t.out, t.nextOutput),
           ReasoningFits(s.reasoning, t.out), MessageFits(s.message, t.out),
           CallsFit(Without(s.toolCalls, x), t.out, t.nextOutput), CallFits(call, t.out, t.nextOutput),
           \A i \in DOMAIN s.toolCalls \ {x} : s.toolCalls[i].block # None => s.toolCalls[i].block # call.block,
           ~ call.done,
           x \in DOMAIN s.toolCalls =>
                /\ ~ s.toolCalls[x].done
                /\ s.toolCalls[x].added => /\ call.added /\ call.block = s.toolCalls[x].block
                                           /\ TypeOf(call) = TypeOf(s.toolCalls[x]),
           OpenItems(t.out) = OpenItems(s.out) \cup (IF call.added THEN {<<call.block, TypeOf(call)>>} ELSE {}),
           DoneIn(t.out) = DoneIn(s.out)
    PROVE  Holding(t, FALSE)
<1> DEFINE f == s.toolCalls
           g == t.toolCalls
<1>1. /\ DOMAIN g = DOMAIN f \cup {x} /\ g[x] = call /\ \A i \in DOMAIN f \ {x} : g[i] = f[i]
      /\ DOMAIN Without(f, x) = DOMAIN f \ {x} /\ \A i \in DOMAIN f \ {x} : Without(f, x)[i] = f[i]
  <2> HIDE DEF f
  <2>1. g = With(f, x, call)
    BY DEF f
  <2> HIDE DEF g
  <2>2. DOMAIN g = DOMAIN f \cup {x} /\ g[x] = call /\ \A i \in DOMAIN f \ {x} : g[i] = f[i]
    <3>1. /\ DOMAIN With(f, x, call) = DOMAIN f \cup {x} /\ With(f, x, call)[x] = call
          /\ \A i \in DOMAIN f \ {x} : With(f, x, call)[i] = f[i]
      BY DEF With
    <3> QED
      BY <2>1, <3>1, Zenon
  <2>3. DOMAIN Without(f, x) = DOMAIN f \ {x} /\ \A i \in DOMAIN f \ {x} : Without(f, x)[i] = f[i]
    BY WithoutOne, Zenon
  <2> QED
    BY <2>2, <2>3
<1>2. Bounded(DOMAIN g)
  BY BoundedGrows DEF Holding, CallsFit
<1> HIDE DEF f, g
<1>3. CallsFit(g, t.out, t.nextOutput)
  <2>1. \A i \in DOMAIN g : CallFits(g[i], t.out, t.nextOutput)
    BY <1>1 DEF CallsFit, f
  <2>2. ASSUME NEW i \in DOMAIN g, NEW j \in DOMAIN g, g[i].block # None, g[i].block = g[j].block PROVE i = j
    <3>1. \A k \in DOMAIN f, h \in DOMAIN f : f[k].block # None /\ f[k].block = f[h].block => k = h
      BY DEF Holding, CallsFit, f
    <3> QED
      BY <1>1, <2>2, <3>1 DEF f
  <2> QED
    BY <1>2, <2>1, <2>2 DEF CallsFit
<1>4. OpenCalls(g) = OpenCalls(f) \cup (IF call.added THEN {<<call.block, TypeOf(call)>>} ELSE {})
  <2>1. ASSUME NEW a \in OpenCalls(g)
        PROVE  a \in OpenCalls(f) \/ (call.added /\ a = <<call.block, TypeOf(call)>>)
    BY <1>1 DEF OpenCalls
  <2>2. ASSUME NEW a \in OpenCalls(f) PROVE a \in OpenCalls(g)
    <3>1. PICK i \in DOMAIN f : f[i].added /\ ~ f[i].done /\ a = <<f[i].block, TypeOf(f[i])>>
      BY DEF OpenCalls
    <3>2. CASE i = x
      <4>1. call.added /\ a = <<call.block, TypeOf(call)>>
        BY <3>1, <3>2 DEF f
      <4> QED
        BY <1>1, <4>1 DEF OpenCalls
    <3>3. CASE i # x
      BY <1>1, <3>1, <3>3 DEF OpenCalls
    <3> QED
      BY <3>2, <3>3
  <2>3. ASSUME call.added PROVE <<call.block, TypeOf(call)>> \in OpenCalls(g)
    BY <1>1, <2>3 DEF OpenCalls
  <2> QED
    BY <2>1, <2>2, <2>3
<1>5. DoneCalls(g, t.finish) = DoneCalls(f, s.finish)
  <2>1. t.finish = s.finish
    BY DEF OfCalls, Frame
  <2>2. {i \in DOMAIN g : g[i].done} = {i \in DOMAIN f : f[i].done} /\ \A i \in {j \in DOMAIN f : f[j].done} : g[i] = f[i]
    BY <1>1 DEF f
  <2> QED
    BY <2>1, <2>2 DEF DoneCalls
<1>6. /\ OpenMessage(t) = OpenMessage(s) /\ OpenReasoning(t, FALSE) = OpenReasoning(s, FALSE)
      /\ DoneReasoning(t, FALSE) = DoneReasoning(s, FALSE)
  BY DEF OfCalls, OpenMessage, OpenReasoning, DoneReasoning
<1>7. OpenItems(t.out) = OpenReasoning(t, FALSE) \cup OpenMessage(t) \cup OpenCalls(g)
  <2>1. OpenItems(s.out) = OpenReasoning(s, FALSE) \cup OpenMessage(s) \cup OpenCalls(f)
    BY DEF Holding, f
  <2> QED
    BY <1>4, <1>6, <2>1
<1>8. DoneIn(t.out) = DoneReasoning(t, FALSE) \cup ToSet(t.completedMessages) \cup DoneCalls(g, t.finish)
  BY <1>5, <1>6 DEF Holding, OfCalls, f
<1> QED
  BY <1>3, <1>7, <1>8 DEF Holding, OfCalls, g

\* What is known of a call changes, and the client is told nothing.
LEMMA CallIsMerged ==
    ASSUME NEW s, Holding(s, FALSE), NEW x \in Nat, NEW call, IsCall(call), ~ call.done,
           NEW t, OfCalls(s, t), t.out = s.out, t.toolCalls = With(s.toolCalls, x, call),
           t.nextOutput \in Nat, s.nextOutput <= t.nextOutput,
           call.added => x \in DOMAIN s.toolCalls,
           LET was == s.toolCalls[x]
           IN \/ /\ x \in DOMAIN s.toolCalls /\ ~ was.done /\ call.block = was.block /\ call.added = was.added
                 /\ was.added => call.args = was.args /\ TypeOf(call) = TypeOf(was) /\ call.id # None
              \/ /\ x \in DOMAIN s.toolCalls => ~ was.done /\ ~ was.added
                 /\ call.block = s.nextOutput /\ s.nextOutput < t.nextOutput /\ ~ call.added
    PROVE  Holding(t, FALSE)
<1>1. Account(s.out, s.nextOutput) /\ CallsFit(s.toolCalls, s.out, s.nextOutput) /\ s.nextOutput \in Nat
  BY DEF Holding, Account
<1>2. /\ Account(t.out, t.nextOutput) /\ CallsFit(s.toolCalls, t.out, t.nextOutput)
      /\ CallsFit(Without(s.toolCalls, x), t.out, t.nextOutput)
  BY <1>1, MoreOutputs, CallsFitWithout
<1>3. \A i \in DOMAIN s.toolCalls : CallFits(s.toolCalls[i], s.out, s.nextOutput)
  BY <1>1 DEF CallsFit
<1>4. CallFits(call, t.out, t.nextOutput)
  <2>1. CASE x \in DOMAIN s.toolCalls /\ call.block = s.toolCalls[x].block
    <3>1. CallFits(s.toolCalls[x], t.out, t.nextOutput)
      BY <1>2, <2>1 DEF CallsFit
    <3>2. CASE call.added
      <4>1. s.toolCalls[x].added /\ call.args = s.toolCalls[x].args /\ TypeOf(call) = TypeOf(s.toolCalls[x]) /\ call.id # None
            /\ ~ s.toolCalls[x].done
        BY <3>2
      <4> QED
        BY <2>1, <3>1, <3>2, <4>1 DEF CallFits
    <3>3. CASE ~ call.added
      <4>1. ~ s.toolCalls[x].added
        BY <3>3, <2>1
      <4> QED
        BY <2>1, <3>1, <3>3, <4>1 DEF CallFits
    <3> QED
      BY <3>2, <3>3
  <2>2. CASE call.block = s.nextOutput /\ s.nextOutput < t.nextOutput /\ ~ call.added
    <3>1. \A a \in AddedIn(t.out) : a[1] # call.block
      BY <1>1, <2>2 DEF Account
    <3> QED
      BY <1>1, <2>2, <3>1 DEF CallFits
  <2> QED
    BY <2>1, <2>2
<1>5. ASSUME NEW i \in DOMAIN s.toolCalls \ {x}, s.toolCalls[i].block # None PROVE s.toolCalls[i].block # call.block
  <2>1. CASE x \in DOMAIN s.toolCalls /\ call.block = s.toolCalls[x].block
    BY <1>1, <1>5, <2>1 DEF CallsFit
  <2>2. CASE call.block = s.nextOutput
    BY <1>1, <1>3, <1>5, <2>2 DEF CallFits
  <2> QED
    BY <2>1, <2>2
<1>6. OpenItems(t.out) = OpenItems(s.out) \cup (IF call.added THEN {<<call.block, TypeOf(call)>>} ELSE {})
  <2>1. CASE call.added
    <3>1. x \in DOMAIN s.toolCalls /\ s.toolCalls[x].added /\ ~ s.toolCalls[x].done
          /\ TypeOf(call) = TypeOf(s.toolCalls[x]) /\ call.block = s.toolCalls[x].block
      BY <2>1
    <3>2. <<s.toolCalls[x].block, TypeOf(s.toolCalls[x])>> \in OpenItems(s.out)
      BY <3>1, Owners
    <3> QED
      BY <2>1, <3>1, <3>2
  <2>2. CASE ~ call.added
    BY <2>2
  <2> QED
    BY <2>1, <2>2
<1>7. ReasoningFits(s.reasoning, t.out) /\ MessageFits(s.message, t.out) /\ DoneIn(t.out) = DoneIn(s.out)
  BY DEF Holding
<1>8. x \in DOMAIN s.toolCalls =>
        /\ ~ s.toolCalls[x].done
        /\ s.toolCalls[x].added => /\ call.added /\ call.block = s.toolCalls[x].block
                                   /\ TypeOf(call) = TypeOf(s.toolCalls[x])
  OBVIOUS
<1> QED
  BY <1>2, <1>4, <1>5, <1>6, <1>7, <1>8, CallChanges

\* Calls, another than x of which has the block of x.
LEMMA OtherBlocks ==
    ASSUME NEW s, NEW over, Holding(s, over), NEW x \in DOMAIN s.toolCalls, s.toolCalls[x].block # None
    PROVE  /\ CallsFit(Without(s.toolCalls, x), s.out, s.nextOutput)
           /\ \A i \in DOMAIN Without(s.toolCalls, x) : Without(s.toolCalls, x)[i].block # s.toolCalls[x].block
           /\ \A i \in DOMAIN s.toolCalls \ {x} : s.toolCalls[i].block # s.toolCalls[x].block
<1>1. CallsFit(s.toolCalls, s.out, s.nextOutput)
  BY DEF Holding
<1>2. CallsFit(Without(s.toolCalls, x), s.out, s.nextOutput)
  BY <1>1, CallsFitWithout
<1>3. \A i \in DOMAIN s.toolCalls \ {x} : s.toolCalls[i].block # s.toolCalls[x].block
  BY <1>1 DEF CallsFit
<1>4. /\ DOMAIN Without(s.toolCalls, x) = DOMAIN s.toolCalls \ {x}
      /\ \A i \in DOMAIN s.toolCalls \ {x} : Without(s.toolCalls, x)[i] = s.toolCalls[i]
  BY DEF Without
<1> QED
  BY <1>2, <1>3, <1>4

\* The client is told of a call.
LEMMA CallIsAdded ==
    ASSUME NEW s, Holding(s, FALSE), NEW x \in DOMAIN s.toolCalls, x \in Nat, NEW call, IsCall(call),
           ~ s.toolCalls[x].added, ~ s.toolCalls[x].done,
           call.added, ~ call.done, call.id # None, call.args = <<>>,
           call.block = s.toolCalls[x].block, call.block # None,
           NEW e, e.type = "item_added", e.index = call.block, e.kind = TypeOf(call),
           NEW t, OfCalls(s, t), t.out = Append(s.out, e), t.nextOutput = s.nextOutput,
           t.toolCalls = With(s.toolCalls, x, call)
    PROVE  Holding(t, FALSE)
<1> DEFINE n == s.nextOutput
<1>1. Account(s.out, n) /\ n \in Nat /\ n <= n /\ CallFits(s.toolCalls[x], s.out, n)
  BY DEF Holding, Account, CallsFit
<1>2. call.block \in Nat /\ call.block < n /\ \A a \in AddedIn(s.out) : a[1] # call.block
  BY <1>1 DEF CallFits
<1>3. Follows(s.out, e)
  BY <1>2 DEF Follows
<1>4. Account(Append(s.out, e), n)
  BY <1>1, <1>2, <1>3, AccountGrows
<1>5. OpenItems(Append(s.out, e)) = OpenItems(s.out) \cup {<<call.block, TypeOf(call)>>}
  <2>1. OpenItems(Append(s.out, e)) = OpenItems(s.out) \cup {<<e.index, e.kind>>}
    BY <1>1, <1>3, OpenGrow
  <2> QED
    BY <2>1
<1>6. DoneIn(Append(s.out, e)) = DoneIn(s.out)
  <2>1. DoneIn(Append(s.out, e)) = DoneIn(s.out) \cup
                (IF e.type = "item_done" THEN {[index |-> e.index, item |-> e.item]} ELSE {})
    BY <1>1, AddsGrow DEF Account
  <2> QED
    BY <2>1
<1>7. SaidIn(Append(s.out, e), call.block, TypeOf(call)) = <<>>
  <2>1. SaidIn(Append(s.out, e), call.block, TypeOf(call)) = SaidIn(s.out, call.block, TypeOf(call))
    BY <1>1, <1>3, SaidStays
  <2> QED
    BY <1>1, <1>2, <2>1 DEF Account
<1>8. CallFits(call, Append(s.out, e), n)
  BY <1>2, <1>7 DEF CallFits
<1>9. CallsFit(Without(s.toolCalls, x), Append(s.out, e), n)
  <2>1. /\ CallsFit(Without(s.toolCalls, x), s.out, n)
        /\ \A i \in DOMAIN Without(s.toolCalls, x) : Without(s.toolCalls, x)[i].block # e.index
    <3>1. /\ CallsFit(Without(s.toolCalls, x), s.out, s.nextOutput)
          /\ \A i \in DOMAIN Without(s.toolCalls, x) : Without(s.toolCalls, x)[i].block # s.toolCalls[x].block
      BY OtherBlocks, Zenon
    <3> QED
      BY <3>1
  <2> QED
    BY <1>1, <1>3, <2>1, CallsStay
<1>10. ReasoningFits(s.reasoning, Append(s.out, e)) /\ MessageFits(s.message, Append(s.out, e))
  BY <1>1, <1>3, ReasoningStays, MessageStays DEF Holding
<1>11. \A i \in DOMAIN s.toolCalls \ {x} : s.toolCalls[i].block # None => s.toolCalls[i].block # call.block
  <2>1. \A i \in DOMAIN s.toolCalls \ {x} : s.toolCalls[i].block # s.toolCalls[x].block
    BY OtherBlocks
  <2> QED
    BY <2>1
<1>12. OpenItems(t.out) = OpenItems(s.out) \cup (IF call.added THEN {<<call.block, TypeOf(call)>>} ELSE {})
  BY <1>5
<1> HIDE DEF n
<1>13. /\ Account(t.out, t.nextOutput) /\ DoneIn(t.out) = DoneIn(s.out)
       /\ ReasoningFits(s.reasoning, t.out) /\ MessageFits(s.message, t.out)
       /\ CallsFit(Without(s.toolCalls, x), t.out, t.nextOutput) /\ CallFits(call, t.out, t.nextOutput)
  BY <1>4, <1>6, <1>8, <1>9, <1>10 DEF n
<1> QED
  BY <1>11, <1>12, <1>13, CallChanges

\* The client is told more of a call's arguments.
LEMMA CallIsContinued ==
    ASSUME NEW s, Holding(s, FALSE), NEW x \in DOMAIN s.toolCalls, x \in Nat, NEW call, IsCall(call),
           s.toolCalls[x].added, ~ s.toolCalls[x].done,
           call.added, ~ call.done, call.id # None, call.block = s.toolCalls[x].block,
           TypeOf(call) = TypeOf(s.toolCalls[x]),
           NEW text, IsList(text), call.args = s.toolCalls[x].args \o text,
           NEW e, e.type = "delta", e.index = call.block, e.part = TypeOf(call), e.text = text,
           NEW t, OfCalls(s, t), t.out = Append(s.out, e), t.nextOutput = s.nextOutput,
           t.toolCalls = With(s.toolCalls, x, call)
    PROVE  Holding(t, FALSE)
<1> DEFINE n == s.nextOutput
<1>1. Account(s.out, n) /\ n \in Nat /\ n <= n /\ CallFits(s.toolCalls[x], s.out, n)
  BY DEF Holding, Account, CallsFit
<1>2. /\ call.block \in Nat /\ call.block < n /\ call.block # None
      /\ SaidIn(s.out, call.block, TypeOf(call)) = s.toolCalls[x].args
  BY <1>1 DEF CallFits
<1>3. <<call.block, TypeOf(call)>> \in OpenItems(s.out)
  BY Owners
<1>4. /\ Follows(s.out, e) /\ Account(Append(s.out, e), n)
      /\ OpenItems(Append(s.out, e)) = OpenItems(s.out) /\ DoneIn(Append(s.out, e)) = DoneIn(s.out)
      /\ SaidIn(Append(s.out, e), e.index, e.part) = SaidIn(s.out, e.index, e.part) \o e.text
  <2>1. \E a \in OpenItems(s.out) : a[1] = e.index
    BY <1>3
  <2>2. IsList(e.text)
    OBVIOUS
  <2> QED
    BY <1>1, <2>1, <2>2, DeltaFollows
<1>5. CallFits(call, Append(s.out, e), n)
  <2>1. SaidIn(Append(s.out, e), call.block, TypeOf(call)) = call.args
    BY <1>2, <1>4
  <2> QED
    BY <1>2, <2>1 DEF CallFits
<1>6. CallsFit(Without(s.toolCalls, x), Append(s.out, e), n)
  <2>1. /\ CallsFit(Without(s.toolCalls, x), s.out, n)
        /\ \A i \in DOMAIN Without(s.toolCalls, x) : Without(s.toolCalls, x)[i].block # e.index
    <3>1. s.toolCalls[x].block # None
      BY <1>2
    <3>2. /\ CallsFit(Without(s.toolCalls, x), s.out, s.nextOutput)
          /\ \A i \in DOMAIN Without(s.toolCalls, x) : Without(s.toolCalls, x)[i].block # s.toolCalls[x].block
      BY <3>1, OtherBlocks, Zenon
    <3> QED
      BY <3>2
  <2> QED
    BY <1>1, <1>4, <2>1, CallsStay
<1>7. e.index # s.reasoning.index /\ e.index # s.message.index
  <2>1. TypeOf(call) \in {"function", "custom"}
    BY DEF IsCall
  <2>2. s.message.index # None => s.message.index # call.block
    <3>1. s.message.index # None => <<s.message.index, "message">> \in OpenItems(s.out)
      BY Owners
    <3>2. ASSUME <<s.message.index, "message">> \in OpenItems(s.out) PROVE s.message.index # call.block
      <4>1. PICK a \in OpenItems(s.out) : a = <<s.message.index, "message">>
        BY <3>2
      <4>2. a[2] \notin {"function", "custom"} => a[1] # s.toolCalls[x].block
        BY Owners
      <4> QED
        BY <4>1, <4>2
    <3> QED
      BY <3>1, <3>2
  <2>3. s.reasoning.index # None => s.reasoning.index # call.block
    <3>1. s.reasoning.index # None => <<s.reasoning.index, "reasoning">> \in OpenItems(s.out)
      BY Owners
    <3>2. ASSUME <<s.reasoning.index, "reasoning">> \in OpenItems(s.out) PROVE s.reasoning.index # call.block
      <4>1. PICK a \in OpenItems(s.out) : a = <<s.reasoning.index, "reasoning">>
        BY <3>2
      <4>2. a[2] \notin {"function", "custom"} => a[1] # s.toolCalls[x].block
        BY Owners
      <4> QED
        BY <4>1, <4>2
    <3> QED
      BY <3>1, <3>2
  <2> QED
    BY <1>2, <2>2, <2>3
<1>8. ReasoningFits(s.reasoning, Append(s.out, e)) /\ MessageFits(s.message, Append(s.out, e))
  BY <1>1, <1>4, <1>7, ReasoningStays, MessageStays DEF Holding
<1>9. \A i \in DOMAIN s.toolCalls \ {x} : s.toolCalls[i].block # None => s.toolCalls[i].block # call.block
  <2>1. \A i \in DOMAIN s.toolCalls \ {x} : s.toolCalls[i].block # s.toolCalls[x].block
    BY <1>2, OtherBlocks
  <2> QED
    BY <2>1
<1>10. OpenItems(t.out) = OpenItems(s.out) \cup (IF call.added THEN {<<call.block, TypeOf(call)>>} ELSE {})
  BY <1>3, <1>4
<1> HIDE DEF n
<1>11. /\ Account(t.out, t.nextOutput) /\ DoneIn(t.out) = DoneIn(s.out)
       /\ ReasoningFits(s.reasoning, t.out) /\ MessageFits(s.message, t.out)
       /\ CallsFit(Without(s.toolCalls, x), t.out, t.nextOutput) /\ CallFits(call, t.out, t.nextOutput)
  BY <1>4, <1>5, <1>6, <1>8 DEF n
<1> QED
  BY <1>9, <1>10, <1>11, CallChanges

\* A step that is about the call x only.
OfCall(s, t, x) ==
    /\ Holding(t, FALSE) /\ OfCalls(s, t)
    /\ x \in DOMAIN t.toolCalls /\ DOMAIN t.toolCalls = DOMAIN s.toolCalls \cup {x}
    /\ \A i \in DOMAIN s.toolCalls \ {x} : t.toolCalls[i] = s.toolCalls[i]

LEMMA NewCallIsCall == IsCall(NewCall)
<1>1. <<>> \in Seq({})
  OBVIOUS
<1>2. IsList(<<>>)
  BY <1>1, SequencesAreLists
<1> QED
  BY <1>2 DEF IsCall, NewCall, TypeOf, OrElse

LEMMA CallIsReserved ==
    ASSUME NEW s, Holding(s, FALSE), NEW x \in Nat,
           x \in DOMAIN s.toolCalls => ~ s.toolCalls[x].done \/ s.toolCalls[x].block # None
    PROVE  LET t == ReserveOutput(s, x)
               was == IF x \in DOMAIN s.toolCalls THEN s.toolCalls[x] ELSE NewCall
           IN /\ OfCall(s, t, x) /\ t.toolCalls[x].block # None
              /\ \A f \in DOMAIN NewCall \ {"block"} : t.toolCalls[x][f] = was[f]
<1> DEFINE was == IF x \in DOMAIN s.toolCalls THEN s.toolCalls[x] ELSE NewCall
           n == s.nextOutput
           call == [was EXCEPT !.block = n]
           t == [s EXCEPT !.toolCalls = With(@, x, call), !.nextOutput = @ + 1]
<1>1. ReserveOutput(s, x) = IF was.block # None THEN s ELSE t
  BY DEF ReserveOutput
<1>2. CASE was.block # None
  <2>1. x \in DOMAIN s.toolCalls
    BY <1>2 DEF NewCall
  <2>2. OfCalls(s, s)
    BY DEF OfCalls, Frame, Holding
  <2>3. OfCall(s, s, x)
    BY <2>1, <2>2 DEF OfCall
  <2> QED
    BY <1>1, <1>2, <2>1, <2>3
<1>3. CASE was.block = None
  <2>1. ItemFields \subseteq DOMAIN s /\ n \in Nat /\ n # None
    BY NoneAssumption DEF Holding, Account
  <2>2. IsCall(was) /\ ~ was.added /\ ~ was.done
    <3>1. x \in DOMAIN s.toolCalls => CallFits(s.toolCalls[x], s.out, n)
      BY DEF Holding, CallsFit
    <3>2. x \in DOMAIN s.toolCalls => IsCall(was) /\ ~ was.added /\ ~ was.done
      BY <1>3, <3>1 DEF CallFits
    <3>3. x \notin DOMAIN s.toolCalls => IsCall(was) /\ ~ was.added /\ ~ was.done
      BY NewCallIsCall DEF NewCall
    <3> QED
      BY <3>2, <3>3
  <2> HIDE DEF was
  <2>3. DOMAIN call = DOMAIN NewCall /\ call.block = n /\ \A f \in DOMAIN NewCall \ {"block"} : call[f] = was[f]
    BY <2>2 DEF IsCall, NewCall
  <2> HIDE DEF call
  <2>4. IsCall(call) /\ ~ call.done /\ ~ call.added
    BY <2>2, <2>3 DEF IsCall, NewCall, TypeOf
  <2>5. /\ DOMAIN t = DOMAIN s /\ t.toolCalls = With(s.toolCalls, x, call) /\ t.nextOutput = n + 1
        /\ \A f \in ItemFields \ {"toolCalls", "nextOutput"} : t[f] = s[f]
    BY <2>1 DEF ItemFields
  <2> HIDE DEF t, n
  <2>6. OfCalls(s, t) /\ t.out = s.out
    BY <2>1, <2>5 DEF OfCalls, Frame, ItemFields
  <2>7. t.nextOutput \in Nat /\ n <= t.nextOutput /\ n < t.nextOutput
    BY <2>1, <2>5
  <2>8. x \in DOMAIN s.toolCalls => ~ s.toolCalls[x].done /\ ~ s.toolCalls[x].added
    BY <2>2 DEF was
  <2>9. Holding(t, FALSE)
    BY <2>3, <2>4, <2>5, <2>6, <2>7, <2>8, CallIsMerged DEF n
  <2>10. /\ DOMAIN t.toolCalls = DOMAIN s.toolCalls \cup {x} /\ t.toolCalls[x] = call
         /\ \A i \in DOMAIN s.toolCalls \ {x} : t.toolCalls[i] = s.toolCalls[i]
    BY <2>5 DEF With
  <2>11. OfCall(s, t, x)
    BY <2>6, <2>9, <2>10 DEF OfCall
  <2> QED
    BY <1>1, <1>3, <2>1, <2>3, <2>10, <2>11 DEF was
<1> QED
  BY <1>2, <1>3

LEMMA OfCallAgain ==
    ASSUME NEW s, NEW t, NEW r, NEW x, OfCalls(s, t), OfCall(t, r, x)
    PROVE  /\ OfCalls(s, r)
           /\ OfCall(s, t, x) => OfCall(s, r, x)
<1>1. OfCalls(s, r)
  BY DEF OfCalls, OfCall, Frame
<1>2. ASSUME OfCall(s, t, x) PROVE OfCall(s, r, x)
  BY <1>1, <1>2 DEF OfCall
<1> QED
  BY <1>1, <1>2

LEMMA CallIsFlushed ==
    ASSUME NEW s, Holding(s, FALSE), NEW x \in DOMAIN s.toolCalls, x \in Nat, NEW finalize
    PROVE  LET t == FlushCall(s, x, finalize)
           IN /\ OfCall(s, t, x)
              /\ t.toolCalls[x].id = s.toolCalls[x].id /\ t.toolCalls[x].done = s.toolCalls[x].done
              /\ finalize /\ s.toolCalls[x].id # None => t.toolCalls[x].added
<1> DEFINE reserved == ReserveOutput(s, x)
           call == reserved.toolCalls[x]
           unwraps == IsWrapped(call) /\ Decodes(call.args)
           told == IF unwraps THEN [call EXCEPT !.type = "custom", !.args = Decoded(@)] ELSE call
           known == [told EXCEPT !.added = TRUE]
           e == ItemAdded(told.block, TypeOf(told), told.id)
           added == Send([reserved EXCEPT !.toolCalls[x] = known], e)
           delta == ItemDelta(told.block, TypeOf(told), told.args)
           t == FlushCall(s, x, finalize)
<1>1. t = IF call.added \/ call.id = None THEN reserved
          ELSE IF IsWrapped(call) /\ ~ unwraps /\ ~ finalize THEN reserved
          ELSE IF told.args = <<>> THEN added
          ELSE Send(added, delta)
  BY DEF FlushCall
<1>2. CallFits(s.toolCalls[x], s.out, s.nextOutput)
  BY DEF Holding, CallsFit
<1>3. /\ OfCall(s, reserved, x) /\ call.block # None
      /\ \A f \in DOMAIN NewCall \ {"block"} : call[f] = s.toolCalls[x][f]
  <2>1. ~ s.toolCalls[x].done \/ s.toolCalls[x].block # None
    BY <1>2 DEF CallFits
  <2> QED
    BY <2>1, CallIsReserved
<1>4. call.id = s.toolCalls[x].id /\ call.done = s.toolCalls[x].done /\ call.added = s.toolCalls[x].added
  BY <1>3 DEF NewCall
<1> HIDE DEF reserved, t
<1>5. /\ Holding(reserved, FALSE) /\ x \in DOMAIN reserved.toolCalls
      /\ ItemFields \subseteq DOMAIN reserved
  BY <1>3 DEF OfCall, OfCalls
<1>6. CallFits(call, reserved.out, reserved.nextOutput) /\ IsCall(call)
  BY <1>5 DEF Holding, CallsFit, CallFits
<1>7. CASE call.added \/ call.id = None \/ (IsWrapped(call) /\ ~ unwraps /\ ~ finalize)
  <2>1. t = reserved
    BY <1>1, <1>7
  <2> QED
    BY <1>3, <1>4, <1>7, <2>1 DEF t
<1>8. CASE ~ (call.added \/ call.id = None \/ (IsWrapped(call) /\ ~ unwraps /\ ~ finalize))
  <2>1. ~ call.added /\ ~ call.done /\ call.id # None
    BY <1>6, <1>8 DEF CallFits
  <2>2. IsCall(told) /\ told.block = call.block /\ told.id = call.id /\ told.done = call.done
    <3>1. CASE unwraps
      <4>1. IsList(Decoded(call.args))
        <5>1. Len(call.args) \in Nat /\ IsList(call.args)
          BY <1>6 DEF IsCall, IsList
        <5>2. PICK l : l = call.args
          OBVIOUS
        <5>3. PICK n : n = Len(l)
          OBVIOUS
        <5>4. n \in Nat /\ IsList(l)
          BY <5>1, <5>2, <5>3
        <5>5. PICK b \in Int : b = n - 1
          BY <5>4
        <5>6. 1 \in Nat /\ b \in Int /\ ~ b > Len(l)
          BY <5>3, <5>4, <5>5
        <5>7. IsList(SubSeq(l, 1 + 1, b)) \/ b > Len(l)
          BY <5>6, <5>4, Cutting
        <5>8. 1 + 1 = 2
          OBVIOUS
        <5>9. IsList(SubSeq(l, 2, b))
          BY <5>6, <5>7, <5>8
        <5> QED
          BY <5>2, <5>3, <5>9, <5>5 DEF Decoded
      <4>2. told = [call EXCEPT !.type = "custom", !.args = Decoded(@)]
        BY <3>1
      <4>3. /\ DOMAIN told = DOMAIN NewCall /\ told.type = "custom" /\ told.args = Decoded(call.args)
            /\ \A f \in DOMAIN NewCall \ {"type", "args"} : told[f] = call[f]
        BY <1>6, <4>2 DEF IsCall, NewCall
      <4>4. TypeOf(told) \in {"function", "custom"}
        BY <4>3 DEF TypeOf, OrElse
      <4> HIDE DEF told
      <4> QED
        BY <1>6, <4>1, <4>3, <4>4 DEF IsCall, NewCall
    <3>2. CASE ~ unwraps
      <4>1. told = call
        BY <3>2
      <4> QED
        BY <1>6, <4>1
    <3> QED
      BY <3>1, <3>2
  <2> HIDE DEF told, call, unwraps
  <2>3. /\ DOMAIN known = DOMAIN NewCall /\ known.added = TRUE /\ known.args = told.args
        /\ \A f \in DOMAIN NewCall \ {"added"} : known[f] = told[f]
    BY <2>2 DEF IsCall, NewCall
  <2> DEFINE empty == [known EXCEPT !.args = <<>>]
  <2>4. /\ DOMAIN empty = DOMAIN NewCall /\ empty.args = <<>>
        /\ \A f \in DOMAIN NewCall \ {"args"} : empty[f] = known[f]
    BY <2>3 DEF IsCall, NewCall
  <2> HIDE DEF known, empty
  <2>5. IsCall(known) /\ IsCall(empty) /\ TypeOf(known) = TypeOf(told) /\ TypeOf(empty) = TypeOf(told)
    <3>1. IsList(<<>>)
      BY NewCallIsCall DEF IsCall, NewCall
    <3>2. TypeOf(known) = TypeOf(told) /\ TypeOf(empty) = TypeOf(told)
      BY <2>3, <2>4 DEF TypeOf, NewCall
    <3> QED
      BY <2>2, <2>3, <2>4, <3>1, <3>2 DEF IsCall, NewCall
  <2>6. /\ known.added /\ ~ known.done /\ known.id = call.id /\ known.block = call.block
        /\ empty.added /\ ~ empty.done /\ empty.id = call.id /\ empty.block = call.block
        /\ known.done = call.done
    BY <2>1, <2>2, <2>3, <2>4 DEF NewCall
  <2>7. e.type = "item_added" /\ e.index = call.block /\ e.kind = TypeOf(told)
    BY <2>2 DEF ItemAdded
  <2>8. delta.type = "delta" /\ delta.index = call.block /\ delta.part = TypeOf(told) /\ delta.text = told.args
    BY <2>2 DEF ItemDelta
  <2> DEFINE u == [Send(reserved, e) EXCEPT !.toolCalls = With(@, x, empty)]
  <2> HIDE DEF e, delta
  <2>9. /\ DOMAIN added = DOMAIN reserved /\ added.out = Append(reserved.out, e)
        /\ added.toolCalls = With(reserved.toolCalls, x, known)
        /\ \A f \in ItemFields \ {"out", "toolCalls"} : added[f] = reserved[f]
    <3>1. [reserved.toolCalls EXCEPT ![x] = known] = With(reserved.toolCalls, x, known)
      BY <1>5, ExceptOne
    <3> QED
      BY <1>5, <3>1 DEF Send, ItemFields
  <2>10. /\ DOMAIN u = DOMAIN reserved /\ u.out = Append(reserved.out, e)
         /\ u.toolCalls = With(reserved.toolCalls, x, empty)
         /\ \A f \in ItemFields \ {"out", "toolCalls"} : u[f] = reserved[f]
    BY <1>5 DEF Send, ItemFields
  <2> HIDE DEF added, u
  <2>11. OfCalls(reserved, added) /\ OfCalls(reserved, u)
    BY <1>5, <2>9, <2>10 DEF OfCalls, Frame, ItemFields
  <2>12. added.nextOutput = reserved.nextOutput /\ u.nextOutput = reserved.nextOutput
    BY <2>9, <2>10 DEF ItemFields
  <2>13. ~ reserved.toolCalls[x].added /\ ~ reserved.toolCalls[x].done /\ call = reserved.toolCalls[x]
    BY <2>1 DEF call
  <2>14. CASE told.args = <<>>
    <3>1. Holding(added, FALSE)
      <4>1. known.args = <<>> /\ e.kind = TypeOf(known) /\ e.index = known.block /\ known.id # None /\ known.block # None
            /\ known.block = reserved.toolCalls[x].block
        BY <1>3, <2>1, <2>3, <2>5, <2>6, <2>7, <2>13, <2>14
      <4> QED
        BY <1>5, <2>5, <2>6, <2>7, <2>9, <2>11, <2>12, <2>13, <4>1, CallIsAdded
    <3>2. OfCall(reserved, added, x) /\ added.toolCalls[x] = known
      BY <1>5, <2>9, <2>11, <3>1 DEF OfCall, With
    <3>3. t = added
      BY <1>1, <1>8, <2>14
    <3>4. OfCall(s, t, x)
      BY <1>3, <3>2, <3>3, OfCallAgain DEF OfCall
    <3>5. t.toolCalls[x].id = s.toolCalls[x].id /\ t.toolCalls[x].done = s.toolCalls[x].done /\ t.toolCalls[x].added
      BY <1>4, <2>6, <3>2, <3>3
    <3> QED
      BY <3>4, <3>5 DEF t
  <2>15. CASE told.args # <<>>
    <3> DEFINE r == Send(added, delta)
    <3>1. Holding(u, FALSE)
      <4>1. e.kind = TypeOf(empty) /\ e.index = empty.block /\ empty.id # None /\ empty.block # None
            /\ empty.block = reserved.toolCalls[x].block
        BY <1>3, <2>1, <2>5, <2>6, <2>7, <2>13
      <4> QED
        BY <1>5, <2>4, <2>5, <2>6, <2>7, <2>10, <2>11, <2>12, <2>13, <4>1, CallIsAdded
    <3>2. u.toolCalls[x] = empty /\ x \in DOMAIN u.toolCalls
      BY <2>10 DEF With
    <3>3. /\ DOMAIN r = DOMAIN added /\ r.out = Append(u.out, delta)
          /\ \A f \in ItemFields \ {"out"} : r[f] = added[f]
      BY <1>5, <2>9, <2>10 DEF Send, ItemFields
    <3> HIDE DEF r
    <3>4. r.toolCalls = With(u.toolCalls, x, known)
      <4>1. r.toolCalls = With(reserved.toolCalls, x, known)
        BY <2>9, <3>3 DEF ItemFields
      <4>2. With(With(reserved.toolCalls, x, empty), x, known) = With(reserved.toolCalls, x, known)
        BY DEF With
      <4> QED
        BY <2>10, <4>1, <4>2
    <3>5. OfCalls(u, r) /\ OfCalls(reserved, r) /\ r.nextOutput = u.nextOutput
      BY <1>5, <2>9, <2>10, <3>3 DEF OfCalls, Frame, ItemFields
    <3>6. known.args = u.toolCalls[x].args \o told.args
      <4>1. <<>> \o told.args = told.args
        BY <2>2, Joining DEF IsCall
      <4> QED
        BY <2>3, <2>4, <3>2, <4>1
    <3>7. Holding(r, FALSE)
      <4>1. /\ u.toolCalls[x].added /\ ~ u.toolCalls[x].done /\ known.id # None
            /\ known.block = u.toolCalls[x].block /\ TypeOf(known) = TypeOf(u.toolCalls[x])
            /\ delta.index = known.block /\ delta.part = TypeOf(known) /\ delta.text = told.args
            /\ IsList(told.args)
        BY <2>1, <2>2, <2>5, <2>6, <2>8, <3>2 DEF IsCall
      <4> QED
        BY <2>5, <2>6, <2>8, <3>1, <3>2, <3>3, <3>4, <3>5, <3>6, <4>1, CallIsContinued
    <3>8. OfCall(reserved, r, x) /\ r.toolCalls[x] = known
      <4>1. r.toolCalls = With(reserved.toolCalls, x, known)
        BY <2>9, <3>3 DEF ItemFields
      <4> QED
        BY <1>5, <3>5, <3>7, <4>1 DEF OfCall, With
    <3>9. t = r
      BY <1>1, <1>8, <2>15 DEF r
    <3>10. OfCall(s, t, x)
      BY <1>3, <3>8, <3>9, OfCallAgain DEF OfCall
    <3>11. t.toolCalls[x].id = s.toolCalls[x].id /\ t.toolCalls[x].done = s.toolCalls[x].done /\ t.toolCalls[x].added
      BY <1>4, <2>6, <3>8, <3>9
    <3> QED
      BY <3>10, <3>11 DEF t
  <2> QED
    BY <2>14, <2>15
<1> QED
  BY <1>7, <1>8

NoneDone(s) == \A i \in DOMAIN s.toolCalls : ~ s.toolCalls[i].done

\* A call goes on under another index.
Renamed(f, g, old, x) ==
    /\ DOMAIN g = (DOMAIN f \ {old}) \cup {x} /\ \A i \in DOMAIN f \ {old} : g[i] = f[i]
    /\ DOMAIN g[x] = DOMAIN NewCall /\ \A field \in DOMAIN NewCall : g[x][field] = f[old][field]

LEMMA CallIsRenamed ==
    ASSUME NEW s, Holding(s, FALSE), NEW t, OfCalls(s, t), t.out = s.out, t.nextOutput = s.nextOutput,
           NEW x \in Nat, x \notin DOMAIN s.toolCalls, NEW old \in DOMAIN s.toolCalls,
           Renamed(s.toolCalls, t.toolCalls, old, x)
    PROVE  Holding(t, FALSE)
<1> DEFINE f == s.toolCalls
           g == t.toolCalls
           l == s.out
           n == s.nextOutput
<1>1. /\ DOMAIN g = (DOMAIN f \ {old}) \cup {x} /\ \A i \in DOMAIN f \ {old} : g[i] = f[i]
      /\ DOMAIN g[x] = DOMAIN NewCall /\ \A field \in DOMAIN NewCall : g[x][field] = f[old][field]
      /\ x \notin DOMAIN f /\ old \in DOMAIN f
  BY DEF Renamed
<1>2. CallsFit(f, l, n)
  BY DEF Holding
<1> HIDE DEF f, g, l, n
<1>3. /\ g[x].id = f[old].id /\ g[x].name = f[old].name /\ g[x].type = f[old].type /\ g[x].args = f[old].args
      /\ g[x].block = f[old].block /\ g[x].customDone = f[old].customDone /\ g[x].added = f[old].added
      /\ g[x].done = f[old].done
  BY <1>1 DEF NewCall
<1>4. TypeOf(g[x]) = TypeOf(f[old]) /\ \A finish : CallItem(g[x], finish) = CallItem(f[old], finish)
  BY <1>3 DEF TypeOf, CallItem, IsMarked
<1>5. CallFits(f[old], l, n)
  BY <1>1, <1>2 DEF CallsFit
<1>6. CallFits(g[x], l, n)
  <2>1. IsCall(g[x])
    BY <1>1, <1>3, <1>4, <1>5 DEF CallFits, IsCall
  <2> QED
    BY <1>3, <1>4, <1>5, <2>1 DEF CallFits
<1>7. Bounded(DOMAIN g)
  <2>1. PICK m \in Nat : DOMAIN f \in SUBSET (0..m)
    BY <1>2 DEF CallsFit, Bounded
  <2>2. m + x \in Nat /\ DOMAIN g \in SUBSET (0..(m + x))
    BY <1>1, <2>1
  <2> QED
    BY <2>2 DEF Bounded
<1>8. CallsFit(g, l, n)
  <2>1. \A i \in DOMAIN g : CallFits(g[i], l, n)
    BY <1>1, <1>2, <1>6 DEF CallsFit
  <2>2. \A i, j \in DOMAIN g : g[i].block # None /\ g[i].block = g[j].block => i = j
    BY <1>1, <1>2, <1>3 DEF CallsFit
  <2> QED
    BY <1>7, <2>1, <2>2 DEF CallsFit
<1> DEFINE from == [i \in DOMAIN g |-> IF i = x THEN old ELSE i]
<1>9. /\ \A i \in DOMAIN g : from[i] \in DOMAIN f /\ g[i].added = f[from[i]].added /\ g[i].done = f[from[i]].done
            /\ g[i].block = f[from[i]].block /\ TypeOf(g[i]) = TypeOf(f[from[i]])
            /\ \A finish : CallItem(g[i], finish) = CallItem(f[from[i]], finish)
      /\ \A j \in DOMAIN f : \E i \in DOMAIN g : from[i] = j
  BY <1>1, <1>3, <1>4
<1> HIDE DEF from
<1>10. OpenCalls(g) = OpenCalls(f)
  BY <1>9 DEF OpenCalls
<1>11. \A finish : DoneCalls(g, finish) = DoneCalls(f, finish)
  BY <1>9 DEF DoneCalls
<1>12. /\ OpenMessage(t) = OpenMessage(s) /\ OpenReasoning(t, FALSE) = OpenReasoning(s, FALSE)
       /\ DoneReasoning(t, FALSE) = DoneReasoning(s, FALSE) /\ t.finish = s.finish
  BY DEF OfCalls, Frame, OpenMessage, OpenReasoning, DoneReasoning
<1>13. /\ ReasoningFits(t.reasoning, t.out) /\ MessageFits(t.message, t.out) /\ IsList(t.completedMessages)
       /\ Account(t.out, t.nextOutput) /\ ItemFields \subseteq DOMAIN t
  BY DEF Holding, OfCalls
<1>14. OpenItems(t.out) = OpenReasoning(t, FALSE) \cup OpenMessage(t) \cup OpenCalls(g)
  <2>1. OpenItems(s.out) = OpenReasoning(s, FALSE) \cup OpenMessage(s) \cup OpenCalls(f)
    BY DEF Holding, f
  <2> QED
    BY <1>10, <1>12, <2>1
<1>15. DoneIn(t.out) = DoneReasoning(t, FALSE) \cup ToSet(t.completedMessages) \cup DoneCalls(g, t.finish)
  <2>1. DoneIn(s.out) = DoneReasoning(s, FALSE) \cup ToSet(s.completedMessages) \cup DoneCalls(f, s.finish)
    BY DEF Holding, f
  <2> QED
    BY <1>11, <1>12, <2>1 DEF OfCalls
<1> QED
  BY <1>8, <1>13, <1>14, <1>15 DEF Holding, g, l, n

\* dedupe_tool_call_state_by_call_id: nothing is told, and a call keeps its id.
LEMMA CallIsMoved ==
    ASSUME NEW s, Holding(s, FALSE), NoneDone(s), NEW x \in Nat, NEW id, id # None => x \notin DOMAIN s.toolCalls
    PROVE  LET t == [s EXCEPT !.toolCalls = Dedupe(@, x, id)]
           IN /\ Holding(t, FALSE) /\ OfCalls(s, t) /\ NoneDone(t)
              /\ DOMAIN t.toolCalls \subseteq DOMAIN s.toolCalls \cup {x}
              /\ \A i \in DOMAIN t.toolCalls : \E j \in DOMAIN s.toolCalls : t.toolCalls[i].id = s.toolCalls[j].id
              /\ id # None /\ (\A j \in DOMAIN s.toolCalls : s.toolCalls[j].id # id) => x \notin DOMAIN t.toolCalls
<1> DEFINE f == s.toolCalls
           olds == IF id = None THEN {} ELSE {i \in DOMAIN f \ {x} : f[i].id = id}
           old == CHOOSE i \in olds : TRUE
           was == f[old]
           is == IF x \in DOMAIN f THEN f[x] ELSE was
           now == [is EXCEPT !.id = OrElse(@, was.id), !.name = OrElse(@, was.name),
                             !.args = IF @ = <<>> THEN was.args ELSE @,
                             !.type = OrElse(@, was.type), !.block = OrElse(@, was.block),
                             !.itemId = OrElse(@, was.itemId),
                             !.customInput = OrElse(@, was.customInput),
                             !.customDone = @ \/ was.customDone,
                             !.added = @ \/ was.added, !.done = @ \/ was.done]
           t == [s EXCEPT !.toolCalls = Dedupe(@, x, id)]
           g == IF olds = {} THEN f ELSE With(Without(f, old), x, now)
<1>1. Dedupe(f, x, id) = g
  BY DEF Dedupe
<1>2. /\ t.toolCalls = g /\ OfCalls(s, t) /\ t.out = s.out /\ t.nextOutput = s.nextOutput
  BY <1>1 DEF Holding, ItemFields, OfCalls, Frame
<1>3. CASE olds = {}
  <2>1. g = f
    BY <1>3
  <2>2. Holding(t, FALSE)
    <3>1. t.toolCalls = s.toolCalls
      BY <1>2, <2>1
    <3> HIDE DEF t
    <3>2. /\ OpenReasoning(t, FALSE) = OpenReasoning(s, FALSE) /\ OpenMessage(t) = OpenMessage(s)
          /\ DoneReasoning(t, FALSE) = DoneReasoning(s, FALSE)
      BY <1>2 DEF OfCalls, OpenMessage, OpenReasoning, DoneReasoning
    <3> QED
      BY <1>2, <3>1, <3>2 DEF Holding, OfCalls, Frame
  <2>3. id # None /\ (\A j \in DOMAIN s.toolCalls : s.toolCalls[j].id # id) => x \notin DOMAIN g
    BY <2>1
  <2> QED
    BY <1>2, <2>1, <2>2, <2>3 DEF NoneDone
<1>4. CASE olds # {}
  <2>1. old \in DOMAIN f /\ old # x /\ x \notin DOMAIN f /\ id # None /\ f[old].id = id
    BY <1>4
  <2>2. is = was
    BY <2>1
  <2>3. CallFits(was, s.out, s.nextOutput) /\ ~ was.done
    BY <2>1 DEF Holding, CallsFit, NoneDone
  <2>4. g = With(Without(f, old), x, now)
    BY <1>4
  <2> HIDE DEF is, was, old, olds, g
  <2>5. DOMAIN is = DOMAIN NewCall /\ \A field \in DOMAIN NewCall : now[field] = is[field]
    <3>1. /\ DOMAIN is = DOMAIN NewCall /\ is.customDone \in BOOLEAN /\ is.added \in BOOLEAN /\ is.done \in BOOLEAN
      BY <2>2, <2>3 DEF CallFits, IsCall
    <3> QED
      BY <2>2, <3>1 DEF NewCall, OrElse
  <2>6. DOMAIN now = DOMAIN NewCall /\ \A field \in DOMAIN NewCall : now[field] = f[old][field]
    BY <2>2, <2>5 DEF was
  <2> HIDE DEF now
  <2>7. DOMAIN Without(f, old) = DOMAIN f \ {old} /\ \A i \in DOMAIN f \ {old} : Without(f, old)[i] = f[i]
    BY WithoutOne
  <2>8. DOMAIN g = (DOMAIN f \ {old}) \cup {x} /\ g[x] = now /\ \A i \in DOMAIN f \ {old} : g[i] = f[i]
    BY <2>1, <2>4, <2>7 DEF With
  <2>9. Renamed(f, g, old, x)
    BY <2>6, <2>8 DEF Renamed
  <2>10. Holding(t, FALSE)
    <3>1. Renamed(s.toolCalls, t.toolCalls, old, x)
      BY <1>2, <2>9
    <3> HIDE DEF t
    <3> QED
      BY <1>2, <2>1, <3>1, CallIsRenamed
  <2>11. now.id = f[old].id /\ ~ now.done
    BY <2>3, <2>6 DEF NewCall, was
  <2>12. \A i \in DOMAIN g : ~ g[i].done /\ \E j \in DOMAIN f : g[i].id = f[j].id
    BY <2>1, <2>8, <2>11 DEF NoneDone
  <2>13. ~ \A j \in DOMAIN f : f[j].id # id
    BY <2>1
  <2> HIDE DEF t
  <2>14. /\ \A i \in DOMAIN t.toolCalls : ~ t.toolCalls[i].done /\ \E j \in DOMAIN s.toolCalls : t.toolCalls[i].id = s.toolCalls[j].id
         /\ DOMAIN t.toolCalls \subseteq DOMAIN s.toolCalls \cup {x} /\ ~ \A j \in DOMAIN s.toolCalls : s.toolCalls[j].id # id
    BY <1>2, <2>8, <2>12, <2>13
  <2> QED
    BY <1>2, <2>10, <2>14 DEF NoneDone, t
<1> QED
  BY <1>3, <1>4

MayBeTold(s, d) ==
    /\ d.index \in Nat /\ IsList(d.args) /\ d.type \in {None, "function"}
    /\ d.id # None => d.index \notin DOMAIN s.toolCalls
    /\ d.type # None => d.id # None /\ \A j \in DOMAIN s.toolCalls : s.toolCalls[j].id # d.id

\* The calls after a chunk's.
AreTold(s, t, keys, ids) ==
    /\ Holding(t, FALSE) /\ Frame(s, t) /\ NoneDone(t)
    /\ DOMAIN t.toolCalls \subseteq DOMAIN s.toolCalls \cup keys
    /\ \A i \in DOMAIN t.toolCalls :
        t.toolCalls[i].id \in ids \cup {None} \/ \E j \in DOMAIN s.toolCalls : t.toolCalls[i].id = s.toolCalls[j].id

LEMMA CallIsTold ==
    ASSUME NEW s, Holding(s, FALSE), NoneDone(s), NEW d, MayBeTold(s, d)
    PROVE  AreTold(s, ToolCall(s, d), {d.index}, {d.id})
<1> DEFINE x == d.index
           moved == [s EXCEPT !.toolCalls = Dedupe(@, x, d.id)]
           reserved == ReserveOutput(moved, x)
           was == reserved.toolCalls[x]
           call == [was EXCEPT !.id = OrElse(d.id, @), !.name = OrElse(d.name, @),
                               !.type = IF @ = None \/ d.type # None
                                        THEN OrElse(d.type, "function") ELSE @,
                               !.args = @ \o d.args]
           merged == [reserved EXCEPT !.toolCalls[x] = call]
           e == ItemDelta(call.block, TypeOf(call), d.args)
           t == ToolCall(s, d)
<1>1. t = IF ~ was.added THEN IF call.id = None THEN merged ELSE FlushCall(merged, x, FALSE)
          ELSE IF d.args = <<>> THEN merged
          ELSE Send(merged, e)
  BY DEF ToolCall
<1>2. x \in Nat /\ (d.id # None => x \notin DOMAIN s.toolCalls)
  BY DEF MayBeTold
<1>3. /\ Holding(moved, FALSE) /\ OfCalls(s, moved) /\ NoneDone(moved)
      /\ DOMAIN moved.toolCalls \subseteq DOMAIN s.toolCalls \cup {x}
      /\ \A i \in DOMAIN moved.toolCalls : \E j \in DOMAIN s.toolCalls : moved.toolCalls[i].id = s.toolCalls[j].id
      /\ d.id # None /\ (\A j \in DOMAIN s.toolCalls : s.toolCalls[j].id # d.id) => x \notin DOMAIN moved.toolCalls
  BY <1>2, CallIsMoved
<1> HIDE DEF moved, x
<1> DEFINE known == IF x \in DOMAIN moved.toolCalls THEN moved.toolCalls[x] ELSE NewCall
<1>4. /\ OfCall(moved, reserved, x) /\ was.block # None
      /\ \A f \in DOMAIN NewCall \ {"block"} : was[f] = known[f]
  <2>1. x \in DOMAIN moved.toolCalls => ~ moved.toolCalls[x].done \/ moved.toolCalls[x].block # None
    BY <1>3 DEF NoneDone
  <2>2. PICK m : m = moved
    OBVIOUS
  <2>3. /\ OfCall(m, ReserveOutput(m, x), x) /\ ReserveOutput(m, x).toolCalls[x].block # None
        /\ \A f \in DOMAIN NewCall \ {"block"} :
            ReserveOutput(m, x).toolCalls[x][f] = (IF x \in DOMAIN m.toolCalls THEN m.toolCalls[x] ELSE NewCall)[f]
    <3>1. /\ Holding(m, FALSE) /\ x \in Nat
          /\ x \in DOMAIN m.toolCalls => ~ m.toolCalls[x].done \/ m.toolCalls[x].block # None
      BY <1>2, <1>3, <2>1, <2>2
    <3> QED
      BY <3>1, CallIsReserved, Zenon
  <2> QED
    BY <2>2, <2>3
<1> HIDE DEF reserved, t
<1>5. /\ Holding(reserved, FALSE) /\ x \in DOMAIN reserved.toolCalls /\ OfCalls(moved, reserved)
      /\ ItemFields \subseteq DOMAIN reserved /\ reserved.nextOutput \in Nat
  BY <1>4 DEF OfCall, Holding, Account
<1>6. ~ was.done /\ was.id = known.id /\ was.added = known.added
  BY <1>3, <1>4 DEF NoneDone, NewCall
<1>7. CallFits(was, reserved.out, reserved.nextOutput) /\ IsCall(was)
  BY <1>5 DEF Holding, CallsFit, CallFits
<1>8. IsList(d.args) /\ d.type \in {None, "function"}
  BY DEF MayBeTold
<1>9. /\ DOMAIN call = DOMAIN NewCall /\ call.id = OrElse(d.id, was.id) /\ call.args = was.args \o d.args
      /\ call.type = (IF was.type = None \/ d.type # None THEN OrElse(d.type, "function") ELSE was.type)
      /\ call.block = was.block /\ call.added = was.added /\ call.done = was.done /\ call.customDone = was.customDone
  BY <1>7 DEF IsCall, NewCall
<1> HIDE DEF was, call
<1>10. IsCall(call)
  <2>1. IsList(call.args)
    BY <1>7, <1>8, <1>9, Joining DEF IsCall
  <2>2. TypeOf(call) \in {"function", "custom"}
    BY <1>7, <1>8, <1>9 DEF IsCall, TypeOf, OrElse
  <2> QED
    BY <1>7, <1>9, <2>1, <2>2 DEF IsCall
<1>11. was.added => call.id # None /\ TypeOf(call) = TypeOf(was)
  <2> SUFFICES ASSUME was.added PROVE call.id # None /\ TypeOf(call) = TypeOf(was)
    OBVIOUS
  <2>1. was.id # None
    BY <1>7 DEF CallFits
  <2>2. x \in DOMAIN moved.toolCalls
    BY <1>6 DEF NewCall
  <2>3. d.type = None
    BY <1>3, <2>2 DEF MayBeTold
  <2> QED
    BY <1>9, <2>1, <2>3 DEF OrElse, TypeOf
<1>12. /\ DOMAIN merged = DOMAIN reserved /\ merged.out = reserved.out
       /\ merged.toolCalls = With(reserved.toolCalls, x, call)
       /\ \A f \in ItemFields \ {"toolCalls"} : merged[f] = reserved[f]
  <2>1. [reserved.toolCalls EXCEPT ![x] = call] = With(reserved.toolCalls, x, call)
    BY <1>5, ExceptOne
  <2> QED
    BY <1>5, <2>1 DEF ItemFields
<1> HIDE DEF merged
<1>13. OfCalls(reserved, merged) /\ merged.nextOutput = reserved.nextOutput
  BY <1>5, <1>12 DEF OfCalls, Frame, ItemFields
<1>14. ~ was.added \/ d.args = <<>> => OfCall(reserved, merged, x)
  <2> SUFFICES ASSUME ~ was.added \/ d.args = <<>> PROVE OfCall(reserved, merged, x)
    OBVIOUS
  <2>1. was.added => call.args = was.args
    <3>1. was.args \o <<>> = was.args
      BY <1>7, Joining DEF IsCall
    <3> QED
      BY <1>9, <3>1
  <2>2. Holding(merged, FALSE)
    <3>1. /\ x \in DOMAIN reserved.toolCalls /\ ~ reserved.toolCalls[x].done /\ call.block = reserved.toolCalls[x].block
          /\ call.added = reserved.toolCalls[x].added
          /\ reserved.toolCalls[x].added => /\ call.args = reserved.toolCalls[x].args
                                            /\ TypeOf(call) = TypeOf(reserved.toolCalls[x]) /\ call.id # None
      BY <1>5, <1>6, <1>9, <1>11, <2>1 DEF was
    <3>2. ~ call.done /\ merged.nextOutput \in Nat /\ reserved.nextOutput <= merged.nextOutput
      BY <1>5, <1>6, <1>9, <1>13
    <3> QED
      BY <1>2, <1>5, <1>10, <1>12, <1>13, <3>1, <3>2, CallIsMerged
  <2> QED
    BY <1>5, <1>12, <1>13, <2>2 DEF OfCall, With
<1>15. ASSUME NEW r, OfCall(moved, r, x), ~ r.toolCalls[x].done,
              r.toolCalls[x].id \in {d.id, None, known.id}
       PROVE  AreTold(s, r, {x}, {d.id})
  <2>1. Holding(r, FALSE) /\ Frame(s, r) /\ DOMAIN r.toolCalls = DOMAIN moved.toolCalls \cup {x}
    BY <1>3, <1>15 DEF OfCall, OfCalls, Frame
  <2>2. \A i \in DOMAIN r.toolCalls : i = x \/ (i \in DOMAIN moved.toolCalls /\ r.toolCalls[i] = moved.toolCalls[i])
    BY <1>15, <2>1 DEF OfCall
  <2>3. NoneDone(r)
    BY <1>3, <1>15, <2>2 DEF NoneDone
  <2>4. known.id = None \/ \E j \in DOMAIN s.toolCalls : known.id = s.toolCalls[j].id
    BY <1>3 DEF NewCall
  <2>5. \A i \in DOMAIN r.toolCalls :
            r.toolCalls[i].id \in {d.id} \cup {None} \/ \E j \in DOMAIN s.toolCalls : r.toolCalls[i].id = s.toolCalls[j].id
    BY <1>3, <1>15, <2>2, <2>4
  <2> QED
    BY <1>3, <2>1, <2>3, <2>5 DEF AreTold
<1> HIDE DEF known
<1>16. call.id \in {d.id, None, known.id} /\ ~ call.done
  BY <1>6, <1>9 DEF OrElse
<1>17. ASSUME OfCall(reserved, merged, x)
       PROVE  OfCall(moved, merged, x) /\ merged.toolCalls[x] = call
  BY <1>4, <1>12, <1>17, OfCallAgain DEF OfCall, With
<1>18. CASE ~ was.added
  <2>1. OfCall(moved, merged, x) /\ merged.toolCalls[x] = call
    BY <1>14, <1>17, <1>18
  <2>2. CASE call.id = None
    <3>1. t = merged
      BY <1>1, <1>18, <2>2
    <3> QED
      BY <1>15, <1>16, <2>1, <3>1 DEF t, x
  <2>3. CASE call.id # None
    <3>1. t = FlushCall(merged, x, FALSE)
      BY <1>1, <1>18, <2>3
    <3>2. Holding(merged, FALSE) /\ x \in DOMAIN merged.toolCalls /\ FALSE \in BOOLEAN
      BY <2>1 DEF OfCall
    <3>3. /\ OfCall(merged, FlushCall(merged, x, FALSE), x)
          /\ FlushCall(merged, x, FALSE).toolCalls[x].id = merged.toolCalls[x].id
          /\ FlushCall(merged, x, FALSE).toolCalls[x].done = merged.toolCalls[x].done
      BY <1>2, <3>2, CallIsFlushed
    <3>4. OfCall(merged, t, x) /\ t.toolCalls[x].id = call.id /\ t.toolCalls[x].done = call.done
      BY <2>1, <3>1, <3>3
    <3>5. OfCall(moved, t, x)
      BY <2>1, <3>4, OfCallAgain DEF OfCall
    <3> QED
      BY <1>15, <1>16, <3>4, <3>5 DEF t, x
  <2> QED
    BY <2>2, <2>3
<1>19. CASE was.added /\ d.args = <<>>
  <2>1. OfCall(moved, merged, x) /\ merged.toolCalls[x] = call /\ t = merged
    BY <1>1, <1>14, <1>17, <1>19
  <2> QED
    BY <1>15, <1>16, <2>1 DEF t, x
<1>20. CASE was.added /\ d.args # <<>>
  <2> DEFINE r == Send(merged, e)
  <2>1. t = r
    BY <1>1, <1>20
  <2>2. e.type = "delta" /\ e.index = call.block /\ e.part = TypeOf(call) /\ e.text = d.args
    BY DEF ItemDelta
  <2> HIDE DEF e
  <2>3. /\ DOMAIN r = DOMAIN merged /\ r.out = Append(reserved.out, e)
        /\ r.toolCalls = With(reserved.toolCalls, x, call)
        /\ \A f \in ItemFields \ {"out"} : r[f] = merged[f]
    BY <1>5, <1>12 DEF Send, ItemFields
  <2> HIDE DEF r
  <2>4. OfCalls(reserved, r) /\ r.nextOutput = reserved.nextOutput
    BY <1>5, <1>12, <2>3 DEF OfCalls, Frame, ItemFields
  <2>5. Holding(r, FALSE)
    <3>1. /\ reserved.toolCalls[x].added /\ ~ reserved.toolCalls[x].done /\ call.id # None
          /\ call.block = reserved.toolCalls[x].block /\ TypeOf(call) = TypeOf(reserved.toolCalls[x])
          /\ call.args = reserved.toolCalls[x].args \o d.args /\ call.added /\ ~ call.done
      BY <1>6, <1>9, <1>11, <1>20 DEF was
    <3> QED
      BY <1>2, <1>5, <1>8, <1>10, <2>2, <2>3, <2>4, <3>1, CallIsContinued
  <2>6. OfCall(reserved, r, x) /\ r.toolCalls[x] = call
    BY <1>5, <2>3, <2>4, <2>5 DEF OfCall, With
  <2>7. OfCall(moved, r, x)
    BY <1>4, <2>6, OfCallAgain DEF OfCall
  <2> QED
    BY <1>15, <1>16, <2>1, <2>6, <2>7 DEF t, x
<1> QED
  BY <1>18, <1>19, <1>20

\* One call is done.
LEMMA CallIsEnded ==
    ASSUME NEW s, NEW over \in BOOLEAN, Holding(s, over), NEW x \in DOMAIN s.toolCalls
    PROVE  LET t == EndCall(s, x, s.finish)
           IN /\ Holding(t, over) /\ OfCalls(s, t) /\ DOMAIN t.toolCalls = DOMAIN s.toolCalls
              /\ \A i \in DOMAIN s.toolCalls \ {x} : t.toolCalls[i] = s.toolCalls[i]
              /\ t.toolCalls[x].id = s.toolCalls[x].id /\ t.toolCalls[x].added = s.toolCalls[x].added
              /\ t.toolCalls[x].added => t.toolCalls[x].done
<1> DEFINE f == s.toolCalls
           l == s.out
           n == s.nextOutput
           finish == s.finish
           call == f[x]
           ended == [call EXCEPT !.done = TRUE]
           e == ItemDone(call.block, CallItem(call, finish))
           r == Send([s EXCEPT !.toolCalls[x].done = TRUE], e)
           t == EndCall(s, x, s.finish)
<1>1. t = IF ~ call.added \/ call.done THEN s ELSE r
  BY DEF EndCall
<1>2. Account(l, n) /\ n \in Nat /\ n <= n /\ CallsFit(f, l, n) /\ CallFits(call, l, n) /\ IsCall(call)
  BY DEF Holding, Account, CallsFit, CallFits
<1>3. CASE ~ call.added \/ call.done
  <2>1. t = s
    BY <1>1, <1>3
  <2>2. OfCalls(s, s)
    BY DEF OfCalls, Frame, Holding
  <2> HIDE DEF t
  <2>3. /\ Holding(t, over) /\ OfCalls(s, t) /\ DOMAIN t.toolCalls = DOMAIN s.toolCalls
        /\ \A i \in DOMAIN s.toolCalls \ {x} : t.toolCalls[i] = s.toolCalls[i]
        /\ t.toolCalls[x].id = s.toolCalls[x].id /\ t.toolCalls[x].added = s.toolCalls[x].added
        /\ t.toolCalls[x].added => t.toolCalls[x].done
    BY <1>3, <2>1, <2>2
  <2> QED
    BY <2>3 DEF t
<1>4. CASE call.added /\ ~ call.done
  <2>1. t = r
    BY <1>1, <1>4
  <2>2. /\ e.type = "item_done" /\ e.index = call.block /\ e.item = CallItem(call, finish)
        /\ e.item.kind = TypeOf(call) /\ e.item.body = call.args
    BY DEF ItemDone, CallItem, Item
  <2>3. /\ DOMAIN ended = DOMAIN NewCall /\ ended.done = TRUE
        /\ \A field \in DOMAIN NewCall \ {"done"} : ended[field] = call[field]
    BY <1>2 DEF IsCall, NewCall
  <2>4. /\ DOMAIN r = DOMAIN s /\ r.out = Append(l, e) /\ r.toolCalls = With(f, x, ended)
        /\ \A field \in ItemFields \ {"out", "toolCalls"} : r[field] = s[field]
    <3>1. [f EXCEPT ![x] = ended] = With(f, x, ended)
      BY ExceptOne
    <3>2. [f EXCEPT ![x].done = TRUE] = [f EXCEPT ![x] = ended]
      OBVIOUS
    <3> QED
      BY <3>1, <3>2 DEF Send, ItemFields, Holding
  <2> HIDE DEF f, l, n, finish, call, ended, e, r, t
  <2>5. /\ TypeOf(ended) = TypeOf(call) /\ CallItem(ended, finish) = CallItem(call, finish) /\ IsCall(ended)
        /\ ended.block = call.block /\ ended.added = call.added /\ ended.id = call.id
    <3>1. TypeOf(ended) = TypeOf(call) /\ CallItem(ended, finish) = CallItem(call, finish)
      BY <2>3 DEF TypeOf, CallItem, IsMarked, NewCall
    <3> QED
      BY <1>2, <2>3, <3>1 DEF IsCall, NewCall
  <2>6. <<call.block, TypeOf(call)>> \in OpenItems(l) /\ TypeOf(call) \in {"function", "custom"}
    BY <1>2, <1>4, Owners DEF IsCall, f, l, call
  <2>7. Follows(l, e)
    <3>1. <<e.index, e.item.kind>> \in AddedIn(l) /\ \A d \in DoneIn(l) : d.index # e.index
      BY <2>2, <2>6 DEF OpenItems
    <3>2. SaidIn(l, e.index, e.item.kind) = e.item.body
      BY <1>2, <1>4, <2>2 DEF CallFits
    <3>3. PartsOf(e.item) = {[kind |-> e.item.kind, text |-> e.item.body]}
      BY <2>2, <2>6 DEF PartsOf
    <3> QED
      BY <2>2, <3>1, <3>2, <3>3 DEF Follows
  <2>8. Account(r.out, r.nextOutput)
    <3>1. Account(Append(l, e), n)
      BY <1>2, <2>2, <2>7, AccountGrows
    <3> QED
      BY <2>4, <3>1 DEF ItemFields, n
  <2>9. OpenItems(r.out) = OpenItems(l) \ {<<call.block, TypeOf(call)>>}
    BY <1>2, <2>2, <2>4, <2>7, OpenGrow
  <2>10. DoneIn(r.out) = DoneIn(l) \cup {[index |-> call.block, item |-> CallItem(call, finish)]}
    BY <1>2, <2>2, <2>4, AddsGrow DEF Account
  <2>11. DOMAIN r.toolCalls = DOMAIN f /\ r.toolCalls[x] = ended /\ \A i \in DOMAIN f \ {x} : r.toolCalls[i] = f[i]
    BY <2>4 DEF With, f
  <2>12. CallsFit(r.toolCalls, r.out, r.nextOutput)
    <3>1. CallsFit(f, r.out, r.nextOutput)
      <4>1. CallsFit(f, Append(l, e), n)
        BY <1>2, <2>2, <2>7, CallsStay
      <4> QED
        BY <2>4, <4>1 DEF ItemFields, n
    <3>2. CallFits(call, r.out, r.nextOutput)
      BY <3>1 DEF CallsFit, call, f
    <3>3. CallFits(ended, r.out, r.nextOutput)
      BY <1>4, <2>3, <2>5, <3>2 DEF CallFits
    <3>4. \A i \in DOMAIN f : r.toolCalls[i].block = f[i].block
      BY <2>5, <2>11 DEF call
    <3> QED
      BY <2>11, <3>1, <3>3, <3>4 DEF CallsFit
  <2>13. OpenCalls(r.toolCalls) = OpenCalls(f) \ {<<call.block, TypeOf(call)>>}
    <3>1. \A i \in DOMAIN f \ {x} : f[i].added => f[i].block # call.block
      BY <1>2 DEF CallsFit, CallFits, call, f
    <3> QED
      BY <2>3, <2>11, <3>1 DEF OpenCalls, call
  <2>14. DoneCalls(r.toolCalls, finish) = DoneCalls(f, finish) \cup {[index |-> call.block, item |-> CallItem(call, finish)]}
    <3>1. \A i \in DOMAIN f : r.toolCalls[i].block = f[i].block /\ CallItem(r.toolCalls[i], finish) = CallItem(f[i], finish)
      BY <2>5, <2>11 DEF call
    <3>2. \A i \in DOMAIN f : r.toolCalls[i].done <=> f[i].done \/ i = x
      BY <2>3, <2>11
    <3>3. x \in DOMAIN f /\ call = f[x]
      BY DEF f, call
    <3> QED
      BY <2>11, <3>1, <3>2, <3>3 DEF DoneCalls
  <2>15. /\ OfCalls(s, r) /\ r.finish = finish
         /\ OpenReasoning(r, over) = OpenReasoning(s, over) /\ OpenMessage(r) = OpenMessage(s)
         /\ DoneReasoning(r, over) = DoneReasoning(s, over) /\ r.completedMessages = s.completedMessages
    <3>1. OfCalls(s, r) /\ r.finish = finish
      BY <2>4 DEF OfCalls, Frame, ItemFields, finish, Holding
    <3> QED
      BY <3>1 DEF OfCalls, OpenReasoning, OpenMessage, DoneReasoning, ReasoningItem
  <2>16. OpenItems(r.out) = OpenReasoning(r, over) \cup OpenMessage(r) \cup OpenCalls(r.toolCalls)
    <3>1. OpenItems(l) = OpenReasoning(s, over) \cup OpenMessage(s) \cup OpenCalls(f)
      BY DEF Holding, f, l
    <3>2. <<call.block, TypeOf(call)>> \notin OpenReasoning(s, over) \cup OpenMessage(s)
      BY <2>6 DEF OpenReasoning, OpenMessage
    <3> QED
      BY <2>9, <2>13, <2>15, <3>1, <3>2
  <2>17. DoneIn(r.out) = DoneReasoning(r, over) \cup ToSet(r.completedMessages) \cup DoneCalls(r.toolCalls, r.finish)
    <3>1. DoneIn(l) = DoneReasoning(s, over) \cup ToSet(s.completedMessages) \cup DoneCalls(f, finish)
      BY DEF Holding, f, l, finish
    <3> QED
      BY <2>10, <2>14, <2>15, <3>1
  <2>18. ReasoningFits(r.reasoning, r.out) /\ MessageFits(r.message, r.out) /\ IsList(r.completedMessages)
    <3>1. ReasoningFits(s.reasoning, l) /\ MessageFits(s.message, l) /\ IsList(s.completedMessages)
      BY DEF Holding, l
    <3> QED
      BY <1>2, <2>2, <2>4, <2>7, <2>15, <3>1, ReasoningStays, MessageStays DEF OfCalls
  <2>19. Holding(r, over)
    BY <2>8, <2>12, <2>15, <2>16, <2>17, <2>18 DEF Holding, OfCalls
  <2>20. /\ Holding(t, over) /\ OfCalls(s, t) /\ DOMAIN t.toolCalls = DOMAIN s.toolCalls
         /\ \A i \in DOMAIN s.toolCalls \ {x} : t.toolCalls[i] = s.toolCalls[i]
         /\ t.toolCalls[x].id = s.toolCalls[x].id /\ t.toolCalls[x].added = s.toolCalls[x].added
         /\ t.toolCalls[x].added => t.toolCalls[x].done
    BY <2>1, <2>3, <2>5, <2>11, <2>15, <2>19 DEF call, f
  <2> QED
    BY <2>20 DEF t
<1> QED
  BY <1>3, <1>4

\* Some calls were flushed, or ended.
FlushedFor(s, S, t) ==
    /\ Holding(t, FALSE) /\ OfCalls(s, t) /\ DOMAIN t.toolCalls = DOMAIN s.toolCalls
    /\ \A i \in DOMAIN s.toolCalls :
        /\ t.toolCalls[i].id = s.toolCalls[i].id /\ t.toolCalls[i].done = s.toolCalls[i].done
        /\ i \in S /\ t.toolCalls[i].id # None => t.toolCalls[i].added
EndedFor(s, over, S, t) ==
    /\ Holding(t, over) /\ OfCalls(s, t) /\ DOMAIN t.toolCalls = DOMAIN s.toolCalls
    /\ \A i \in DOMAIN s.toolCalls :
        /\ t.toolCalls[i].id = s.toolCalls[i].id /\ t.toolCalls[i].added = s.toolCalls[i].added
        /\ i \in S /\ t.toolCalls[i].added => t.toolCalls[i].done

LEMMA CallsAreFlushedOut ==
    ASSUME NEW s, Holding(s, FALSE)
    PROVE  FlushedFor(s, DOMAIN s.toolCalls, FlushAll(s))
<1> DEFINE how == <<"flush">>
           keys == DOMAIN s.toolCalls
           at == [i \in keys |-> i]
           E(iter) == iter = [S \in SUBSET keys |->
                                IF S = {} THEN s ELSE Flushed(iter[S \ {Max(S)}], Max(S))]
           final == CHOOSE iter : E(iter)
           Good == {S \in SUBSET keys : FlushedFor(s, S, final[S])}
<1>1. Bounded(keys)
  BY DEF Holding, CallsFit
<1>2. PICK n \in Nat : keys \in SUBSET (0..n)
  BY <1>1 DEF Bounded
<1>3. \A iter : E(iter) <=> Iterates(iter, how, s, keys, at)
  <2>1. ASSUME NEW S \in SUBSET keys, S # {} PROVE at[Max(S)] = Max(S)
    BY <1>2, <2>1, Greatest
  <2>2. ASSUME NEW t, NEW x PROVE Step(how, t, x) = Flushed(t, x)
    BY DEF Step, Flushed
  <2> HIDE DEF keys, at, how
  <2> QED
    BY <2>1, <2>2 DEF Iterates
<1>4. \E iter : E(iter)
  BY <1>2, <1>3, IteratesExist
<1>5. E(final)
  BY <1>4, Zenon
<1>6. FlushAll(s) = final[keys]
  BY DEF FlushAll, OverKeys, MapThenFoldSet, Flushed
<1>7. \A x \in keys : at[x] = x
  OBVIOUS
<1>8. \A t, x : Step(how, t, x) = FlushCall(t, x, TRUE)
  BY DEF Step
<1>9. final[{}] = s
  BY <1>5
<1> HIDE DEF E, how, at, final
<1>10. Iterates(final, how, s, keys, at)
  BY <1>3, <1>5
<1>11. {} \in Good
  BY <1>9 DEF FlushedFor, OfCalls, Frame, Holding
<1>12. \A S \in SUBSET keys : \A x \in keys :
         (\A i \in S : i < x) => final[S \cup {x}] = Step(how, final[S], at[x])
  <2> HIDE DEF Good, keys
  <2> QED
    BY <1>1, <1>10, IterationSteps
<1>13. ASSUME NEW S \in SUBSET keys, NEW x \in keys, S \in Good, \A i \in S : i < x
       PROVE  S \cup {x} \in Good
  <2>0. final[S \cup {x}] = Step(how, final[S], x)
    <3>1. final[S \cup {x}] = Step(how, final[S], at[x])
      BY <1>13, <1>12
    <3> QED
      BY <1>7, <3>1
  <2>1. PICK t : t = final[S]
    OBVIOUS
  <2>2. PICK r : r = FlushCall(t, x, TRUE)
    OBVIOUS
  <2>3. final[S \cup {x}] = r
    BY <1>8, <2>0, <2>1, <2>2
  <2>4. FlushedFor(s, S, t) /\ x \in Nat
    BY <1>2, <1>13, <2>1
  <2>5. Holding(t, FALSE) /\ x \in DOMAIN t.toolCalls
    BY <2>4 DEF FlushedFor
  <2>6. /\ OfCall(t, r, x) /\ r.toolCalls[x].id = t.toolCalls[x].id /\ r.toolCalls[x].done = t.toolCalls[x].done
        /\ t.toolCalls[x].id # None => r.toolCalls[x].added
    BY <2>2, <2>4, <2>5, CallIsFlushed
  <2>7. FlushedFor(s, S \cup {x}, r)
    <3>1. /\ OfCalls(s, r) /\ Holding(r, FALSE) /\ DOMAIN r.toolCalls = DOMAIN s.toolCalls
          /\ \A i \in DOMAIN s.toolCalls \ {x} : r.toolCalls[i] = t.toolCalls[i]
      BY <2>4, <2>6 DEF FlushedFor, OfCall, OfCalls, Frame
    <3> QED
      BY <2>4, <2>6, <3>1 DEF FlushedFor
  <2> QED
    BY <2>3, <2>7
<1>14. keys \in Good
  <2> HIDE DEF Good, keys
  <2> QED
    BY <1>1, <1>11, <1>13, InOrder
<1> QED
  BY <1>6, <1>14

LEMMA CallsAreEnded ==
    ASSUME NEW s, NEW over \in BOOLEAN, Holding(s, over)
    PROVE  EndedFor(s, over, DOMAIN s.toolCalls, CallsDone(s, s.finish))
<1> DEFINE finish == s.finish
           how == <<"call done", finish>>
           keys == DOMAIN s.toolCalls
           at == [i \in keys |-> i]
           E(iter) == iter = [S \in SUBSET keys |->
                                IF S = {} THEN s ELSE EndCall(iter[S \ {Max(S)}], Max(S), finish)]
           final == CHOOSE iter : E(iter)
           Good == {S \in SUBSET keys : EndedFor(s, over, S, final[S])}
<1>1. Bounded(keys)
  BY DEF Holding, CallsFit
<1>2. PICK n \in Nat : keys \in SUBSET (0..n)
  BY <1>1 DEF Bounded
<1>3. \A iter : E(iter) <=> Iterates(iter, how, s, keys, at)
  <2>1. ASSUME NEW S \in SUBSET keys, S # {} PROVE at[Max(S)] = Max(S)
    BY <1>2, <2>1, Greatest
  <2>2. ASSUME NEW t, NEW x PROVE Step(how, t, x) = EndCall(t, x, finish)
    BY DEF Step, EndCall
  <2> HIDE DEF keys, at, how, finish
  <2> QED
    BY <2>1, <2>2 DEF Iterates
<1>4. \E iter : E(iter)
  BY <1>2, <1>3, IteratesExist
<1>5. E(final)
  BY <1>4, Zenon
<1>6. CallsDone(s, finish) = final[keys]
  BY DEF CallsDone, OverKeys, MapThenFoldSet, EndCall
<1>7. \A x \in keys : at[x] = x
  OBVIOUS
<1>8. \A t, x : Step(how, t, x) = EndCall(t, x, finish)
  BY DEF Step, EndCall
<1>9. final[{}] = s
  BY <1>5
<1> HIDE DEF E, how, at, final
<1>10. Iterates(final, how, s, keys, at)
  BY <1>3, <1>5
<1>11. {} \in Good
  BY <1>9 DEF EndedFor, OfCalls, Frame, Holding
<1>12. \A S \in SUBSET keys : \A x \in keys :
         (\A i \in S : i < x) => final[S \cup {x}] = Step(how, final[S], at[x])
  <2> HIDE DEF Good, keys
  <2> QED
    BY <1>1, <1>10, IterationSteps
<1>13. ASSUME NEW S \in SUBSET keys, NEW x \in keys, S \in Good, \A i \in S : i < x
       PROVE  S \cup {x} \in Good
  <2>0. final[S \cup {x}] = Step(how, final[S], x)
    <3>1. final[S \cup {x}] = Step(how, final[S], at[x])
      BY <1>13, <1>12
    <3> QED
      BY <1>7, <3>1
  <2>1. PICK t : t = final[S]
    OBVIOUS
  <2>2. PICK r : r = EndCall(t, x, t.finish)
    OBVIOUS
  <2>3. EndedFor(s, over, S, t)
    BY <1>13, <2>1
  <2>4. final[S \cup {x}] = r
    BY <1>8, <2>0, <2>1, <2>2, <2>3 DEF EndedFor, OfCalls, Frame
  <2>5. Holding(t, over) /\ x \in DOMAIN t.toolCalls
    BY <2>3 DEF EndedFor
  <2>6. /\ Holding(r, over) /\ OfCalls(t, r) /\ DOMAIN r.toolCalls = DOMAIN t.toolCalls
        /\ \A i \in DOMAIN t.toolCalls \ {x} : r.toolCalls[i] = t.toolCalls[i]
        /\ r.toolCalls[x].id = t.toolCalls[x].id /\ r.toolCalls[x].added = t.toolCalls[x].added
        /\ r.toolCalls[x].added => r.toolCalls[x].done
    BY <2>2, <2>5, CallIsEnded
  <2>7. EndedFor(s, over, S \cup {x}, r)
    <3>1. OfCalls(s, r) /\ DOMAIN r.toolCalls = DOMAIN s.toolCalls
      BY <2>3, <2>6 DEF EndedFor, OfCalls, Frame
    <3> QED
      BY <2>3, <2>6, <3>1 DEF EndedFor
  <2> QED
    BY <2>4, <2>7
<1>14. keys \in Good
  <2> HIDE DEF Good, keys
  <2> QED
    BY <1>1, <1>11, <1>13, InOrder
<1> QED
  BY <1>6, <1>14

\* The calls of a chunk are one at most.
LEMMA CallsOfChunk ==
    ASSUME NEW s, NEW calls, OneAtMost(calls)
    PROVE  \/ calls = <<>> /\ FoldLeft(ToolCall, s, calls) = s
           \/ \E d : calls = <<d>> /\ FoldLeft(ToolCall, s, calls) = ToolCall(s, d)
<1> DEFINE how == <<"tool call">>
           E(iter) == iter = [S \in SUBSET DOMAIN calls |->
                                IF S = {} THEN s ELSE ToolCall(iter[S \ {Max(S)}], calls[Max(S)])]
           final == CHOOSE iter : E(iter)
<1>0. \/ calls = <<>> /\ DOMAIN calls = {}
      \/ \E d : calls = <<d>> /\ DOMAIN calls = {1} /\ calls[1] = d
  BY DEF OneAtMost
<1>1. \A iter : E(iter) <=> Iterates(iter, how, s, DOMAIN calls, calls)
  BY DEF Iterates, Step
<1>2. \E iter : E(iter)
  <2>1. DOMAIN calls \in SUBSET (0..1) /\ 1 \in Nat
    BY <1>0
  <2> HIDE DEF E, how
  <2> QED
    BY <1>1, <2>1, IteratesExist
<1>3. E(final)
  BY <1>2, Zenon
<1>4. FoldLeft(ToolCall, s, calls) = final[DOMAIN calls]
  BY DEF FoldLeft, MapThenFoldSet
<1>5. final[{}] = s
  BY <1>3
<1>6. DOMAIN calls = {1} => final[{1}] = ToolCall(s, calls[1])
  <2>1. Max({1}) = 1
    BY {1} \in SUBSET (0..1), Greatest
  <2>2. {1} \ {1} = {} /\ {1} # {}
    OBVIOUS
  <2> HIDE DEF final
  <2> QED
    BY <1>3, <1>5, <2>1, <2>2
<1> HIDE DEF E, final
<1> QED
  BY <1>0, <1>4, <1>5, <1>6

Ascends(l) == \A i \in 1..(Len(l) - 1) : l[i].index < l[i + 1].index

LEMMA OneInSequence ==
    ASSUME NEW e
    PROVE  SetToSeq({e}) = <<e>>
<1>1. Cardinality({e}) = 1
  BY FS_Singleton
<1>2. <<e>> \in [1..1 -> {e}] /\ \A f \in [1..1 -> {e}] : f = <<e>>
  OBVIOUS
<1>3. IsInjective(<<e>>)
  BY DEF IsInjective
<1>4. (CHOOSE f \in [1..1 -> {e}] : IsInjective(f)) \in [1..1 -> {e}]
  BY <1>2, <1>3
<1> QED
  BY <1>1, <1>2, <1>4 DEF SetToSeq

\* A response's output is its items, sorted.
Indexed(items, n) ==
    /\ \A e \in items : e.index \in Nat /\ e.index < n
    /\ \A e, d \in items : e.index = d.index => e = d
IsEmpty(l) == IsList(l) /\ Len(l) = 0 /\ ToSet(l) = {}
Sorted(items, base) ==
    MapThenFoldSet(LAMBDA index, output : ItemsTo(output, items, index), base,
                   LAMBDA index : index, Max, {e.index : e \in items})

LEMMA ItemsAreSorted ==
    ASSUME NEW base, IsEmpty(base), NEW items, NEW n \in Nat, Indexed(items, n)
    PROVE  LET output == Sorted(items, base) IN IsList(output) /\ ToSet(output) = items /\ Ascends(output)
<1> DEFINE how == <<"item", items>>
           keys == {e.index : e \in items}
           at == [i \in keys |-> i]
           E(iter) == iter = [S \in SUBSET keys |->
                                IF S = {} THEN base
                                ELSE ItemsTo(iter[S \ {Max(S)}], items, Max(S))]
           final == CHOOSE iter : E(iter)
           Sorts(S, l) == /\ IsList(l) /\ ToSet(l) = {e \in items : e.index \in S} /\ Ascends(l)
           Good == {S \in SUBSET keys : Sorts(S, final[S])}
<1>0. keys \in SUBSET (0..n) /\ Bounded(keys)
  BY DEF Bounded, Indexed
<1>1. \A iter : E(iter) <=> Iterates(iter, how, base, keys, at)
  <2>1. ASSUME NEW S \in SUBSET keys, S # {} PROVE at[Max(S)] = Max(S)
    BY <1>0, <2>1, Greatest
  <2>2. ASSUME NEW t, NEW x PROVE Step(how, t, x) = ItemsTo(t, items, x)
    BY DEF Step
  <2> HIDE DEF keys, at, how
  <2> QED
    BY <2>1, <2>2 DEF Iterates
<1>2. \E iter : E(iter)
  BY <1>0, <1>1, IteratesExist
<1>3. E(final)
  BY <1>2, Zenon
<1>4. Sorted(items, base) = final[keys]
  BY DEF Sorted, MapThenFoldSet
<1>5. \A x \in keys : at[x] = x
  OBVIOUS
<1>6. \A t, x : Step(how, t, x) = ItemsTo(t, items, x)
  BY DEF Step
<1>7. final[{}] = base
  BY <1>3
<1> HIDE DEF E, how, at, final
<1>8. Iterates(final, how, base, keys, at)
  BY <1>1, <1>3
<1>9. {} \in Good
  BY <1>7 DEF Ascends, IsEmpty
<1>10. \A S \in SUBSET keys : \A x \in keys :
         (\A i \in S : i < x) => final[S \cup {x}] = Step(how, final[S], at[x])
  <2>1. Bounded(keys)
    BY <1>0
  <2> HIDE DEF Good, keys
  <2> QED
    BY <1>8, <2>1, IterationSteps
<1>11. ASSUME NEW S \in SUBSET keys, NEW x \in keys, S \in Good, \A i \in S : i < x
       PROVE  S \cup {x} \in Good
  <2>1. PICK l : l = final[S]
    OBVIOUS
  <2>2. PICK e \in items : e.index = x
    OBVIOUS
  <2>3. {d \in items : d.index = x} = {e}
    BY <2>2 DEF Indexed
  <2>4. final[S \cup {x}] = l \o <<e>>
    <3>1. final[S \cup {x}] = Step(how, final[S], at[x])
      BY <1>10, <1>11
    <3>2. final[S \cup {x}] = ItemsTo(l, items, x)
      BY <1>5, <1>6, <2>1, <3>1
    <3>3. SetToSeq({d \in items : d.index = x}) = <<e>>
      BY <2>3, OneInSequence
    <3> QED
      BY <3>2, <3>3 DEF ItemsTo
  <2>5. Sorts(S, l)
    BY <1>11, <2>1
  <2>6. l \o <<e>> = Append(l, e)
    <3>1. l \in Seq({l[i] : i \in 1..Len(l)} \cup {e}) /\ <<e>> \in Seq({l[i] : i \in 1..Len(l)} \cup {e})
      BY <2>5 DEF IsList
    <3> QED
      BY <3>1
  <2>7. PICK m : m = Append(l, e)
    OBVIOUS
  <2>8. IsList(m) /\ Len(m) = Len(l) + 1 /\ m[Len(l) + 1] = e /\ \A i \in 1..Len(l) : m[i] = l[i]
    BY <2>5, <2>7, Appending DEF IsList
  <2>9. ToSet(m) = {d \in items : d.index \in S \cup {x}}
    <3>1. ToSet(m) = ToSet(l) \cup {e}
      BY <2>5, <2>7, AppendedSet
    <3> QED
      BY <2>3, <2>5, <3>1
  <2>10. \A i \in 1..Len(l) : l[i].index \in S
    BY <2>5 DEF ToSet, IsList
  <2>11. Ascends(m)
    <3> SUFFICES ASSUME NEW i \in 1..(Len(m) - 1) PROVE m[i].index < m[i + 1].index
      BY DEF Ascends
    <3>1. Len(l) \in Nat
      BY <2>5 DEF IsList
    <3>2. CASE i = Len(l)
      BY <1>11, <2>2, <2>8, <2>10, <3>1, <3>2
    <3>3. CASE i # Len(l)
      <4>1. i \in 1..(Len(l) - 1) /\ i \in 1..Len(l) /\ i + 1 \in 1..Len(l)
        BY <2>8, <3>1, <3>3
      <4> QED
        BY <2>5, <2>8, <4>1 DEF Ascends
    <3> QED
      BY <3>2, <3>3
  <2> QED
    BY <2>4, <2>6, <2>7, <2>8, <2>9, <2>11
<1>12. keys \in Good
  <2> HIDE DEF Good, keys
  <2> QED
    BY <1>0, <1>9, <1>11, InOrder
<1>13. {e \in items : e.index \in keys} = items
  OBVIOUS
<1>14. IsList(final[keys]) /\ ToSet(final[keys]) = items /\ Ascends(final[keys])
  BY <1>12, <1>13
<1> HIDE DEF Good, Sorts
<1> QED
  BY <1>4, <1>14

\* OutputIsWhatIsDone of a list of events, and what a client is promised of one.
Listed(l) ==
    \A i \in 1..Len(l) : l[i].type \in {"completed", "incomplete"} =>
        /\ ToSet(l[i].output) = DoneIn(l)
        /\ {e.index : e \in ToSet(l[i].output)} = {a[1] : a \in AddedIn(l)}
        /\ Ascends(l[i].output)
WellItemized(l) == IsList(l) /\ ItemsPaired(l) /\ Listed(l)

EveryAdded(s) == \A i \in DOMAIN s.toolCalls : s.toolCalls[i].id # None => s.toolCalls[i].added

OutputItems(s) ==
    (IF s.reasoning.index = None THEN {}
     ELSE {[index |-> s.reasoning.index, item |-> ReasoningItem(s)]})
    \cup ToSet(s.completedMessages)
    \cup {[index |-> OrElse(s.toolCalls[i].block, i), item |-> CallItem(s.toolCalls[i], s.finish)] :
          i \in {j \in DOMAIN s.toolCalls : s.toolCalls[j].id # None}}

LEMMA OutputIsSorted ==
    ASSUME NEW s
    PROVE  Output(s) = Sorted(OutputItems(s), <<>>)
BY DEF Output, Sorted, OutputItems, ItemsTo

LEMMA TerminalIsListed ==
    ASSUME NEW s, Holding(s, FALSE), EveryAdded(s)
    PROVE  LET t == Terminal(s) IN WellItemized(t.out) /\ t.terminalSent /\ t.fatal = s.fatal
<1> DEFINE thought == IF s.reasoning.index = None THEN s
                      ELSE Send(s, ItemDone(s.reasoning.index, ReasoningItem(s)))
           called == CallsDone(thought, s.finish)
           done == MessageDone(called)
           e == [type |-> Status(s.finish), output |-> Output(done)]
           t == Send([done EXCEPT !.terminalSent = TRUE], e)
           l == done.out
           n == done.nextOutput
           m == Append(l, e)
<1>1. Terminal(s) = t
  BY DEF Terminal
<1>2. Holding(thought, TRUE) /\ Frame(s, thought) /\ thought.toolCalls = s.toolCalls
  BY ReasoningIsDone
<1> HIDE DEF thought
<1>3. EndedFor(thought, TRUE, DOMAIN thought.toolCalls, called)
  <2>1. CallsDone(thought, s.finish) = CallsDone(thought, thought.finish)
    BY <1>2 DEF Frame
  <2>2. TRUE \in BOOLEAN
    OBVIOUS
  <2> QED
    BY <1>2, <2>1, <2>2, CallsAreEnded
<1> HIDE DEF called
<1>4. /\ Holding(done, TRUE) /\ Frame(called, done) /\ done.toolCalls = called.toolCalls /\ done.message.index = None
  <2>1. Holding(called, TRUE) /\ TRUE \in BOOLEAN
    BY <1>3 DEF EndedFor
  <2> QED
    BY <2>1, MessageIsDone
<1> HIDE DEF done
<1>5. /\ done.fatal = s.fatal /\ done.finish = s.finish
      /\ \A i \in DOMAIN done.toolCalls : done.toolCalls[i].id # None => done.toolCalls[i].done
  <2>1. /\ DOMAIN called.toolCalls = DOMAIN s.toolCalls
        /\ \A i \in DOMAIN s.toolCalls : /\ called.toolCalls[i].id = s.toolCalls[i].id
                                         /\ called.toolCalls[i].added = s.toolCalls[i].added
                                         /\ called.toolCalls[i].added => called.toolCalls[i].done
    BY <1>2, <1>3 DEF EndedFor
  <2>2. \A i \in DOMAIN called.toolCalls : called.toolCalls[i].id # None => called.toolCalls[i].done
    BY <2>1 DEF EveryAdded
  <2>3. Frame(thought, called)
    BY <1>3 DEF EndedFor, OfCalls
  <2> QED
    BY <1>2, <1>4, <2>2, <2>3 DEF Frame
<1>6. Account(l, n) /\ CallsFit(done.toolCalls, l, n) /\ n \in Nat
  BY <1>4 DEF Holding, Account
<1>7. \A i \in DOMAIN done.toolCalls :
        /\ done.toolCalls[i].done <=> done.toolCalls[i].id # None
        /\ done.toolCalls[i].added => done.toolCalls[i].done
        /\ done.toolCalls[i].done => done.toolCalls[i].block # None
  BY <1>5, <1>6 DEF CallsFit, CallFits
<1>8. OutputItems(done) = DoneIn(l)
  <2>1. DoneReasoning(done, TRUE) = IF done.reasoning.index = None THEN {}
                                    ELSE {[index |-> done.reasoning.index, item |-> ReasoningItem(done)]}
    BY DEF DoneReasoning
  <2>2. {i \in DOMAIN done.toolCalls : done.toolCalls[i].id # None} = {i \in DOMAIN done.toolCalls : done.toolCalls[i].done}
    BY <1>7
  <2>3. \A i \in {j \in DOMAIN done.toolCalls : done.toolCalls[j].done} :
            OrElse(done.toolCalls[i].block, i) = done.toolCalls[i].block
    BY <1>7 DEF OrElse
  <2>4. DoneCalls(done.toolCalls, done.finish) =
            {[index |-> OrElse(done.toolCalls[i].block, i), item |-> CallItem(done.toolCalls[i], done.finish)] :
             i \in {j \in DOMAIN done.toolCalls : done.toolCalls[j].id # None}}
    BY <2>2, <2>3 DEF DoneCalls
  <2>5. DoneIn(l) = DoneReasoning(done, TRUE) \cup ToSet(done.completedMessages) \cup DoneCalls(done.toolCalls, done.finish)
    BY <1>4 DEF Holding
  <2> QED
    BY <2>1, <2>4, <2>5 DEF OutputItems
<1>9. OpenItems(l) = {}
  <2>1. OpenReasoning(done, TRUE) = {} /\ OpenMessage(done) = {}
    BY <1>4 DEF OpenReasoning, OpenMessage
  <2>2. OpenCalls(done.toolCalls) = {}
    BY <1>7 DEF OpenCalls
  <2> QED
    BY <1>4, <2>1, <2>2 DEF Holding
<1>10. Indexed(DoneIn(l), n)
  <2>1. \A d \in DoneIn(l) : \E a \in AddedIn(l) : a = <<d.index, d.item.kind>>
    BY <1>6, OneKind
  <2>2. \A d, b \in DoneIn(l) : d.index = b.index => d = b
    BY <1>6, OneKind
  <2>3. \A d \in DoneIn(l) : d.index \in Nat /\ d.index < n
    BY <1>6, <2>1 DEF Account
  <2> QED
    BY <2>2, <2>3 DEF Indexed
<1>11. ToSet(Output(done)) = DoneIn(l) /\ Ascends(Output(done))
  <2>1. PICK base : base = <<>>
    OBVIOUS
  <2>2. IsEmpty(base)
    <3>1. IsList(<<>>) /\ Len(<<>>) = 0 /\ ToSet(<<>>) = {}
      BY NewCallIsCall DEF IsCall, NewCall, ToSet
    <3> QED
      BY <2>1, <3>1 DEF IsEmpty
  <2>3. Output(done) = Sorted(DoneIn(l), base)
    BY <1>8, <2>1, OutputIsSorted
  <2>4. PICK items : items = DoneIn(l)
    OBVIOUS
  <2>5. ToSet(Sorted(items, base)) = items /\ Ascends(Sorted(items, base))
    BY <1>6, <1>10, <2>2, <2>4, ItemsAreSorted
  <2> QED
    BY <2>3, <2>4, <2>5
<1>12. /\ e.type \in {"completed", "incomplete", "failed"} /\ e.output = Output(done)
  BY DEF Status
<1> HIDE DEF e
<1>13. t.out = m /\ t.terminalSent = TRUE /\ t.fatal = s.fatal
  <2>1. ItemFields \subseteq DOMAIN done
    BY <1>4 DEF Holding
  <2> QED
    BY <1>5, <2>1 DEF Send, ItemFields
<1> HIDE DEF l, n, t
<1>14. IsList(m) /\ Len(m) = Len(l) + 1 /\ m[Len(l) + 1] = e /\ Len(l) \in Nat /\ \A i \in 1..Len(l) : m[i] = l[i]
  BY <1>6, Appending DEF IsList, Account
<1>15. Follows(l, e)
  BY <1>12 DEF Follows
<1>16. ItemsPaired(m)
  BY <1>6, <1>15, ItemsGrow
<1>17. AddedIn(m) = AddedIn(l) /\ DoneIn(m) = DoneIn(l)
  <2>1. IsList(l) /\ e.type # "item_added" /\ e.type # "item_done"
    BY <1>6, <1>12 DEF Account
  <2>2. /\ AddedIn(Append(l, e)) = AddedIn(l) \cup (IF e.type = "item_added" THEN {<<e.index, e.kind>>} ELSE {})
        /\ DoneIn(Append(l, e)) = DoneIn(l) \cup
             (IF e.type = "item_done" THEN {[index |-> e.index, item |-> e.item]} ELSE {})
    BY <2>1, AddsGrow
  <2> QED
    BY <2>1, <2>2
<1>18. {d.index : d \in DoneIn(l)} = {a[1] : a \in AddedIn(l)}
  <2>1. \A a \in AddedIn(l) : \E d \in DoneIn(l) : d.index = a[1]
    BY <1>9 DEF OpenItems
  <2>2. \A d \in DoneIn(l) : \E a \in AddedIn(l) : a[1] = d.index
    <3>1. \A d \in DoneIn(l) : \E a \in AddedIn(l) : a = <<d.index, d.item.kind>>
      BY <1>6, OneKind
    <3> QED
      BY <3>1
  <2> QED
    BY <2>1, <2>2
<1>19. Listed(m)
  <2> SUFFICES ASSUME NEW i \in 1..Len(m), m[i].type \in {"completed", "incomplete"}
               PROVE  /\ ToSet(m[i].output) = DoneIn(m)
                      /\ {d.index : d \in ToSet(m[i].output)} = {a[1] : a \in AddedIn(m)}
                      /\ Ascends(m[i].output)
    BY DEF Listed
  <2>1. i \notin 1..Len(l)
    BY <1>6, <1>14 DEF Account
  <2>2. i = Len(l) + 1
    BY <1>14, <2>1
  <2>3. m[i].output = Output(done)
    BY <1>12, <1>14, <2>2
  <2> QED
    BY <1>11, <1>17, <1>18, <2>3
<1> HIDE DEF m
<1>20. WellItemized(t.out) /\ t.terminalSent /\ t.fatal = s.fatal
  BY <1>13, <1>14, <1>16, <1>19 DEF WellItemized
<1> QED
  BY <1>1, <1>20

\* The texts that were seen, and those of a chunk.
SeenFits(s) ==
    /\ {"reasoning", "content", "refusal"} \subseteq DOMAIN s.seen
    /\ IsList(s.seen.reasoning) /\ IsList(s.seen.content) /\ IsList(s.seen.refusal)
IsWordy(c) ==
    /\ {"reasoning", "content", "refusal", "calls", "finish", "usage"} \subseteq DOMAIN c
    /\ IsList(c.reasoning) /\ IsList(c.content) /\ IsList(c.refusal)
    /\ c.calls = <<>> \/ \E d : c.calls = <<d>>

\* What a chunk leaves alone, and what it says of the calls f that were known.
Alike(s, t) ==
    /\ t.fatal = s.fatal /\ t.terminalSent = s.terminalSent
    /\ t.roleSent = s.roleSent /\ t.claudeToolUses = s.claudeToolUses
    /\ t.claudeToolUseIndex = s.claudeToolUseIndex
Knows(f, t, calls) ==
    /\ calls = <<>> => t.toolCalls = f
    /\ \A d : calls = <<d>> =>
        /\ NoneDone(t) /\ DOMAIN t.toolCalls \subseteq DOMAIN f \cup {d.index}
        /\ \A i \in DOMAIN t.toolCalls :
            t.toolCalls[i].id \in {d.id, None} \/ \E j \in DOMAIN f : t.toolCalls[i].id = f[j].id

LEMMA OtherFieldsChange ==
    ASSUME NEW s, Holding(s, FALSE), NEW t, ItemFields \subseteq DOMAIN t, t.out = s.out,
           t.nextOutput = s.nextOutput, t.reasoning = s.reasoning, t.message = s.message,
           t.completedMessages = s.completedMessages, t.toolCalls = s.toolCalls,
           t.finish = s.finish \/ NoneDone(s)
    PROVE  Holding(t, FALSE)
<1>1. DoneCalls(t.toolCalls, t.finish) = DoneCalls(s.toolCalls, s.finish)
  <2>1. NoneDone(s) => \A finish : DoneCalls(s.toolCalls, finish) = {}
    BY DEF NoneDone, DoneCalls
  <2> QED
    BY <2>1
<1>2. /\ OpenReasoning(t, FALSE) = OpenReasoning(s, FALSE) /\ OpenMessage(t) = OpenMessage(s)
      /\ DoneReasoning(t, FALSE) = DoneReasoning(s, FALSE)
  BY DEF OpenReasoning, OpenMessage, DoneReasoning
<1> QED
  BY <1>1, <1>2 DEF Holding

LEMMA NewTextIsList ==
    ASSUME NEW text, IsList(text), NEW seen, IsList(seen)
    PROVE  IsList(NewText(text, seen))
<1>1. IsList(<<>>)
  BY NewCallIsCall DEF IsCall, NewCall
<1>2. PICK a \in Nat : a = Len(seen)
  BY DEF IsList
<1>3. PICK b \in Nat : b = Len(text)
  BY DEF IsList
<1>4. IsList(SubSeq(text, a + 1, b))
  <2>1. b \in Int /\ ~ b > Len(text)
    BY <1>3
  <2>2. IsList(SubSeq(text, a + 1, b)) \/ b > Len(text)
    BY <2>1, Cutting
  <2> QED
    BY <2>1, <2>2
<1>5. IsList(SubSeq(text, Len(seen) + 1, Len(text)))
  BY <1>2, <1>3, <1>4
<1> QED
  BY <1>1, <1>5 DEF NewText

LEMMA TextsAreSeen ==
    ASSUME NEW s, Holding(s, FALSE), SeenFits(s), NEW c, IsWordy(c)
    PROVE  LET new == Normalized(s, c)
               t == Created(Seen(s, new))
           IN /\ Holding(t, FALSE) /\ Alike(s, t) /\ t.finish = s.finish /\ t.toolCalls = s.toolCalls /\ SeenFits(t)
              /\ IsList(new.reasoning) /\ IsList(new.content) /\ IsList(new.refusal)
<1> DEFINE new == Normalized(s, c)
           u == Seen(s, new)
           e == [type |-> "created"]
           t == [Send(u, e) EXCEPT !.responsesStarted = TRUE]
<1>1. IsList(new.reasoning) /\ IsList(new.content) /\ IsList(new.refusal)
  <2>1. /\ new.reasoning = NewText(c.reasoning, s.seen.reasoning)
        /\ new.content = NewText(c.content, s.seen.content)
        /\ new.refusal = NewText(c.refusal, s.seen.refusal)
    BY DEF Normalized, IsWordy
  <2> QED
    BY <2>1, NewTextIsList DEF SeenFits, IsWordy
<1> HIDE DEF new
<1>2. /\ ItemFields \subseteq DOMAIN u /\ \A f \in ItemFields \ {"seen"} : u[f] = s[f]
      /\ u.seen = [reasoning |-> s.seen.reasoning \o new.reasoning,
                   content |-> s.seen.content \o new.content,
                   refusal |-> s.seen.refusal \o new.refusal]
  BY DEF Seen, Holding, ItemFields
<1> HIDE DEF u
<1>3. SeenFits(u)
  <2>1. /\ IsList(s.seen.reasoning \o new.reasoning) /\ IsList(s.seen.content \o new.content)
        /\ IsList(s.seen.refusal \o new.refusal)
    BY <1>1, Joining DEF SeenFits
  <2> QED
    BY <1>2, <2>1 DEF SeenFits
<1>4. Holding(u, FALSE) /\ Alike(s, u) /\ u.finish = s.finish /\ u.toolCalls = s.toolCalls
  <2>1. /\ u.out = s.out /\ u.nextOutput = s.nextOutput /\ u.reasoning = s.reasoning /\ u.message = s.message
        /\ u.completedMessages = s.completedMessages /\ u.toolCalls = s.toolCalls /\ u.finish = s.finish
        /\ Alike(s, u)
    BY <1>2 DEF ItemFields, Alike
  <2> QED
    BY <1>2, <2>1, OtherFieldsChange
<1>5. /\ ItemFields \subseteq DOMAIN t /\ t.out = Append(u.out, e)
      /\ \A f \in ItemFields \ {"out", "responsesStarted"} : t[f] = u[f]
  BY <1>2 DEF Send, ItemFields
<1>6. IsBeside(e)
  BY DEF IsBeside
<1> HIDE DEF e, t
<1>7. /\ t.nextOutput = u.nextOutput /\ t.reasoning = u.reasoning /\ t.message = u.message
      /\ t.completedMessages = u.completedMessages /\ t.toolCalls = u.toolCalls /\ t.finish = u.finish
      /\ Alike(u, t) /\ t.seen = u.seen
  BY <1>5 DEF ItemFields, Alike
<1>8. Holding(t, FALSE)
  BY <1>4, <1>5, <1>6, <1>7, BesideHolds
<1>9. Created(u) = IF u.responsesStarted THEN u ELSE t
  BY DEF Created, e, t
<1>10. Holding(t, FALSE) /\ Alike(s, t) /\ t.finish = s.finish /\ t.toolCalls = s.toolCalls /\ SeenFits(t)
  BY <1>3, <1>4, <1>7, <1>8 DEF Alike, SeenFits
<1>11. Holding(Created(u), FALSE) /\ Alike(s, Created(u)) /\ Created(u).finish = s.finish
       /\ Created(u).toolCalls = s.toolCalls /\ SeenFits(Created(u))
  BY <1>3, <1>4, <1>9, <1>10
<1> QED
  BY <1>1, <1>11 DEF new, u

LEMMA ItemsAreTold ==
    ASSUME NEW s, Holding(s, FALSE), SeenFits(s), NEW c, IsWordy(c),
           \A d : c.calls = <<d>> => NoneDone(s) /\ MayBeTold(s, d)
    PROVE  LET t == Itemized(s, c)
           IN /\ Holding(t, FALSE) /\ Alike(s, t) /\ t.finish = s.finish /\ SeenFits(t)
              /\ Knows(s.toolCalls, t, c.calls)
<1> DEFINE new == Normalized(s, c)
           started == Created(Seen(s, new))
           thought == ReasoningDelta(started, new.reasoning)
           told == MessageDelta(thought, "text", new.content)
           texts == MessageDelta(told, "refusal", new.refusal)
           done == MessageDone(texts)
           calls == FoldLeft(ToolCall, done, c.calls)
<1>1. Itemized(s, c) = IF c.calls = <<>> THEN texts ELSE calls
  BY DEF Itemized
<1>2. /\ Holding(started, FALSE) /\ Alike(s, started) /\ started.finish = s.finish
      /\ started.toolCalls = s.toolCalls /\ SeenFits(started)
      /\ IsList(new.reasoning) /\ IsList(new.content) /\ IsList(new.refusal)
  BY TextsAreSeen
<1> HIDE DEF new, started
<1>3. Notes(started, thought)
  BY <1>2, ReasoningIsTold
<1> HIDE DEF thought
<1>4. Notes(started, told)
  <2>1. Holding(thought, FALSE)
    BY <1>3 DEF Notes
  <2>2. Notes(thought, MessageDelta(thought, "text", new.content))
    BY <1>2, <2>1, MessageIsTold
  <2>3. Notes(thought, told)
    BY <2>2
  <2> QED
    BY <1>3, <2>3, NotesAgain
<1> HIDE DEF told
<1>5. Notes(started, texts)
  <2>1. Holding(told, FALSE)
    BY <1>4 DEF Notes
  <2>2. Notes(told, MessageDelta(told, "refusal", new.refusal))
    BY <1>2, <2>1, MessageIsTold
  <2>3. Notes(told, texts)
    BY <2>2
  <2> QED
    BY <1>4, <2>3, NotesAgain
<1> HIDE DEF texts
<1>6. Holding(texts, FALSE) /\ Frame(started, texts) /\ texts.toolCalls = s.toolCalls
  BY <1>2, <1>5 DEF Notes
<1>7. Holding(done, FALSE) /\ Frame(texts, done) /\ done.toolCalls = texts.toolCalls
  <2>1. FALSE \in BOOLEAN
    OBVIOUS
  <2> QED
    BY <1>6, <2>1, MessageIsDone
<1> HIDE DEF done
<1>8. ASSUME NEW t, Frame(started, t)
      PROVE  Alike(s, t) /\ t.finish = s.finish /\ SeenFits(t)
  BY <1>2, <1>8 DEF Frame, Alike, SeenFits
<1>9. CASE c.calls = <<>>
  <2>1. Itemized(s, c) = texts
    BY <1>1, <1>9
  <2>2. Knows(s.toolCalls, texts, c.calls)
    <3>1. \A d : <<d>> # <<>>
      OBVIOUS
    <3> QED
      BY <1>6, <1>9, <3>1 DEF Knows
  <2> QED
    BY <1>6, <1>8, <2>1, <2>2
<1>10. CASE c.calls # <<>>
  <2>1. PICK d : c.calls = <<d>>
    BY <1>10 DEF IsWordy
  <2>2. Itemized(s, c) = calls
    BY <1>1, <1>10
  <2>3. calls = ToolCall(done, d)
    <3>1. OneAtMost(c.calls)
      BY <2>1 DEF OneAtMost, MayBeTold
    <3>2. \E b : c.calls = <<b>> /\ FoldLeft(ToolCall, done, c.calls) = ToolCall(done, b)
      BY <1>10, <3>1, CallsOfChunk
    <3>3. \A b : <<b>> = <<d>> => b = d
      OBVIOUS
    <3> QED
      BY <2>1, <3>2, <3>3
  <2>4. NoneDone(done) /\ MayBeTold(done, d)
    <3>1. NoneDone(s) /\ MayBeTold(s, d)
      BY <2>1
    <3> QED
      BY <1>6, <1>7, <3>1 DEF NoneDone, MayBeTold
  <2> HIDE DEF calls
  <2>5. AreTold(done, calls, {d.index}, {d.id})
    BY <1>7, <2>3, <2>4, CallIsTold
  <2>6. Holding(calls, FALSE) /\ Frame(started, calls)
    BY <1>6, <1>7, <2>5 DEF AreTold, Frame
  <2>7. Knows(s.toolCalls, calls, c.calls)
    <3>1. \A b : c.calls = <<b>> => b = d
      BY <2>1
    <3>2. /\ NoneDone(calls) /\ DOMAIN calls.toolCalls \subseteq DOMAIN s.toolCalls \cup {d.index}
          /\ \A i \in DOMAIN calls.toolCalls :
                calls.toolCalls[i].id \in {d.id, None} \/ \E j \in DOMAIN s.toolCalls : calls.toolCalls[i].id = s.toolCalls[j].id
      BY <1>6, <1>7, <2>5 DEF AreTold
    <3> QED
      BY <1>10, <3>1, <3>2 DEF Knows
  <2> QED
    BY <1>8, <2>2, <2>6, <2>7
<1> QED
  BY <1>9, <1>10

\* A response that is over, with all of its items listed.
IsListed(s, t) == t.terminalSent /\ t.fatal = s.fatal /\ WellItemized(t.out)

\* After a chunk with these calls and this finish: the response is over, or its items are known.
ItemsComeTo(s, calls, finish, t) ==
    \/ IsListed(s, t)
    \/ /\ Holding(t, FALSE) /\ SeenFits(t) /\ Alike(s, t) /\ t.finish = OrElse(finish, s.finish)
       /\ finish # "tool_calls" => Knows(s.toolCalls, t, calls)

\* The end of a response.
LEMMA ResponseIsListed ==
    ASSUME NEW s, Holding(s, FALSE)
    PROVE  IsListed(s, Terminal(FlushAll(s)))
<1> DEFINE t == FlushAll(s)
<1>1. FlushedFor(s, DOMAIN s.toolCalls, t)
  BY CallsAreFlushedOut
<1> HIDE DEF t
<1>2. Holding(t, FALSE) /\ EveryAdded(t) /\ t.fatal = s.fatal
  BY <1>1 DEF FlushedFor, EveryAdded, OfCalls, Frame
<1>3. WellItemized(Terminal(t).out) /\ Terminal(t).terminalSent /\ Terminal(t).fatal = t.fatal
  BY <1>2, TerminalIsListed
<1>4. IsListed(s, Terminal(t))
  BY <1>2, <1>3 DEF IsListed
<1> QED
  BY <1>4 DEF t

\* The finish is known.
LEMMA FinishIsSet ==
    ASSUME NEW s, Holding(s, FALSE), SeenFits(s), NEW c, IsWordy(c), c.finish # None => NoneDone(s),
           \A d : c.calls = <<d>> => NoneDone(s) /\ MayBeTold(s, d)
    PROVE  LET t == Finishing(s, c)
           IN /\ Holding(t, FALSE) /\ Alike(s, t) /\ t.finish = OrElse(c.finish, s.finish) /\ SeenFits(t)
              /\ Knows(s.toolCalls, t, c.calls)
<1> DEFINE m == Itemized(s, c)
           t == [m EXCEPT !.usage = @ \/ c.usage, !.finish = OrElse(c.finish, @)]
<1>1. /\ Holding(m, FALSE) /\ Alike(s, m) /\ m.finish = s.finish /\ SeenFits(m)
      /\ Knows(s.toolCalls, m, c.calls)
  BY ItemsAreTold
<1>2. c.finish # None => NoneDone(m)
  <2>1. CASE c.calls = <<>>
    <3>1. m.toolCalls = s.toolCalls
      BY <1>1, <2>1 DEF Knows
    <3> QED
      BY <3>1 DEF NoneDone
  <2>2. CASE \E d : c.calls = <<d>>
    BY <1>1, <2>2 DEF Knows
  <2> QED
    BY <2>1, <2>2 DEF IsWordy
<1> HIDE DEF m
<1>3. ItemFields \subseteq DOMAIN m
  BY <1>1 DEF Holding
<1>4. /\ ItemFields \subseteq DOMAIN t /\ t.finish = OrElse(c.finish, m.finish)
      /\ t.out = m.out /\ t.nextOutput = m.nextOutput /\ t.reasoning = m.reasoning
      /\ t.message = m.message /\ t.completedMessages = m.completedMessages
      /\ t.toolCalls = m.toolCalls /\ t.seen = m.seen /\ Alike(m, t)
  BY <1>3 DEF ItemFields, Alike
<1> HIDE DEF t
<1>5. t.finish = m.finish \/ NoneDone(m)
  BY <1>2, <1>4 DEF OrElse
<1>6. Holding(t, FALSE)
  BY <1>1, <1>4, <1>5, OtherFieldsChange
<1>7. Alike(s, t) /\ t.finish = OrElse(c.finish, s.finish) /\ SeenFits(t)
  BY <1>1, <1>4 DEF Alike, SeenFits
<1>8. Knows(s.toolCalls, t, c.calls)
  BY <1>1, <1>4 DEF Knows, NoneDone
<1>9. Finishing(s, c) = t
  BY DEF Finishing, t, m
<1> QED
  BY <1>6, <1>7, <1>8, <1>9

LEMMA ChunkIsItemized ==
    ASSUME NEW s, Holding(s, FALSE), SeenFits(s), ~ s.terminalSent, NEW c, IsWordy(c), c.finish # None => NoneDone(s),
           \A d : c.calls = <<d>> => NoneDone(s) /\ MayBeTold(s, d), NEW waits
    PROVE  ItemsComeTo(s, c.calls, c.finish, ResponsesSink(s, c, waits))
<1> DEFINE m == Finishing(s, c)
           all == FlushAll(m)
           flushed == IF c.finish = "tool_calls" THEN CallsDone(all, "tool_calls") ELSE m
<1>1. /\ Holding(m, FALSE) /\ Alike(s, m) /\ m.finish = OrElse(c.finish, s.finish) /\ SeenFits(m)
      /\ Knows(s.toolCalls, m, c.calls)
  BY FinishIsSet
<1>2. ResponsesSink(s, c, waits) =
        IF c.finish \in FailingFinishes THEN Terminal(FlushAll(m))
        ELSE IF ShouldFinalize(flushed, c, waits) THEN Terminal(FlushAll(flushed)) ELSE flushed
  BY ResponsesCases
<1> HIDE DEF m
<1>3. /\ Holding(flushed, FALSE) /\ Alike(s, flushed) /\ flushed.finish = OrElse(c.finish, s.finish)
      /\ SeenFits(flushed)
  <2>1. CASE c.finish # "tool_calls"
    BY <1>1, <2>1
  <2>2. CASE c.finish = "tool_calls"
    <3>1. FlushedFor(m, DOMAIN m.toolCalls, all)
      BY <1>1, CallsAreFlushedOut
    <3> HIDE DEF all
    <3>2. Holding(all, FALSE) /\ Frame(m, all)
      BY <3>1 DEF FlushedFor, OfCalls
    <3>3. EndedFor(all, FALSE, DOMAIN all.toolCalls, CallsDone(all, all.finish))
      <4>1. FALSE \in BOOLEAN
        OBVIOUS
      <4> QED
        BY <3>2, <4>1, CallsAreEnded
    <3>4. all.finish = "tool_calls"
      <4>1. c.finish # None
        BY <2>2, NoneAssumption
      <4> QED
        BY <1>1, <2>2, <3>2, <4>1 DEF Frame, OrElse
    <3>5. EndedFor(all, FALSE, DOMAIN all.toolCalls, flushed)
      BY <2>2, <3>3, <3>4
    <3> HIDE DEF flushed
    <3>6. Holding(flushed, FALSE) /\ Frame(all, flushed)
      BY <3>5 DEF EndedFor, OfCalls
    <3> QED
      BY <1>1, <3>2, <3>6 DEF Frame, Alike, SeenFits
  <2> QED
    BY <2>1, <2>2
<1>4. c.finish # "tool_calls" => Knows(s.toolCalls, flushed, c.calls)
  BY <1>1
<1> HIDE DEF flushed
<1>5. IsListed(s, Terminal(FlushAll(m))) /\ IsListed(s, Terminal(FlushAll(flushed)))
  <2>1. IsListed(m, Terminal(FlushAll(m))) /\ IsListed(flushed, Terminal(FlushAll(flushed)))
    BY <1>1, <1>3, ResponseIsListed
  <2> QED
    BY <1>1, <1>3, <2>1 DEF IsListed, Alike
<1> QED
  BY <1>2, <1>3, <1>4, <1>5 DEF ItemsComeTo

LEMMA HoldingIsWell ==
    ASSUME NEW s, NEW over, Holding(s, over)
    PROVE  WellItemized(s.out)
BY DEF Holding, Account, WellItemized, Listed

LEMMA NothingIsList ==
    /\ IsList(<<>>) /\ Len(<<>>) = 0 /\ ToSet(<<>>) = {}
    /\ \A x, part : SaidIn(<<>>, x, part) = <<>>
<1>1. IsList(<<>>)
  BY NewCallIsCall DEF IsCall, NewCall
<1>2. Len(<<>>) = 0 /\ ToSet(<<>>) = {}
  BY DEF ToSet
<1>3. ASSUME NEW x, NEW part
      PROVE  SaidIn(<<>>, x, part) = <<>>
  <2> DEFINE l == [i \in 1..Len(<<>>) |-> TextOf(<<>>[i], x, part)]
  <2>1. Len(l) = 0 /\ IsList(l)
    BY <1>2 DEF IsList
  <2> HIDE DEF l
  <2>2. FlattenSeq(l) = <<>>
    BY <1>1, <2>1, FlatteningOneMore
  <2> QED
    BY <2>2 DEF SaidIn, l
<1> QED
  BY <1>1, <1>2, <1>3

LEMMA ItemsAtStart ==
    Holding(InitialState, FALSE) /\ SeenFits(InitialState) /\ NoneDone(InitialState)
<1> DEFINE s == InitialState
           l == <<>>
<1>1. PICK m : m = l
  OBVIOUS
<1>2. /\ IsList(m) /\ Len(m) = 0 /\ ToSet(m) = {} /\ \A x, part : SaidIn(m, x, part) = m
  BY <1>1, NothingIsList
<1>3. /\ s.out = m /\ s.nextOutput = 0 /\ s.reasoning = [index |-> None, text |-> m]
      /\ s.message = [index |-> None, parts |-> m] /\ s.completedMessages = m
      /\ s.toolCalls = NoCalls /\ ItemFields \subseteq DOMAIN s
      /\ s.seen = [reasoning |-> m, content |-> m, refusal |-> m]
  BY <1>1 DEF InitialState, ItemFields
<1> HIDE DEF l, s
<1>4. Adds(m) = {} /\ Dones(m) = {} /\ AddedIn(m) = {} /\ DoneIn(m) = {}
  BY <1>2 DEF Adds, Dones, AddedIn, DoneIn
<1>5. Account(m, 0)
  BY <1>2, <1>4 DEF Account, ItemsPaired
<1>6. DOMAIN NoCalls = {}
  BY DEF NoCalls
<1>7. ReasoningFits(s.reasoning, m) /\ MessageFits(s.message, m)
  <2>1. s.reasoning.index = None /\ s.reasoning.text = m /\ DOMAIN s.reasoning = {"index", "text"}
    BY <1>3
  <2>2. s.message.index = None /\ s.message.parts = m /\ DOMAIN s.message = {"index", "parts"}
    BY <1>3
  <2>3. m = <<>>
    BY <1>1 DEF l
  <2>4. ReasoningFits(s.reasoning, m)
    BY <1>2, <2>1, <2>3 DEF ReasoningFits
  <2>5. MessageFits(s.message, m)
    BY <1>2, <2>2 DEF MessageFits
  <2> QED
    BY <2>4, <2>5
<1>8. CallsFit(s.toolCalls, m, 0)
  BY <1>3, <1>6 DEF CallsFit, Bounded
<1>9. OpenItems(m) = OpenReasoning(s, FALSE) \cup OpenMessage(s) \cup OpenCalls(s.toolCalls)
  BY <1>3, <1>4, <1>6 DEF OpenItems, OpenReasoning, OpenMessage, OpenCalls
<1>10. DoneIn(m) = DoneReasoning(s, FALSE) \cup ToSet(s.completedMessages) \cup DoneCalls(s.toolCalls, s.finish)
  BY <1>2, <1>3, <1>4, <1>6 DEF DoneReasoning, DoneCalls
<1>11. Holding(s, FALSE)
  BY <1>2, <1>3, <1>5, <1>7, <1>8, <1>9, <1>10 DEF Holding
<1>12. SeenFits(s) /\ NoneDone(s)
  BY <1>2, <1>3, <1>6 DEF SeenFits, NoneDone
<1> QED
  BY <1>11, <1>12 DEF s

\* What WellItemized says of what the client has got.
LEMMA ItemsAreEnough ==
    ASSUME WellItemized(state.out)
    PROVE  ItemsArePaired /\ OutputIsWhatIsDone
<1>1. IsList(out) /\ ItemsPaired(out) /\ Listed(out)
  BY DEF WellItemized, out
<1>2. DOMAIN out = 1..Len(out)
  BY <1>1 DEF IsList
<1>3. /\ Positions("item_added") = Adds(out) /\ Positions("item_done") = Dones(out)
      /\ \A i : i \in Positions("delta") <=> i \in 1..Len(out) /\ out[i].type = "delta"
      /\ \A i : i \in Positions("completed") \cup Positions("incomplete")
            <=> i \in 1..Len(out) /\ out[i].type \in {"completed", "incomplete"}
  BY <1>2 DEF Positions, Is, Adds, Dones
<1>4. \A x, part : FlattenSeq([i \in DOMAIN out |->
                            IF Is(i, "delta") /\ out[i].index = x /\ out[i].part = part
                            THEN out[i].text ELSE <<>>]) = SaidIn(out, x, part)
  <2> TAKE x, part
  <2>1. [i \in DOMAIN out |-> IF Is(i, "delta") /\ out[i].index = x /\ out[i].part = part
                              THEN out[i].text ELSE <<>>]
        = [i \in 1..Len(out) |-> TextOf(out[i], x, part)]
    BY <1>2 DEF Is, TextOf
  <2> QED
    BY <2>1 DEF SaidIn
<1>5. ItemsArePaired
  <2>1. /\ \A i \in Adds(out) : {j \in Adds(out) : out[j].index = out[i].index} = {i}
        /\ \A i \in Dones(out) : {j \in Dones(out) : out[j].index = out[i].index} = {i}
    BY <1>1 DEF ItemsPaired
  <2>2. \A i \in Positions("delta") :
            /\ \E j \in {k \in Adds(out) : out[k].index = out[i].index} : j < i
            /\ \A j \in {k \in Dones(out) : out[k].index = out[i].index} : i < j
    BY <1>1, <1>3 DEF ItemsPaired
  <2>3. \A i \in Dones(out) :
            /\ \E j \in {k \in Adds(out) : out[k].index = out[i].index} : j < i /\ out[j].kind = out[i].item.kind
            /\ \A part \in PartsOf(out[i].item) : part.text = SaidIn(out, out[i].index, part.kind)
    BY <1>1 DEF ItemsPaired
  <2>4. \A i \in Dones(out) :
            \A part \in IF out[i].item.kind = "message" THEN ToSet(out[i].item.body)
                       ELSE {[kind |-> out[i].item.kind, text |-> out[i].item.body]} :
                part.text = FlattenSeq([k \in DOMAIN out |->
                                IF Is(k, "delta") /\ out[k].index = out[i].index /\ out[k].part = part.kind
                                THEN out[k].text ELSE <<>>])
    <3> SUFFICES ASSUME NEW i \in Dones(out), NEW part \in PartsOf(out[i].item)
                 PROVE  part.text = FlattenSeq([k \in DOMAIN out |->
                                IF Is(k, "delta") /\ out[k].index = out[i].index /\ out[k].part = part.kind
                                THEN out[k].text ELSE <<>>])
      BY DEF PartsOf
    <3>1. part.text = SaidIn(out, out[i].index, part.kind)
      BY <2>3
    <3>2. FlattenSeq([k \in DOMAIN out |->
                            IF Is(k, "delta") /\ out[k].index = out[i].index /\ out[k].part = part.kind
                            THEN out[k].text ELSE <<>>]) = SaidIn(out, out[i].index, part.kind)
      BY <1>4
    <3> QED
      BY <3>1, <3>2
  <2>5. /\ \A i \in Positions("item_added") : {j \in Positions("item_added") : out[j].index = out[i].index} = {i}
        /\ \A i \in Positions("delta") :
            /\ \E j \in {k \in Positions("item_added") : out[k].index = out[i].index} : j < i
            /\ \A j \in {k \in Positions("item_done") : out[k].index = out[i].index} : i < j
    BY <1>3, <2>1, <2>2
  <2>6. \A i \in Positions("item_done") :
            /\ {j \in Positions("item_done") : out[j].index = out[i].index} = {i}
            /\ \E j \in {k \in Positions("item_added") : out[k].index = out[i].index} :
                    j < i /\ out[j].kind = out[i].item.kind
            /\ \A part \in IF out[i].item.kind = "message" THEN ToSet(out[i].item.body)
                       ELSE {[kind |-> out[i].item.kind, text |-> out[i].item.body]} :
                part.text = FlattenSeq([k \in DOMAIN out |->
                                IF Is(k, "delta") /\ out[k].index = out[i].index /\ out[k].part = part.kind
                                THEN out[k].text ELSE <<>>])
    BY <1>3, <2>1, <2>3, <2>4
  <2> QED
    BY <2>5, <2>6, Zenon DEF ItemsArePaired
<1>6. OutputIsWhatIsDone
  <2> SUFFICES ASSUME NEW i \in Positions("completed") \cup Positions("incomplete")
               PROVE  /\ ToSet(out[i].output) = {[index |-> out[j].index, item |-> out[j].item] : j \in Positions("item_done")}
                      /\ {e.index : e \in ToSet(out[i].output)} = {out[j].index : j \in Positions("item_added")}
                      /\ \A j \in 1..(Len(out[i].output) - 1) : out[i].output[j].index < out[i].output[j + 1].index
    BY DEF OutputIsWhatIsDone
  <2>1. /\ ToSet(out[i].output) = DoneIn(out)
        /\ {e.index : e \in ToSet(out[i].output)} = {a[1] : a \in AddedIn(out)}
        /\ Ascends(out[i].output)
    BY <1>1, <1>3 DEF Listed
  <2>2. {a[1] : a \in AddedIn(out)} = {out[j].index : j \in Adds(out)}
    <3>1. \A j \in Adds(out) : <<out[j].index, out[j].kind>> \in AddedIn(out)
      BY DEF AddedIn
    <3>2. \A a \in AddedIn(out) : \E j \in Adds(out) : a = <<out[j].index, out[j].kind>>
      BY DEF AddedIn
    <3>3. ASSUME NEW j \in Adds(out)
          PROVE  out[j].index \in {a[1] : a \in AddedIn(out)}
      <4>1. <<out[j].index, out[j].kind>>[1] = out[j].index
        OBVIOUS
      <4> QED
        BY <3>1, <4>1
    <3>4. ASSUME NEW a \in AddedIn(out)
          PROVE  a[1] \in {out[j].index : j \in Adds(out)}
      <4>1. PICK j \in Adds(out) : a = <<out[j].index, out[j].kind>>
        BY <3>2
      <4>2. a[1] = out[j].index
        BY <4>1
      <4> QED
        BY <4>2
    <3> QED
      BY <3>3, <3>4
  <2> QED
    BY <1>3, <2>1, <2>2 DEF DoneIn, Ascends
<1> QED
  BY <1>5, <1>6

Ready(s) == Holding(s, FALSE) /\ SeenFits(s) /\ ~ s.terminalSent

\* What a response's client has got: all is over, or the items are known.
Turns(t) == WellItemized(t.out) /\ (~ t.terminalSent => Holding(t, FALSE) /\ SeenFits(t))

LEMMA ResponsesIsTold ==
    ASSUME pair[2] = "responses", NEW s, NEW c
    PROVE  ToClient(s, c) = ResponsesSink(s, c, cumulative)
BY DEF ToClient

\* A source changes what no item depends on.
LEMMA SourcesKeep ==
    ASSUME NEW s, Ready(s), NEW t, ItemFields \subseteq DOMAIN t, t.out = s.out,
           t.nextOutput = s.nextOutput, t.reasoning = s.reasoning, t.message = s.message,
           t.completedMessages = s.completedMessages, t.toolCalls = s.toolCalls,
           t.seen = s.seen, t.terminalSent = s.terminalSent, t.finish = s.finish \/ NoneDone(s)
    PROVE  Ready(t) /\ (NoneDone(s) => NoneDone(t))
<1>1. Holding(t, FALSE)
  BY OtherFieldsChange DEF Ready
<1> QED
  BY <1>1 DEF Ready, SeenFits, NoneDone

LEMMA ItemsTurn ==
    ASSUME NEW s, NEW calls, NEW finish, NEW t, ItemsComeTo(s, calls, finish, t)
    PROVE  Turns(t) /\ t.fatal = s.fatal
<1>1. IsListed(s, t) => Turns(t)
  BY DEF IsListed, Turns
<1>2. Holding(t, FALSE) /\ SeenFits(t) => Turns(t)
  BY HoldingIsWell DEF Turns
<1> QED
  BY <1>1, <1>2 DEF ItemsComeTo, IsListed, Alike

\* A stream that is refused.
LEMMA RefusedIsListed ==
    ASSUME pair[2] = "responses", NEW s, Ready(s), NoneDone(s)
    PROVE  LET t == FoldLeft(ToClient, Rejected(s).state, Rejected(s).chunks)
           IN Turns(t) /\ t.fatal
<1> DEFINE r == Rejected(s).state
           c == [EmptyChunk EXCEPT !.finish = "error", !.error = TRUE, !.usage = s.usage]
           t == FoldLeft(ToClient, Rejected(s).state, Rejected(s).chunks)
<1>1. t = ResponsesSink(r, c, cumulative)
  <2>1. Rejected(s).chunks = <<c>>
    BY DEF Rejected
  <2>2. t = ToClient(r, c)
    BY <2>1, OneChunk
  <2> QED
    BY <2>2, ResponsesIsTold
<1>2. r = [s EXCEPT !.fatal = TRUE, !.finish = "error", !.finishSent = TRUE]
  BY DEF Rejected
<1>3. ItemFields \subseteq DOMAIN s
  BY DEF Ready, Holding
<1> HIDE DEF r
<1>4. r.fatal /\ DOMAIN r = DOMAIN s /\ \A f \in ItemFields \ {"fatal", "finish"} : r[f] = s[f]
  BY <1>2, <1>3 DEF ItemFields
<1>5. Ready(r) /\ NoneDone(r)
  <2>1. /\ ItemFields \subseteq DOMAIN r /\ r.out = s.out
        /\ r.nextOutput = s.nextOutput /\ r.reasoning = s.reasoning /\ r.message = s.message
        /\ r.completedMessages = s.completedMessages /\ r.toolCalls = s.toolCalls
        /\ r.seen = s.seen /\ r.terminalSent = s.terminalSent
    BY <1>3, <1>4 DEF ItemFields
  <2> QED
    BY <2>1, SourcesKeep
<1>6. IsWordy(c) /\ c.calls = <<>>
  <2>1. c.calls = <<>> /\ c.reasoning = <<>> /\ c.content = <<>> /\ c.refusal = <<>> /\ DOMAIN c = DOMAIN EmptyChunk
    BY DEF EmptyChunk
  <2>2. {"reasoning", "content", "refusal", "calls", "finish", "usage"} \subseteq DOMAIN EmptyChunk
    BY DEF EmptyChunk
  <2> HIDE DEF c
  <2> QED
    BY <2>1, <2>2, NothingIsList DEF IsWordy
<1> HIDE DEF c
<1>7. \A d : <<d>> # <<>>
  OBVIOUS
<1>8. ItemsComeTo(r, c.calls, c.finish, ResponsesSink(r, c, cumulative))
  BY <1>5, <1>6, <1>7, ChunkIsItemized DEF Ready
<1> HIDE DEF t
<1>9. ItemsComeTo(r, c.calls, c.finish, t)
  BY <1>1, <1>8
<1>10. Turns(t) /\ t.fatal = r.fatal
  BY <1>9, ItemsTurn
<1>11. Turns(t) /\ t.fatal
  BY <1>4, <1>10
<1> QED
  BY <1>11 DEF t

\* A chunk of a chat upstream: it is refused, or its items come.
LEMMA ChatChunkIsItemized ==
    ASSUME pair = <<"chat", "responses">>, NEW s, Ready(s), ~ s.fatal, NEW c, IsWordy(c),
           c.finish # None => NoneDone(s),
           \A d : c.calls = <<d>> => NoneDone(s) /\ MayBeTold(s, d)
    PROVE  LET t == Translate(s, [type |-> "chunk", chunk |-> c])
           IN (Turns(t) /\ t.fatal) \/ ItemsComeTo(s, c.calls, c.finish, t)
<1> DEFINE event == [type |-> "chunk", chunk |-> c]
           r == [s EXCEPT !.usage = @ \/ c.usage]
           t == Translate(s, event)
<1>1. CASE IsRefused(event)
  <2>1. t = FoldLeft(ToClient, Rejected(s).state, Rejected(s).chunks)
    BY <1>1 DEF Translate
  <2>2. NoneDone(s)
    <3>1. \E i \in DOMAIN c.calls : c.calls[i].name = "reserved"
      BY <1>1 DEF IsRefused
    <3>2. c.calls # <<>>
      BY <3>1
    <3> QED
      BY <3>2 DEF IsWordy
  <2>3. Turns(t) /\ t.fatal
    BY <2>1, <2>2, RefusedIsListed
  <2> HIDE DEF t
  <2> QED
    BY <2>3 DEF t
<1>2. CASE ~ IsRefused(event)
  <2>1. Source(s, event) = Give(From(r), c)
    BY DEF Source
  <2>2. t = FoldLeft(ToClient, Give(From(r), c).state, Give(From(r), c).chunks)
    BY <1>2, <2>1 DEF Translate
  <2>3. /\ ItemFields \subseteq DOMAIN r /\ \A f \in ItemFields \ {"usage"} : r[f] = s[f]
    <3> DEFINE v == s.usage \/ c.usage
    <3>1. r = [s EXCEPT !["usage"] = v]
      OBVIOUS
    <3>2. ItemFields \subseteq DOMAIN s
      BY DEF Ready, Holding
    <3> HIDE DEF r, v
    <3> QED
      BY <3>1, <3>2
  <2> HIDE DEF r
  <2>4. Give(From(r), c).state = r /\ Give(From(r), c).chunks = Append(<<>>, c)
    BY DEF Give, From
  <2>5. Append(<<>>, c) = <<c>>
    OBVIOUS
  <2>6. t = ToClient(r, c)
    BY <2>2, <2>4, <2>5, OneChunk
  <2>7. t = ResponsesSink(r, c, cumulative)
    BY <2>6, ResponsesIsTold
  <2> HIDE DEF t
  <2>8. /\ r.out = s.out /\ r.nextOutput = s.nextOutput /\ r.reasoning = s.reasoning /\ r.message = s.message
        /\ r.completedMessages = s.completedMessages /\ r.toolCalls = s.toolCalls
        /\ r.seen = s.seen /\ r.terminalSent = s.terminalSent /\ r.finish = s.finish /\ Alike(s, r)
    BY <2>3 DEF ItemFields, Alike
  <2>9. Ready(r) /\ (NoneDone(s) => NoneDone(r))
    BY <2>3, <2>8, SourcesKeep
  <2>10. \A d : c.calls = <<d>> => NoneDone(r) /\ MayBeTold(r, d)
    BY <2>8, <2>9 DEF MayBeTold
  <2>11. ItemsComeTo(r, c.calls, c.finish, t)
    <3>1. c.finish # None => NoneDone(r)
      BY <2>9
    <3>2. ItemsComeTo(r, c.calls, c.finish, ResponsesSink(r, c, cumulative))
      BY <2>9, <2>10, <3>1, ChunkIsItemized DEF Ready
    <3> QED
      BY <2>7, <3>2
  <2>12. ItemsComeTo(s, c.calls, c.finish, t)
    BY <2>8, <2>11 DEF ItemsComeTo, IsListed, Alike
  <2> QED
    BY <2>12 DEF t
<1> QED
  BY <1>1, <1>2

\* The indices and the ids under which a chat upstream's calls may be known.
KeyFits(i, calls) ==
    i \in Nat /\ (i < Len(calls) \/ (i = MaxCalls /\ Len(calls) # 0 /\ calls[1].index # 0))
IdFits(id, calls) == id = None \/ id \in 1..Len(calls)

ChatKnows(s, calls) ==
    NoneDone(s) /\ \A i \in DOMAIN s.toolCalls : KeyFits(i, calls) /\ IdFits(s.toolCalls[i].id, calls)

\* What a chat upstream keeps to: its calls are numbered in order, but its first may come
\* under another index.
ChatSays(q) ==
    /\ IsList(q.text) /\ IsList(q.thought) /\ Len(q.calls) <= MaxCalls
    /\ \A j \in 1..Len(q.calls) : q.calls[j].index = j - 1 \/ (j = 1 /\ q.calls[1].index = MaxCalls)

UseFields == {"index", "id", "args", "zeroArg", "seeded", "emitted", "finalized"}

\* A tool use of an Anthropic upstream that the client was not told yet.
IsUntold(s, use) ==
    /\ use.index \in Nat /\ use.index < s.claudeToolUseIndex /\ use.id = use.index + 1
    /\ use.index \notin DOMAIN s.toolCalls /\ \A j \in DOMAIN s.toolCalls : s.toolCalls[j].id # use.id
    /\ IsList(use.args)

\* The only use that was not told is that of the open block.
UsesKnown(s, q) ==
    /\ NoneDone(s) /\ (q.phase # "start" => s.roleSent)
    /\ s.claudeToolUseIndex = Len(q.calls) /\ (q.phase = "start" => Len(q.calls) = 0)
    /\ \A i \in DOMAIN s.toolCalls : i < Len(q.calls) /\ IdFits(s.toolCalls[i].id, q.calls)
    /\ \A k \in DOMAIN s.claudeToolUses :
        /\ k < q.blocks /\ UseFields \subseteq DOMAIN s.claudeToolUses[k]
        /\ ~ s.claudeToolUses[k].finalized =>
            q.block # None /\ k = q.blocks - 1 /\ IsUntold(s, s.claudeToolUses[k])

\* What a Responses client has got is well-formed; until its end the state knows the items,
\* and the calls that are still to come.
ItemsInv ==
    pair[2] = "responses" =>
        /\ Turns(state)
        /\ ~ state.fatal /\ up.phase \in {"start", "open"} /\ pair[1] = "chat" =>
            ChatKnows(state, up.calls) /\ ChatSays(up)
        /\ ~ state.fatal /\ up.phase # "ended" /\ pair[1] = "anthropic" => UsesKnown(state, up)

LEMMA BecomingAll ==
    ASSUME KeepsOn(up), NEW q, DOMAIN q = DOMAIN up, NEW event, Receive(event, q)
    PROVE  /\ up'.last = event /\ ~ state.fatal /\ up'.phase = q.phase /\ up'.calls = q.calls
           /\ up'.text = q.text /\ up'.thought = q.thought /\ up'.block = q.block /\ up'.blocks = q.blocks
<1>1. up' = [q EXCEPT !.events = @ + 1, !.last = event] /\ ~ state.fatal
  BY DEF Receive
<1>2. {"phase", "events", "calls", "block", "blocks", "last", "text", "thought"} \subseteq DOMAIN q
  BY DEF KeepsOn
<1> QED
  BY <1>1, <1>2

LEMMA ItemsAreOver ==
    ASSUME IsTold, Turns(state'), pair[1] \in {"chat", "anthropic"},
           state'.fatal \/ up'.phase = "ended" \/ (pair[1] = "chat" /\ up'.phase = "finished")
    PROVE  ItemsInv'
<1>1. pair' = pair
  BY DEF IsTold
<1> QED
  BY <1>1 DEF ItemsInv

LEMMA ReadyNow ==
    ASSUME EndsInv, ItemsInv, pair[2] = "responses", ~ state.fatal,
           up.phase \in {"start", "open"} \/ (pair[1] = "anthropic" /\ up.phase = "finished")
    PROVE  Ready(state) /\ KeepsOn(up) /\ pair \in Pairs
<1>1. Live(state)
  BY DEF EndsInv, StreamInv
<1>2. Turns(state)
  BY DEF ItemsInv
<1> QED
  BY <1>1, <1>2 DEF Live, Turns, Ready, EndsInv

\* A chunk of a chat upstream that goes on.
LEMMA ChatItemsGoOn ==
    ASSUME EndsInv, EndsInv', ItemsInv, IsTold, pair = <<"chat", "responses">>, up.phase \in {"start", "open"},
           NEW c, NEW q, DOMAIN q = DOMAIN up, Receive([type |-> "chunk", chunk |-> c], q),
           q.phase \in {"start", "open"}, IsWordy(c), c.finish = None, ChatSays(q),
           \A i : KeyFits(i, up.calls) => KeyFits(i, q.calls), \A id : IdFits(id, up.calls) => IdFits(id, q.calls),
           \A d : c.calls = <<d>> => MayBeTold(state, d) /\ KeyFits(d.index, q.calls) /\ IdFits(d.id, q.calls)
    PROVE  ItemsInv'
<1> DEFINE event == [type |-> "chunk", chunk |-> c]
<1>1. /\ up'.last = event /\ ~ state.fatal /\ up'.phase \in {"start", "open"} /\ up'.calls = q.calls
      /\ up'.text = q.text /\ up'.thought = q.thought
  BY BecomingAll DEF EndsInv
<1>2. Ready(state)
  BY <1>1, ReadyNow
<1>3. ChatKnows(state, up.calls)
  BY <1>1 DEF ItemsInv
<1>4. state' = Translate(state, event) /\ pair' = pair
  BY <1>1 DEF IsTold
<1>5. (Turns(state') /\ state'.fatal) \/ ItemsComeTo(state, c.calls, c.finish, state')
  <2>1. LET t == Translate(state, [type |-> "chunk", chunk |-> c])
        IN (Turns(t) /\ t.fatal) \/ ItemsComeTo(state, c.calls, c.finish, t)
    BY <1>1, <1>2, <1>3, ChatChunkIsItemized DEF ChatKnows
  <2> QED
    BY <1>4, <2>1
<1> HIDE DEF event
<1>6. Turns(state')
  BY <1>5, ItemsTurn
<1>7. ASSUME ~ state'.fatal PROVE ChatKnows(state', up'.calls)
  <2>1. ~ state'.terminalSent
    <3>1. StreamInv'
      BY DEF EndsInv
    <3>2. Live(state')
      BY <1>1, <1>7, <3>1 DEF StreamInv
    <3> QED
      BY <3>2 DEF Live
  <2>2. Knows(state.toolCalls, state', c.calls)
    <3>1. c.finish # "tool_calls"
      BY NoneAssumption
    <3> QED
      BY <1>5, <1>7, <2>1, <3>1 DEF ItemsComeTo, IsListed
  <2>3. CASE c.calls = <<>>
    <3>1. state'.toolCalls = state.toolCalls
      BY <2>2, <2>3 DEF Knows
    <3> QED
      BY <1>1, <1>3, <3>1 DEF ChatKnows, NoneDone
  <2>4. CASE \E d : c.calls = <<d>>
    <3>1. PICK d : c.calls = <<d>>
      BY <2>4
    <3>2. /\ NoneDone(state') /\ DOMAIN state'.toolCalls \subseteq DOMAIN state.toolCalls \cup {d.index}
          /\ \A i \in DOMAIN state'.toolCalls :
                \/ state'.toolCalls[i].id \in {d.id, None}
                \/ \E j \in DOMAIN state.toolCalls : state'.toolCalls[i].id = state.toolCalls[j].id
      BY <2>2, <3>1 DEF Knows
    <3>3. KeyFits(d.index, q.calls) /\ IdFits(d.id, q.calls)
      BY <3>1
    <3>4. ASSUME NEW i \in DOMAIN state'.toolCalls
          PROVE  KeyFits(i, q.calls) /\ IdFits(state'.toolCalls[i].id, q.calls)
      <4>1. KeyFits(i, q.calls)
        BY <1>3, <3>2, <3>3 DEF ChatKnows
      <4>2. IdFits(None, q.calls)
        BY DEF IdFits
      <4>3. IdFits(state'.toolCalls[i].id, q.calls)
        BY <1>3, <3>2, <3>3, <4>2 DEF ChatKnows
      <4> QED
        BY <4>1, <4>3
    <3> QED
      BY <1>1, <3>2, <3>4 DEF ChatKnows
  <2> QED
    BY <2>3, <2>4 DEF IsWordy
<1>8. ChatSays(up')
  BY <1>1 DEF ChatSays
<1> QED
  BY <1>4, <1>6, <1>7, <1>8 DEF ItemsInv

LEMMA SmallLists ==
    /\ IsList(<<"{">>) /\ IsList(<<"x", "}">>) /\ IsList(Whole) /\ IsList(<<>>) /\ IsList(<<"{", "}">>)
    /\ \A n : IsList(<<n>>)
<1> DEFINE T == {"{", "x", "}"}
<1>1. <<"{">> \in Seq(T) /\ <<"x", "}">> \in Seq(T) /\ Whole \in Seq(T) /\ <<"{", "}">> \in Seq(T)
  BY DEF Whole
<1>2. IsList(<<"{">>) /\ IsList(<<"x", "}">>) /\ IsList(Whole) /\ IsList(<<"{", "}">>)
  BY <1>1, SequencesAreLists
<1>3. ASSUME NEW n PROVE IsList(<<n>>)
  <2>1. <<n>> \in Seq({n})
    OBVIOUS
  <2> QED
    BY <2>1, SequencesAreLists
<1> QED
  BY <1>2, <1>3, NothingIsList

LEMMA ToldIsList ==
    ASSUME NEW text, IsList(text), NEW before, IsList(before)
    PROVE  IsList(Told(before, text))
<1>1. PICK a \in Nat : a = Len(before)
  BY DEF IsList
<1>2. PICK b \in Nat : b = Len(text)
  BY DEF IsList
<1>3. IsList(SubSeq(text, a + 1, b))
  <2>1. b \in Int /\ ~ b > Len(text)
    BY <1>2
  <2>2. IsList(SubSeq(text, a + 1, b)) \/ b > Len(text)
    BY <2>1, Cutting
  <2> QED
    BY <2>1, <2>2
<1>4. IsList(SubSeq(text, Len(before) + 1, Len(text)))
  BY <1>1, <1>2, <1>3
<1> QED
  BY <1>4 DEF Told

\* Chunks without a call, and with one.
LEMMA WordyChunks ==
    ASSUME NEW reasoning, IsList(reasoning), NEW content, IsList(content), NEW refusal, IsList(refusal), NEW d,
           NEW finish, NEW usage
    PROVE  /\ LET c == [EmptyChunk EXCEPT !.content = content, !.reasoning = reasoning]
              IN IsWordy(c) /\ c.calls = <<>> /\ c.finish = None
           /\ LET c == [EmptyChunk EXCEPT !.refusal = refusal]
              IN IsWordy(c) /\ c.calls = <<>> /\ c.finish = None
           /\ LET c == [EmptyChunk EXCEPT !.calls = <<d>>]
              IN IsWordy(c) /\ c.calls = <<d>> /\ c.finish = None
           /\ LET c == [EmptyChunk EXCEPT !.finish = finish, !.usage = usage]
              IN IsWordy(c) /\ c.calls = <<>> /\ c.finish = finish
           /\ LET c == [EmptyChunk EXCEPT !.choices = FALSE, !.usage = usage]
              IN IsWordy(c) /\ c.calls = <<>> /\ c.finish = None
<1>1. IsList(<<>>)
  BY NothingIsList
<1>2. /\ DOMAIN EmptyChunk = {"role", "reasoning", "content", "refusal", "calls", "finish", "usage", "error", "choices"}
      /\ EmptyChunk.reasoning = <<>> /\ EmptyChunk.content = <<>> /\ EmptyChunk.refusal = <<>>
      /\ EmptyChunk.calls = <<>> /\ EmptyChunk.finish = None
  BY DEF EmptyChunk
<1> QED
  BY <1>1, <1>2 DEF IsWordy

\* What is known of the calls when there are more.
LEMMA MoreCallsFit ==
    ASSUME NEW calls, Len(calls) \in Nat, NEW more, Len(more) \in Nat, Len(calls) <= Len(more),
           Len(calls) # 0 /\ calls[1].index # 0 => more[1].index # 0
    PROVE  /\ \A i : KeyFits(i, calls) => KeyFits(i, more)
           /\ \A id : IdFits(id, calls) => IdFits(id, more)
BY DEF KeyFits, IdFits

LEMMA ChatTextItems ==
    ASSUME EndsInv, EndsInv', ItemsInv, IsTold, pair = <<"chat", "responses">>, ChatText \/ ChatRefusal
    PROVE  ItemsInv'
<1>1. KeepsOn(up) /\ up.phase \in {"start", "open"}
  BY DEF EndsInv, ChatText, ChatRefusal, Saying
<1>2. ASSUME NEW c, c.calls = <<>>, c.finish = None, IsWordy(c), NEW q, DOMAIN q = DOMAIN up, q.calls = up.calls,
             q.phase = "open", Receive([type |-> "chunk", chunk |-> c], q), ChatSays(up) => ChatSays(q)
      PROVE  ItemsInv'
  <2>1. ChatSays(q)
    BY <1>1, <1>2 DEF ItemsInv, Receive
  <2>2. \A d : <<d>> # <<>>
    OBVIOUS
  <2> QED
    BY <1>1, <1>2, <2>1, <2>2, ChatItemsGoOn
<1>3. ChatSays(up)
  BY <1>1 DEF ItemsInv, ChatText, ChatRefusal, ChatChunk, Receive
<1>4. CASE ChatText
  <2>1. PICK text \in {up.text, Append(up.text, Letter(up.text))},
             thought \in {up.thought, Append(up.thought, Letter(up.thought))} :
           ChatChunk([EmptyChunk EXCEPT
                        !.content = IF text = up.text THEN <<>> ELSE Told(up.text, text),
                        !.reasoning = IF thought = up.thought THEN <<>> ELSE Told(up.thought, thought)],
                     [up EXCEPT !.phase = "open", !.text = text, !.thought = thought])
    BY <1>4, Zenon DEF ChatText
  <2> DEFINE content == IF text = up.text THEN <<>> ELSE Told(up.text, text)
             reasoning == IF thought = up.thought THEN <<>> ELSE Told(up.thought, thought)
             c == [EmptyChunk EXCEPT !.content = content, !.reasoning = reasoning]
             q == [up EXCEPT !.phase = "open", !.text = text, !.thought = thought]
  <2>2. Receive([type |-> "chunk", chunk |-> c], q)
    BY <2>1 DEF ChatChunk
  <2>3. IsList(text) /\ IsList(thought) /\ IsList(up.text) /\ IsList(up.thought)
    <3>1. IsList(up.text) /\ IsList(up.thought)
      BY <1>3 DEF ChatSays
    <3>2. IsList(Append(up.text, Letter(up.text))) /\ IsList(Append(up.thought, Letter(up.thought)))
      BY <3>1, Appending
    <3>3. /\ text = up.text \/ text = Append(up.text, Letter(up.text))
          /\ thought = up.thought \/ thought = Append(up.thought, Letter(up.thought))
      OBVIOUS
    <3> QED
      BY <3>1, <3>2, <3>3
  <2>4. IsList(content) /\ IsList(reasoning)
    BY <2>3, ToldIsList, NothingIsList
  <2> HIDE DEF content, reasoning
  <2>5. IsWordy(c) /\ c.calls = <<>> /\ c.finish = None
    BY <2>4, WordyChunks
  <2>6. DOMAIN q = DOMAIN up /\ q.calls = up.calls /\ q.phase = "open" /\ q.text = text /\ q.thought = thought
    BY <1>1 DEF KeepsOn
  <2> HIDE DEF c, q
  <2>7. ChatSays(q)
    BY <1>3, <2>3, <2>6 DEF ChatSays
  <2> QED
    BY <1>2, <2>2, <2>5, <2>6, <2>7
<1>5. CASE ChatRefusal
  <2> DEFINE refusal == <<1>>
             c == [EmptyChunk EXCEPT !.refusal = refusal]
             q == [up EXCEPT !.phase = "open", !.refusal = refusal]
  <2>1. Receive([type |-> "chunk", chunk |-> c], q)
    BY <1>5 DEF ChatRefusal, ChatChunk
  <2>2. IsList(refusal)
    BY SmallLists
  <2> HIDE DEF refusal
  <2>3. IsWordy(c) /\ c.calls = <<>> /\ c.finish = None
    BY <2>2, WordyChunks
  <2>4. /\ DOMAIN q = DOMAIN up /\ q.calls = up.calls /\ q.phase = "open"
        /\ q.text = up.text /\ q.thought = up.thought
    BY <1>1 DEF KeepsOn
  <2> HIDE DEF c, q
  <2>5. ChatSays(q)
    BY <1>3, <2>4 DEF ChatSays
  <2> QED
    BY <1>2, <2>1, <2>3, <2>4, <2>5
<1> QED
  BY <1>4, <1>5

\* One call with something of it changed.
LEMMA OneCallChanges ==
    ASSUME NEW l, IsCalls(l), NEW i \in DOMAIN l, NEW call, "index" \in DOMAIN call, call.index \in Nat,
           NEW m, m = [l EXCEPT ![i] = call]
    PROVE  /\ IsCalls(m) /\ Len(m) = Len(l) /\ Len(l) \in Nat /\ i \in 1..Len(l)
           /\ m[i] = call /\ \A j \in 1..Len(l) : j # i => m[j] = l[j]
<1>1. IsCalls(m)
  BY CallsChange
<1>2. DOMAIN m = 1..Len(m) /\ DOMAIN l = 1..Len(l) /\ Len(m) \in Nat /\ Len(l) \in Nat
  BY <1>1 DEF IsCalls, IsList
<1>3. DOMAIN m = DOMAIN l
  OBVIOUS
<1>4. Len(m) = Len(l)
  BY <1>2, <1>3
<1> QED
  BY <1>1, <1>2, <1>4

LEMMA ChatCallItems ==
    ASSUME EndsInv, EndsInv', ItemsInv, IsTold, pair = <<"chat", "responses">>, ChatCall
    PROVE  ItemsInv'
<1>1. KeepsOn(up) /\ up.phase \in {"start", "open"} /\ Len(up.calls) < MaxCalls
  BY DEF EndsInv, ChatCall, Saying
<1>2. PICK name \in Names, args \in {<<>>, Whole} :
        ChatChunk([EmptyChunk EXCEPT
                    !.calls = <<CallDelta(Len(up.calls), NewCallId, name, "function", args)>>],
                  Calling(name, args))
  BY DEF ChatCall
<1> DEFINE d == CallDelta(Len(up.calls), NewCallId, name, "function", args)
           c == [EmptyChunk EXCEPT !.calls = <<d>>]
           q == Calling(name, args)
           call == [id |-> NewCallId, index |-> Len(up.calls), name |-> name, args |-> args]
<1>3. Receive([type |-> "chunk", chunk |-> c], q)
  BY <1>2 DEF ChatChunk
<1>4. /\ d.index = Len(up.calls) /\ d.id = Len(up.calls) + 1 /\ d.type = "function" /\ d.args = args
  BY DEF CallDelta, NewCallId
<1>5. /\ DOMAIN q = DOMAIN up /\ q.calls = Append(up.calls, call) /\ q.phase = "open"
      /\ q.text = up.text /\ q.thought = up.thought
  BY <1>1 DEF Calling, KeepsOn
<1>6. call.index = Len(up.calls)
  OBVIOUS
<1> HIDE DEF d
<1>7. IsWordy(c) /\ c.calls = <<d>> /\ c.finish = None
  BY NothingIsList, WordyChunks
<1> HIDE DEF c, q, call
<1>8. /\ IsList(up.calls) /\ Len(up.calls) \in Nat /\ Len(q.calls) = Len(up.calls) + 1
      /\ \A j \in 1..Len(up.calls) : q.calls[j] = up.calls[j]
      /\ q.calls[Len(up.calls) + 1] = call
  <2>1. IsList(up.calls)
    BY <1>1 DEF KeepsOn, IsCalls
  <2> QED
    BY <1>5, <2>1, Appending DEF IsList
<1>9. MaxCalls \in Nat
  BY StreamBoundsAssumption
<1>10. ~ state.fatal
  BY <1>3 DEF Receive
<1>11. ChatSays(up) /\ ChatKnows(state, up.calls)
  BY <1>1, <1>10 DEF ItemsInv
<1>12. ChatSays(q)
  <2>1. ASSUME NEW j \in 1..Len(q.calls)
        PROVE  q.calls[j].index = j - 1 \/ (j = 1 /\ q.calls[1].index = MaxCalls)
    <3>1. CASE j \in 1..Len(up.calls)
      BY <1>8, <1>11, <3>1 DEF ChatSays
    <3>2. CASE j = Len(up.calls) + 1
      BY <1>6, <1>8, <3>2
    <3> QED
      BY <1>8, <3>1, <3>2
  <2>2. Len(q.calls) <= MaxCalls
    BY <1>1, <1>8, <1>9
  <2> QED
    BY <1>5, <1>11, <2>1, <2>2 DEF ChatSays
<1>13. /\ \A i : KeyFits(i, up.calls) => KeyFits(i, q.calls)
       /\ \A id : IdFits(id, up.calls) => IdFits(id, q.calls)
  <2>1. /\ Len(q.calls) \in Nat /\ Len(up.calls) <= Len(q.calls)
        /\ Len(up.calls) # 0 /\ up.calls[1].index # 0 => q.calls[1].index # 0
    BY <1>8
  <2> QED
    BY <1>8, <2>1, MoreCallsFit
<1>14. MayBeTold(state, d)
  <2>1. d.index \notin DOMAIN state.toolCalls
    <3>1. \A i \in DOMAIN state.toolCalls : i < Len(up.calls) \/ i = MaxCalls
      BY <1>11 DEF ChatKnows, KeyFits
    <3> QED
      BY <1>1, <1>4, <1>8, <1>9, <3>1
  <2>2. d.id # None
    BY <1>4, <1>8, NoneAssumption
  <2>3. \A j \in DOMAIN state.toolCalls : state.toolCalls[j].id # d.id
    BY <1>4, <1>8, <1>11, <2>2 DEF ChatKnows, IdFits
  <2>4. IsList(d.args)
    BY <1>4, SmallLists
  <2> QED
    BY <1>4, <1>8, <2>1, <2>2, <2>3, <2>4 DEF MayBeTold
<1>15. KeyFits(d.index, q.calls) /\ IdFits(d.id, q.calls)
  BY <1>4, <1>8 DEF KeyFits, IdFits
<1>16. \A b : c.calls = <<b>> => MayBeTold(state, b) /\ KeyFits(b.index, q.calls) /\ IdFits(b.id, q.calls)
  <2>1. \A b : <<b>> = <<d>> => b = d
    OBVIOUS
  <2> QED
    BY <1>7, <1>14, <1>15, <2>1
<1> QED
  BY <1>1, <1>3, <1>5, <1>7, <1>12, <1>13, <1>16, ChatItemsGoOn

\* A chunk with a call that is known, whose first mention may be renumbered.
LEMMA ChatCallGoesOn ==
    ASSUME EndsInv, EndsInv', ItemsInv, IsTold, pair = <<"chat", "responses">>, up.phase \in {"start", "open"},
           ~ state.fatal,
           NEW i \in DOMAIN up.calls, NEW call, "index" \in DOMAIN call, call.index \in Nat,
           call.index = up.calls[i].index \/ (i = 1 /\ call.index = MaxCalls),
           NEW q, DOMAIN q = DOMAIN up, q.phase \in {"start", "open"}, q.text = up.text, q.thought = up.thought,
           q.calls = [up.calls EXCEPT ![i] = call],
           NEW d, d.index = call.index, d.type = None, IsList(d.args),
           d.id = None \/ (d.id = 1 /\ d.index = MaxCalls /\ i = 1 /\ up.calls[1].index = 0),
           NEW c, IsWordy(c), c.calls = <<d>>, c.finish = None, Receive([type |-> "chunk", chunk |-> c], q)
    PROVE  ItemsInv'
<1>1. KeepsOn(up) /\ IsCalls(up.calls)
  BY DEF EndsInv, KeepsOn
<1>2. ChatSays(up) /\ ChatKnows(state, up.calls)
  BY DEF ItemsInv
<1>3. /\ Len(q.calls) = Len(up.calls) /\ Len(up.calls) \in Nat /\ i \in 1..Len(up.calls)
      /\ q.calls[i] = call /\ \A j \in 1..Len(up.calls) : j # i => q.calls[j] = up.calls[j]
  BY <1>1, OneCallChanges
<1>4. MaxCalls \in Nat /\ Len(up.calls) <= MaxCalls
  BY <1>2, StreamBoundsAssumption DEF ChatSays
<1>5. ASSUME NEW j \in 1..Len(up.calls)
      PROVE  q.calls[j].index = j - 1 \/ (j = 1 /\ q.calls[1].index = MaxCalls)
  <2>1. up.calls[j].index = j - 1 \/ (j = 1 /\ up.calls[1].index = MaxCalls)
    BY <1>2 DEF ChatSays
  <2> QED
    BY <1>3, <2>1
<1>6. ChatSays(q)
  BY <1>2, <1>3, <1>5 DEF ChatSays
<1>7. up.calls[1].index # 0 => q.calls[1].index # 0
  BY <1>3, <1>4
<1>8. /\ \A k : KeyFits(k, up.calls) => KeyFits(k, q.calls)
      /\ \A id : IdFits(id, up.calls) => IdFits(id, q.calls)
  <2>1. Len(q.calls) \in Nat /\ Len(up.calls) <= Len(q.calls)
    BY <1>3
  <2> QED
    BY <1>3, <1>7, <2>1, MoreCallsFit
<1>9. KeyFits(d.index, q.calls)
  <2>1. q.calls[i].index = i - 1 \/ (i = 1 /\ q.calls[1].index = MaxCalls)
    BY <1>3, <1>5
  <2>2. d.index = q.calls[i].index
    BY <1>3
  <2> QED
    BY <1>3, <1>4, <2>1, <2>2 DEF KeyFits
<1>10. IdFits(d.id, q.calls)
  BY <1>3 DEF IdFits
<1>11. MayBeTold(state, d)
  <2>1. ASSUME d.id # None PROVE d.index \notin DOMAIN state.toolCalls
    <3>1. \A k \in DOMAIN state.toolCalls : k < Len(up.calls)
      BY <1>2, <2>1 DEF ChatKnows, KeyFits
    <3>2. ~ MaxCalls < Len(up.calls)
      BY <1>3, <1>4
    <3> QED
      BY <2>1, <3>1, <3>2
  <2> QED
    BY <2>1 DEF MayBeTold
<1>12. \A b : c.calls = <<b>> => MayBeTold(state, b) /\ KeyFits(b.index, q.calls) /\ IdFits(b.id, q.calls)
  <2>1. \A b : <<b>> = <<d>> => b = d
    OBVIOUS
  <2> QED
    BY <1>9, <1>10, <1>11, <2>1
<1> QED
  BY <1>6, <1>8, <1>12, ChatItemsGoOn

LEMMA ChatCallsItems ==
    ASSUME EndsInv, EndsInv', ItemsInv, IsTold, pair = <<"chat", "responses">>, ChatArguments \/ ChatRenumbered
    PROVE  ItemsInv'
<1>1. KeepsOn(up) /\ up.phase \in {"start", "open"} /\ IsCalls(up.calls)
  BY DEF EndsInv, ChatArguments, ChatRenumbered, Saying, KeepsOn
<1>2. /\ DOMAIN up.calls = 1..Len(up.calls) /\ Len(up.calls) \in Nat
      /\ \A i \in DOMAIN up.calls : "index" \in DOMAIN up.calls[i] /\ up.calls[i].index \in Nat
  BY <1>1 DEF IsCalls, IsList
<1>3. CASE ChatArguments
  <2>0. PICK i \in DOMAIN up.calls : \E piece \in Pieces(up.calls[i].args) :
            ChatChunk([EmptyChunk EXCEPT !.calls = <<CallDelta(up.calls[i].index, None, None, None, piece)>>],
                      Adding(i, piece))
    BY <1>3, Zenon DEF ChatArguments
  <2>1. PICK piece \in Pieces(up.calls[i].args) :
            ChatChunk([EmptyChunk EXCEPT !.calls = <<CallDelta(up.calls[i].index, None, None, None, piece)>>],
                      Adding(i, piece))
    BY <2>0
  <2> DEFINE d == CallDelta(up.calls[i].index, None, None, None, piece)
             c == [EmptyChunk EXCEPT !.calls = <<d>>]
             q == Adding(i, piece)
             call == [up.calls[i] EXCEPT !.args = @ \o piece]
  <2>2. Receive([type |-> "chunk", chunk |-> c], q)
    BY <2>1 DEF ChatChunk
  <2>3. d.index = up.calls[i].index /\ d.id = None /\ d.type = None /\ d.args = piece
    BY DEF CallDelta
  <2>4. /\ DOMAIN q = DOMAIN up /\ q.calls = [up.calls EXCEPT ![i] = call] /\ q.phase = up.phase
        /\ q.text = up.text /\ q.thought = up.thought
    BY <1>1 DEF Adding, KeepsOn
  <2>5. "index" \in DOMAIN call /\ call.index = up.calls[i].index
    BY <1>2
  <2> HIDE DEF d
  <2>6. IsWordy(c) /\ c.calls = <<d>> /\ c.finish = None
    BY NothingIsList, WordyChunks
  <2>7. IsList(piece)
    BY SmallLists DEF Pieces
  <2> HIDE DEF c, q, call
  <2>8. ~ state.fatal /\ call.index \in Nat /\ d.index = call.index /\ IsList(d.args)
    BY <1>2, <2>2, <2>3, <2>5, <2>7 DEF Receive
  <2>9. q.phase \in {"start", "open"} /\ q.text = up.text /\ q.thought = up.thought
    BY <1>1, <2>4
  <2> QED
    BY <1>1, <2>2, <2>3, <2>4, <2>5, <2>6, <2>8, <2>9, ChatCallGoesOn
<1>4. CASE ChatRenumbered
  <2> DEFINE d == CallDelta(MaxCalls, 1, None, None, <<>>)
             c == [EmptyChunk EXCEPT !.calls = <<d>>]
             q == [up EXCEPT !.calls[1].index = MaxCalls]
             call == [up.calls[1] EXCEPT !.index = MaxCalls]
  <2>1. Receive([type |-> "chunk", chunk |-> c], q) /\ up.calls # <<>> /\ up.calls[1].index = 0
    BY <1>4 DEF ChatRenumbered, ChatChunk
  <2>2. d.index = MaxCalls /\ d.id = 1 /\ d.type = None /\ d.args = <<>>
    BY DEF CallDelta
  <2>3. 1 \in DOMAIN up.calls
    <3>1. Len(up.calls) # 0
      BY <1>1, <2>1 DEF IsCalls, IsList
    <3> QED
      BY <1>2, <3>1
  <2>4. /\ DOMAIN q = DOMAIN up /\ q.calls = [up.calls EXCEPT ![1] = call] /\ q.phase = up.phase
        /\ q.text = up.text /\ q.thought = up.thought
    BY <1>1 DEF KeepsOn
  <2>5. "index" \in DOMAIN call /\ call.index = MaxCalls
    BY <1>2, <2>3
  <2> HIDE DEF d
  <2>6. IsWordy(c) /\ c.calls = <<d>> /\ c.finish = None
    BY NothingIsList, WordyChunks
  <2> HIDE DEF c, q, call
  <2>7. ~ state.fatal /\ call.index \in Nat /\ d.index = call.index /\ IsList(d.args)
    BY <2>1, <2>2, <2>5, SmallLists, StreamBoundsAssumption DEF Receive
  <2>8. q.phase \in {"start", "open"} /\ q.text = up.text /\ q.thought = up.thought
    BY <1>1, <2>4
  <2> QED
    BY <1>1, <2>1, <2>2, <2>3, <2>4, <2>5, <2>6, <2>7, <2>8, ChatCallGoesOn
<1> QED
  BY <1>3, <1>4

LEMMA ChatFinishItems ==
    ASSUME EndsInv, ItemsInv, IsTold, pair = <<"chat", "responses">>, ChatFinish
    PROVE  ItemsInv'
<1>1. KeepsOn(up) /\ up.phase \in {"start", "open"}
  BY DEF EndsInv, ChatFinish, Saying
<1>2. PICK finish, usage :
        ChatChunk([EmptyChunk EXCEPT !.finish = finish, !.usage = usage],
                  [up EXCEPT !.phase = "finished", !.usage = usage, !.reason = finish])
  BY DEF ChatFinish
<1> DEFINE c == [EmptyChunk EXCEPT !.finish = finish, !.usage = usage]
           q == [up EXCEPT !.phase = "finished", !.usage = usage, !.reason = finish]
           event == [type |-> "chunk", chunk |-> c]
<1>3. Receive(event, q)
  BY <1>2 DEF ChatChunk
<1>4. DOMAIN q = DOMAIN up /\ q.phase = "finished"
  BY <1>1 DEF KeepsOn
<1>5. IsWordy(c) /\ c.calls = <<>>
  <2>1. c.calls = <<>> /\ c.reasoning = <<>> /\ c.content = <<>> /\ c.refusal = <<>> /\ DOMAIN c = DOMAIN EmptyChunk
    BY DEF EmptyChunk
  <2>2. {"reasoning", "content", "refusal", "calls", "finish", "usage"} \subseteq DOMAIN EmptyChunk
    BY DEF EmptyChunk
  <2> HIDE DEF c
  <2> QED
    BY <2>1, <2>2, NothingIsList DEF IsWordy
<1> HIDE DEF c, q
<1>6. up'.phase = "finished" /\ up'.last = event /\ ~ state.fatal
  BY <1>1, <1>3, <1>4, Becoming
<1>7. Ready(state) /\ NoneDone(state)
  BY <1>1, <1>6, ReadyNow DEF ItemsInv, ChatKnows
<1>8. LET t == Translate(state, [type |-> "chunk", chunk |-> c])
      IN (Turns(t) /\ t.fatal) \/ ItemsComeTo(state, c.calls, c.finish, t)
  <2>1. \A d : c.calls # <<d>>
    BY <1>5
  <2> QED
    BY <1>5, <1>6, <1>7, <2>1, ChatChunkIsItemized
<1>9. Turns(Translate(state, event))
  BY <1>8, ItemsTurn
<1> HIDE DEF event
<1>10. Turns(state')
  BY <1>6, <1>9 DEF IsTold
<1> QED
  BY <1>6, <1>10, ItemsAreOver

LEMMA ChatUsageItems ==
    ASSUME EndsInv, ItemsInv, IsTold, pair = <<"chat", "responses">>, ChatUsage
    PROVE  ItemsInv'
<1> DEFINE usage == TRUE
           c == [EmptyChunk EXCEPT !.choices = FALSE, !.usage = usage]
           q == [up EXCEPT !.usage = TRUE]
           event == [type |-> "chunk", chunk |-> c]
<1>1. Receive(event, q) /\ up.phase = "finished" /\ KeepsOn(up)
  BY DEF ChatUsage, ChatChunk, EndsInv
<1>2. DOMAIN q = DOMAIN up /\ q.phase = "finished"
  BY <1>1 DEF KeepsOn
<1>3. IsWordy(c) /\ c.calls = <<>> /\ c.finish = None
  BY NothingIsList, WordyChunks
<1> HIDE DEF c, q, usage
<1>4. up'.phase = "finished" /\ up'.last = event /\ ~ state.fatal
  BY <1>1, <1>2, Becoming
<1>5. Turns(state)
  BY DEF ItemsInv
<1>6. CASE state.terminalSent
  <2> DEFINE t == [state EXCEPT !.usage = @ \/ c.usage]
  <2>1. state' = ToClient(t, c)
    BY <1>3, <1>4, ChunkIsTold DEF IsTold
  <2>2. IsState(state)
    BY <1>1 DEF EndsInv, StreamInv, HasEnded, Closed
  <2>3. Like(state, t) /\ t.out = state.out
    BY <2>2, UsageIsSeen
  <2> HIDE DEF t
  <2>4. state' = ResponsesSink(t, c, cumulative)
    BY <2>1, ResponsesIsTold
  <2>5. t.terminalSent
    BY <1>6, <2>3 DEF Like
  <2>6. state' = t
    BY <2>4, <2>5, ResponsesCases
  <2>7. Turns(state')
    BY <1>5, <2>3, <2>5, <2>6 DEF Turns
  <2> QED
    BY <1>4, <2>7, ItemsAreOver
<1>7. CASE ~ state.terminalSent
  <2>1. Ready(state)
    BY <1>5, <1>7 DEF Turns, Ready
  <2>2. LET t == Translate(state, [type |-> "chunk", chunk |-> c])
        IN (Turns(t) /\ t.fatal) \/ ItemsComeTo(state, c.calls, c.finish, t)
    <3>1. \A d : c.calls # <<d>>
      BY <1>3
    <3> QED
      BY <1>3, <1>4, <2>1, <3>1, ChatChunkIsItemized
  <2>3. Turns(Translate(state, event))
    BY <2>2, ItemsTurn
  <2> HIDE DEF event
  <2>4. Turns(state')
    BY <1>4, <2>3 DEF IsTold
  <2> QED
    BY <1>4, <2>4, ItemsAreOver
<1> QED
  BY <1>6, <1>7

LEMMA ChatDoneItems ==
    ASSUME EndsInv, ItemsInv, IsTold, pair = <<"chat", "responses">>, ChatDone
    PROVE  ItemsInv'
<1> DEFINE q == [up EXCEPT !.phase = "ended"]
           event == [type |-> "done"]
<1>1. Receive(event, q) /\ KeepsOn(up)
  BY DEF ChatDone, EndsInv
<1>2. DOMAIN q = DOMAIN up /\ q.phase = "ended"
  BY <1>1 DEF KeepsOn
<1> HIDE DEF q
<1>3. up'.phase = "ended" /\ up'.last = event /\ ~ state.fatal
  BY <1>1, <1>2, Becoming
<1>4. state' = EndResponses(state)
  BY <1>3 DEF IsTold, Translate
<1>5. Turns(state)
  BY DEF ItemsInv
<1>6. Turns(state')
  <2>1. CASE state.terminalSent
    BY <1>4, <1>5, <2>1 DEF EndResponses
  <2>2. CASE ~ state.terminalSent
    <3>1. Holding(state, FALSE)
      BY <1>5, <2>2 DEF Turns
    <3>2. state' = Terminal(FlushAll(state))
      BY <1>4, <2>2 DEF EndResponses
    <3>3. IsListed(state, state')
      BY <3>1, <3>2, ResponseIsListed
    <3> QED
      BY <3>3 DEF IsListed, Turns
  <2> QED
    BY <2>1, <2>2
<1> QED
  BY <1>3, <1>6, ItemsAreOver

LEMMA ChatChoiceItems ==
    ASSUME EndsInv, ItemsInv, IsTold, pair = <<"chat", "responses">>, ChatSecondChoice
    PROVE  ItemsInv'
<1> DEFINE event == [type |-> "second_choice"]
<1>1. Receive(event, up) /\ up.phase \in {"start", "open"} /\ KeepsOn(up)
  BY DEF ChatSecondChoice, Saying, EndsInv
<1>2. up'.last = event /\ ~ state.fatal
  BY <1>1, Becoming
<1>3. Ready(state) /\ NoneDone(state)
  BY <1>1, <1>2, ReadyNow DEF ItemsInv, ChatKnows
<1>4. Translate(state, event) = FoldLeft(ToClient, Rejected(state).state, Rejected(state).chunks)
  <2>1. IsRefused(event) /\ event.type # "done" /\ event.type # "error"
    BY DEF IsRefused
  <2> HIDE DEF event
  <2> QED
    BY <1>2, <2>1 DEF Translate
<1>5. Turns(Translate(state, event)) /\ Translate(state, event).fatal
  BY <1>3, <1>4, RefusedIsListed
<1> HIDE DEF event
<1>6. Turns(state') /\ state'.fatal
  BY <1>2, <1>5 DEF IsTold
<1> QED
  BY <1>6, ItemsAreOver

\* What a source changes is of no item.
SameItems(s, r) ==
    /\ ItemFields \subseteq DOMAIN r /\ r.out = s.out
    /\ r.nextOutput = s.nextOutput /\ r.reasoning = s.reasoning /\ r.message = s.message
    /\ r.completedMessages = s.completedMessages /\ r.toolCalls = s.toolCalls
    /\ r.seen = s.seen /\ r.terminalSent = s.terminalSent /\ r.fatal = s.fatal

\* What an Anthropic source makes of an event after which the upstream stands at q: one chunk
\* at most, that tells a call only if no other is still to be told.
IsOffer(r, q, c) ==
    /\ IsWordy(c) /\ c.finish = None
    /\ \A d : c.calls = <<d>> =>
        /\ MayBeTold(r, d) /\ d.index < Len(q.calls) /\ IdFits(d.id, q.calls)
        /\ \A k \in DOMAIN r.claudeToolUses : r.claudeToolUses[k].finalized
Brings(q, given) ==
    /\ Ready(given.state) /\ ~ given.state.fatal /\ UsesKnown(given.state, q)
    /\ given.chunks = <<>> \/ \E c : given.chunks = <<c>> /\ IsOffer(given.state, q, c)

LEMMA BroughtItems ==
    ASSUME pair[2] = "responses", NEW q, q.phase \in {"open", "finished"}, NEW given, Brings(q, given)
    PROVE  LET t == FoldLeft(ToClient, given.state, given.chunks)
           IN Turns(t) /\ (~ t.terminalSent => UsesKnown(t, q))
<1> DEFINE t == FoldLeft(ToClient, given.state, given.chunks)
<1>1. PICK r : r = given.state
  OBVIOUS
<1>2. Ready(r) /\ ~ r.fatal /\ UsesKnown(r, q)
  BY <1>1 DEF Brings
<1>3. CASE given.chunks = <<>>
  <2>1. t = r
    BY <1>1, <1>3, NoChunks
  <2>2. Turns(r)
    BY <1>2, HoldingIsWell DEF Ready, Turns
  <2> HIDE DEF t
  <2>3. Turns(t) /\ UsesKnown(t, q)
    BY <1>2, <2>1, <2>2
  <2> QED
    BY <2>3 DEF t
<1>4. CASE \E c : given.chunks = <<c>> /\ IsOffer(r, q, c)
  <2>1. PICK c : given.chunks = <<c>> /\ IsOffer(r, q, c)
    BY <1>4
  <2>2. t = ResponsesSink(r, c, cumulative)
    <3>1. t = ToClient(r, c)
      BY <1>1, <2>1, OneChunk
    <3> QED
      BY <3>1, ResponsesIsTold
  <2> HIDE DEF t
  <2>3. IsWordy(c) /\ c.finish = None /\ NoneDone(r)
    BY <1>2, <2>1 DEF IsOffer, UsesKnown
  <2>4. \A d : c.calls = <<d>> => MayBeTold(r, d)
    BY <2>1 DEF IsOffer
  <2>5. ItemsComeTo(r, c.calls, c.finish, t)
    <3>1. ItemsComeTo(r, c.calls, c.finish, ResponsesSink(r, c, cumulative))
      BY <1>2, <2>3, <2>4, ChunkIsItemized DEF Ready
    <3> QED
      BY <2>2, <3>1
  <2>6. Turns(t)
    BY <2>5, ItemsTurn
  <2>7. ASSUME ~ t.terminalSent PROVE UsesKnown(t, q)
    <3>1. Knows(r.toolCalls, t, c.calls) /\ Alike(r, t)
      <4>1. c.finish # "tool_calls"
        BY <2>3, NoneAssumption
      <4> QED
        BY <2>5, <2>7, <4>1 DEF ItemsComeTo, IsListed
    <3>2. /\ t.roleSent = r.roleSent /\ t.claudeToolUses = r.claudeToolUses
          /\ t.claudeToolUseIndex = r.claudeToolUseIndex
      BY <3>1 DEF Alike
    <3>3. CASE c.calls = <<>>
      <4>1. t.toolCalls = r.toolCalls
        BY <3>1, <3>3 DEF Knows
      <4> QED
        BY <1>2, <3>2, <4>1 DEF UsesKnown, NoneDone, IsUntold
    <3>4. CASE \E d : c.calls = <<d>>
      <4>1. PICK d : c.calls = <<d>>
        BY <3>4
      <4>2. /\ NoneDone(t) /\ DOMAIN t.toolCalls \subseteq DOMAIN r.toolCalls \cup {d.index}
            /\ \A i \in DOMAIN t.toolCalls :
                  \/ t.toolCalls[i].id \in {d.id, None}
                  \/ \E j \in DOMAIN r.toolCalls : t.toolCalls[i].id = r.toolCalls[j].id
        BY <3>1, <4>1 DEF Knows
      <4>3. /\ d.index < Len(q.calls) /\ IdFits(d.id, q.calls)
            /\ \A k \in DOMAIN r.claudeToolUses : r.claudeToolUses[k].finalized
        BY <2>1, <4>1 DEF IsOffer
      <4>4. ASSUME NEW i \in DOMAIN t.toolCalls
            PROVE  i < Len(q.calls) /\ IdFits(t.toolCalls[i].id, q.calls)
        <5>1. i < Len(q.calls)
          BY <1>2, <4>2, <4>3 DEF UsesKnown
        <5>2. IdFits(None, q.calls)
          BY DEF IdFits
        <5>3. IdFits(t.toolCalls[i].id, q.calls)
          BY <1>2, <4>2, <4>3, <5>2 DEF UsesKnown
        <5> QED
          BY <5>1, <5>3
      <4> QED
        BY <1>2, <3>2, <4>2, <4>3, <4>4 DEF UsesKnown
    <3> QED
      BY <2>3, <3>3, <3>4 DEF IsWordy
  <2>8. Turns(t) /\ (~ t.terminalSent => UsesKnown(t, q))
    BY <2>6, <2>7
  <2> QED
    BY <2>8 DEF t
<1> QED
  BY <1>1, <1>3, <1>4 DEF Brings

LEMMA AnthropicItems ==
    ASSUME EndsInv, EndsInv', ItemsInv, IsTold, pair = <<"anthropic", "responses">>, up.phase \in {"start", "open"},
           NEW event, event.type \notin {"done", "error"}, NEW q, DOMAIN q = DOMAIN up, Receive(event, q),
           q.phase \in {"open", "finished"},
           AnthropicSource(state, event) = Rejected(state) \/ Brings(q, AnthropicSource(state, event))
    PROVE  ItemsInv'
<1>1. /\ up'.last = event /\ ~ state.fatal /\ up'.phase = q.phase /\ up'.calls = q.calls
      /\ up'.block = q.block /\ up'.blocks = q.blocks
  BY BecomingAll DEF EndsInv
<1>2. state' = Translate(state, event) /\ pair' = pair
  BY <1>1 DEF IsTold
<1>3. \/ state' = FoldLeft(ToClient, Rejected(state).state, Rejected(state).chunks)
      \/ /\ Brings(q, AnthropicSource(state, event))
         /\ state' = FoldLeft(ToClient, AnthropicSource(state, event).state, AnthropicSource(state, event).chunks)
  <2>1. event.type # "done" /\ event.type # "error"
    OBVIOUS
  <2>2. Source(state, event) = AnthropicSource(state, event)
    BY <2>1 DEF Source
  <2> QED
    BY <1>1, <1>2, <2>1, <2>2 DEF Translate
<1>4. CASE state' = FoldLeft(ToClient, Rejected(state).state, Rejected(state).chunks)
  <2>1. Ready(state) /\ NoneDone(state)
    <3>1. NoneDone(state)
      BY <1>1 DEF ItemsInv, UsesKnown
    <3> QED
      BY <1>1, <3>1, ReadyNow
  <2>2. Turns(state') /\ state'.fatal
    BY <1>4, <2>1, RefusedIsListed
  <2> QED
    BY <2>2, ItemsAreOver
<1>5. CASE /\ Brings(q, AnthropicSource(state, event))
           /\ state' = FoldLeft(ToClient, AnthropicSource(state, event).state, AnthropicSource(state, event).chunks)
  <2>1. Turns(state') /\ (~ state'.terminalSent => UsesKnown(state', q))
    BY <1>5, BroughtItems
  <2>2. ASSUME ~ state'.fatal PROVE ~ state'.terminalSent
    <3>1. StreamInv' /\ pair'[1] = "anthropic"
      BY <1>2 DEF EndsInv
    <3>2. Live(state')
      BY <1>1, <2>2, <3>1 DEF StreamInv
    <3> QED
      BY <3>2 DEF Live
  <2>3. UsesKnown(state', q) => UsesKnown(state', up')
    BY <1>1 DEF UsesKnown
  <2> QED
    BY <1>2, <2>1, <2>2, <2>3 DEF ItemsInv
<1> QED
  BY <1>3, <1>4, <1>5

\* A source changes a field that is of no item.
LEMMA OtherOfSource ==
    ASSUME NEW s, Ready(s), NoneDone(s), NEW f, f \notin ItemFields \ {"usage", "roleSent", "claudeToolUses",
                                                                     "claudeToolUseIndex", "finish"}, NEW v
    PROVE  LET t == [s EXCEPT ![f] = v]
           IN /\ Ready(t) /\ NoneDone(t) /\ t.fatal = s.fatal /\ t.toolCalls = s.toolCalls /\ DOMAIN t = DOMAIN s
              /\ \A g \in ItemFields \ {f} : t[g] = s[g]
              /\ f \in ItemFields => t[f] = v
<1> DEFINE t == [s EXCEPT ![f] = v]
<1>1. ItemFields \subseteq DOMAIN s
  BY DEF Ready, Holding
<1>2. DOMAIN t = DOMAIN s /\ \A g \in ItemFields \ {f} : t[g] = s[g]
  BY <1>1
<1>3. f \in ItemFields => t[f] = v
  BY <1>1
<1> HIDE DEF t
<1>4. /\ t.out = s.out /\ t.nextOutput = s.nextOutput /\ t.reasoning = s.reasoning /\ t.message = s.message
      /\ t.completedMessages = s.completedMessages /\ t.toolCalls = s.toolCalls
      /\ t.seen = s.seen /\ t.terminalSent = s.terminalSent /\ t.fatal = s.fatal
  <2>1. \A g \in {"out", "nextOutput", "reasoning", "message", "completedMessages", "toolCalls", "seen",
                  "terminalSent", "fatal"} : g \in ItemFields \ {f}
    BY DEF ItemFields
  <2> QED
    BY <1>2, <2>1
<1>5. Ready(t) /\ NoneDone(t)
  <2>1. ItemFields \subseteq DOMAIN t
    BY <1>1, <1>2
  <2> QED
    BY <1>4, <2>1, SourcesKeep
<1>6. /\ Ready(t) /\ NoneDone(t) /\ t.fatal = s.fatal /\ t.toolCalls = s.toolCalls /\ DOMAIN t = DOMAIN s
      /\ \A g \in ItemFields \ {f} : t[g] = s[g]
      /\ f \in ItemFields => t[f] = v
  BY <1>2, <1>3, <1>4, <1>5
<1> QED
  BY <1>6 DEF t

\* A source changes fields that are of no item.
LEMMA SourceKeeps ==
    ASSUME NEW s, Ready(s), NoneDone(s), NEW t, DOMAIN t = DOMAIN s,
           \A g \in ItemFields \ {"usage", "roleSent", "claudeToolUses", "claudeToolUseIndex", "finish"} : t[g] = s[g]
    PROVE  Ready(t) /\ NoneDone(t) /\ t.fatal = s.fatal /\ t.toolCalls = s.toolCalls
<1>1. ItemFields \subseteq DOMAIN t
  BY DEF Ready, Holding
<1>2. /\ t.out = s.out /\ t.nextOutput = s.nextOutput /\ t.reasoning = s.reasoning /\ t.message = s.message
      /\ t.completedMessages = s.completedMessages /\ t.toolCalls = s.toolCalls
      /\ t.seen = s.seen /\ t.terminalSent = s.terminalSent /\ t.fatal = s.fatal
  BY DEF ItemFields
<1> QED
  BY <1>1, <1>2, SourcesKeep

\* Words, and the role, are offered in any state.
LEMMA WordsAreOffered ==
    ASSUME NEW r, NEW q, NEW text, IsList(text)
    PROVE  /\ IsOffer(r, q, [EmptyChunk EXCEPT !.content = text])
           /\ IsOffer(r, q, [EmptyChunk EXCEPT !.reasoning = text])
           /\ IsOffer(r, q, [EmptyChunk EXCEPT !.role = TRUE])
<1>1. ASSUME NEW c, DOMAIN c = DOMAIN EmptyChunk, IsList(c.reasoning), IsList(c.content), c.refusal = <<>>,
             c.calls = <<>>, c.finish = None
      PROVE  IsOffer(r, q, c)
  <2>1. {"reasoning", "content", "refusal", "calls", "finish", "usage"} \subseteq DOMAIN EmptyChunk
    BY DEF EmptyChunk
  <2>2. IsWordy(c)
    BY <1>1, <2>1, NothingIsList DEF IsWordy
  <2>3. \A d : <<d>> # <<>>
    OBVIOUS
  <2> QED
    BY <1>1, <2>2, <2>3 DEF IsOffer
<1>2. IsOffer(r, q, [EmptyChunk EXCEPT !.content = text])
  <2> DEFINE c == [EmptyChunk EXCEPT !.content = text]
  <2>1. /\ DOMAIN c = DOMAIN EmptyChunk /\ c.reasoning = <<>> /\ c.content = text /\ c.refusal = <<>>
        /\ c.calls = <<>> /\ c.finish = None
    BY DEF EmptyChunk
  <2> HIDE DEF c
  <2>2. IsOffer(r, q, c)
    BY <1>1, <2>1, NothingIsList
  <2> QED
    BY <2>2 DEF c
<1>3. IsOffer(r, q, [EmptyChunk EXCEPT !.reasoning = text])
  <2> DEFINE c == [EmptyChunk EXCEPT !.reasoning = text]
  <2>1. /\ DOMAIN c = DOMAIN EmptyChunk /\ c.reasoning = text /\ c.content = <<>> /\ c.refusal = <<>>
        /\ c.calls = <<>> /\ c.finish = None
    BY DEF EmptyChunk
  <2> HIDE DEF c
  <2>2. IsOffer(r, q, c)
    BY <1>1, <2>1, NothingIsList
  <2> QED
    BY <2>2 DEF c
<1>4. IsOffer(r, q, [EmptyChunk EXCEPT !.role = TRUE])
  <2> DEFINE c == [EmptyChunk EXCEPT !.role = TRUE]
  <2>1. /\ DOMAIN c = DOMAIN EmptyChunk /\ c.reasoning = <<>> /\ c.content = <<>> /\ c.refusal = <<>>
        /\ c.calls = <<>> /\ c.finish = None
    BY DEF EmptyChunk
  <2> HIDE DEF c
  <2>2. IsOffer(r, q, c)
    BY <1>1, <2>1, NothingIsList
  <2> QED
    BY <2>2 DEF c
<1> QED
  BY <1>2, <1>3, <1>4

\* Where an Anthropic stream stands that goes on.
LEMMA AnthropicNow ==
    ASSUME EndsInv, ItemsInv, pair = <<"anthropic", "responses">>, ~ state.fatal,
           up.phase \in {"start", "open", "finished"}
    PROVE  /\ Ready(state) /\ NoneDone(state) /\ UsesKnown(state, up) /\ KeepsOn(up)
           /\ IsCalls(up.calls) /\ Len(up.calls) \in Nat /\ up.blocks \in Nat
           /\ "claudeToolUses" \in DOMAIN state /\ "claudeToolUseIndex" \in DOMAIN state
           /\ Bounded(DOMAIN state.claudeToolUses)
<1>1. Ready(state) /\ KeepsOn(up)
  BY ReadyNow
<1>2. UsesKnown(state, up)
  BY DEF ItemsInv
<1>3. IsState(state)
  BY DEF EndsInv, StreamInv, Live
<1> QED
  BY <1>1, <1>2, <1>3 DEF UsesKnown, KeepsOn, IsCalls, IsList, IsState, Tracked

\* What the source's part of the state and the upstream's calls and blocks are enough for.
LEMMA UsesKeep ==
    ASSUME NEW s, NEW p, UsesKnown(s, p), NEW t, NoneDone(t), t.toolCalls = s.toolCalls,
           t.roleSent = s.roleSent \/ t.roleSent = TRUE,
           t.claudeToolUses = s.claudeToolUses, t.claudeToolUseIndex = s.claudeToolUseIndex,
           NEW q, q.phase # "start", p.phase # "start" \/ t.roleSent,
           Len(q.calls) = Len(p.calls), p.blocks \in Nat,
           \/ q.block # None /\ q.blocks = p.blocks
           \/ p.block = None /\ q.blocks \in {p.blocks, p.blocks + 1}
           \/ q.blocks = p.blocks /\ \A k \in DOMAIN s.claudeToolUses : s.claudeToolUses[k].finalized,
           \A k \in DOMAIN s.claudeToolUses : k \in Nat
    PROVE  UsesKnown(t, q)
<1>1. /\ t.roleSent /\ t.claudeToolUseIndex = Len(q.calls)
      /\ \A i \in DOMAIN t.toolCalls : i < Len(q.calls) /\ IdFits(t.toolCalls[i].id, q.calls)
  BY DEF UsesKnown, IdFits
<1>2. ASSUME NEW k \in DOMAIN t.claudeToolUses
      PROVE  /\ k < q.blocks /\ UseFields \subseteq DOMAIN t.claudeToolUses[k]
             /\ ~ t.claudeToolUses[k].finalized =>
                    q.block # None /\ k = q.blocks - 1 /\ IsUntold(t, t.claudeToolUses[k])
  <2>1. /\ k < p.blocks /\ UseFields \subseteq DOMAIN s.claudeToolUses[k]
        /\ ~ s.claudeToolUses[k].finalized =>
                p.block # None /\ k = p.blocks - 1 /\ IsUntold(s, s.claudeToolUses[k])
    BY DEF UsesKnown
  <2>2. k < q.blocks
    BY <2>1
  <2>3. IsUntold(s, s.claudeToolUses[k]) => IsUntold(t, t.claudeToolUses[k])
    BY DEF IsUntold
  <2> QED
    BY <2>1, <2>2, <2>3
<1> QED
  BY <1>1, <1>2 DEF UsesKnown

LEMMA AnthropicStartItems ==
    ASSUME EndsInv, EndsInv', ItemsInv, IsTold, pair = <<"anthropic", "responses">>, AnthropicStart
    PROVE  ItemsInv'
<1> DEFINE event == [type |-> "message_start"]
           q == [up EXCEPT !.phase = "open"]
           a == [state EXCEPT !["claudeBlocks"] = NoBlocks]
           b == [a EXCEPT !["claudeToolUses"] = NoBlocks]
           r == [b EXCEPT !["claudeToolUseIndex"] = 0]
           given == GiveRole(From(r))
<1>1. Receive(event, q) /\ up.phase = "start"
  BY DEF AnthropicStart
<1>2. ~ state.fatal
  BY <1>1 DEF Receive
<1>3. Ready(state) /\ NoneDone(state) /\ UsesKnown(state, up) /\ KeepsOn(up)
  BY <1>1, <1>2, AnthropicNow
<1>4. /\ DOMAIN q = DOMAIN up /\ q.phase = "open" /\ q.calls = up.calls /\ q.blocks = up.blocks
  BY <1>3 DEF KeepsOn
<1>5. AnthropicSource(state, event) = given
  <2>1. r = [state EXCEPT !.claudeBlocks = NoBlocks, !.claudeToolUses = NoBlocks, !.claudeToolUseIndex = 0]
    OBVIOUS
  <2> HIDE DEF r
  <2> QED
    BY <1>2, <2>1 DEF AnthropicSource
<1>6. /\ Ready(r) /\ NoneDone(r) /\ ~ r.fatal /\ r.toolCalls = state.toolCalls
      /\ r.claudeToolUses = NoBlocks /\ r.claudeToolUseIndex = 0
  <2>1. Ready(a) /\ NoneDone(a) /\ a.fatal = state.fatal /\ a.toolCalls = state.toolCalls
    BY <1>3, OtherOfSource DEF ItemFields
  <2> HIDE DEF a
  <2>2. /\ Ready(b) /\ NoneDone(b) /\ b.fatal = a.fatal /\ b.toolCalls = a.toolCalls
        /\ b["claudeToolUses"] = NoBlocks
    BY <2>1, OtherOfSource DEF ItemFields
  <2> HIDE DEF b
  <2>3. /\ Ready(r) /\ NoneDone(r) /\ r.fatal = b.fatal /\ r.toolCalls = b.toolCalls
        /\ r["claudeToolUseIndex"] = 0 /\ r["claudeToolUses"] = b["claudeToolUses"]
    BY <2>2, OtherOfSource DEF ItemFields
  <2> QED
    BY <1>2, <2>1, <2>2, <2>3
<1>7. ASSUME NEW t, Ready(t), NoneDone(t), ~ t.fatal, t.toolCalls = state.toolCalls, t.roleSent,
             t.claudeToolUses = NoBlocks, t.claudeToolUseIndex = 0
      PROVE  Ready(t) /\ ~ t.fatal /\ UsesKnown(t, q)
  <2>1. DOMAIN t.claudeToolUses = {}
    BY <1>7 DEF NoBlocks
  <2>2. Len(q.calls) = 0 /\ \A i \in DOMAIN t.toolCalls : i < Len(q.calls) /\ IdFits(t.toolCalls[i].id, q.calls)
    BY <1>1, <1>3, <1>4, <1>7 DEF UsesKnown
  <2> QED
    BY <1>7, <2>1, <2>2 DEF UsesKnown
<1> HIDE DEF r, q
<1>8. Brings(q, given)
  <2>1. CASE r.roleSent
    <3>1. given = From(r)
      BY <2>1 DEF GiveRole, From
    <3>2. given.state = r /\ given.chunks = <<>>
      BY <3>1 DEF From
    <3> QED
      BY <1>6, <1>7, <2>1, <3>2 DEF Brings
  <2>2. CASE ~ r.roleSent
    <3> DEFINE c == [EmptyChunk EXCEPT !.role = TRUE]
               t == [r EXCEPT !["roleSent"] = TRUE]
    <3>1. given.state = t /\ given.chunks = Append(<<>>, c)
      BY <2>2 DEF GiveRole, From, Give
    <3>2. Append(<<>>, c) = <<c>>
      OBVIOUS
    <3>3. IsOffer(t, q, c)
      BY WordsAreOffered, NothingIsList
    <3>4. /\ Ready(t) /\ NoneDone(t) /\ t.fatal = r.fatal /\ t.toolCalls = r.toolCalls
          /\ t["roleSent"] = TRUE /\ t["claudeToolUses"] = r["claudeToolUses"]
          /\ t["claudeToolUseIndex"] = r["claudeToolUseIndex"]
      BY <1>6, OtherOfSource DEF ItemFields
    <3> HIDE DEF t, c
    <3>5. Ready(t) /\ ~ t.fatal /\ UsesKnown(t, q)
      BY <1>6, <1>7, <3>4
    <3> QED
      BY <3>1, <3>2, <3>3, <3>5 DEF Brings
  <2> QED
    BY <2>1, <2>2
<1>9. event.type \notin {"done", "error"}
  OBVIOUS
<1> QED
  BY <1>1, <1>4, <1>5, <1>8, <1>9, AnthropicItems

\* A block starts that tells no call.
LEMMA AnthropicBlockItems ==
    ASSUME EndsInv, EndsInv', ItemsInv, IsTold, pair = <<"anthropic", "responses">>, AnthropicBlock
    PROVE  ItemsInv'
<1>1. up.phase = "open" /\ up.block = None
  BY DEF AnthropicBlock
<1>2. PICK kind \in {"text", "thinking", "unknown"} :
        Receive([type |-> "block_start", index |-> up.blocks, kind |-> kind, name |-> None],
                [up EXCEPT !.block = [kind |-> kind], !.blocks = @ + 1])
  BY DEF AnthropicBlock
<1> DEFINE event == [type |-> "block_start", index |-> up.blocks, kind |-> kind, name |-> None]
           q == [up EXCEPT !.block = [kind |-> kind], !.blocks = @ + 1]
           v == With(state.claudeBlocks, event.index, event.kind)
           t == [state EXCEPT !["claudeBlocks"] = v]
<1>3. Receive(event, q) /\ ~ state.fatal
  BY <1>2 DEF Receive
<1>4. /\ Ready(state) /\ NoneDone(state) /\ UsesKnown(state, up) /\ KeepsOn(up) /\ up.blocks \in Nat
      /\ Bounded(DOMAIN state.claudeToolUses)
  BY <1>1, <1>3, AnthropicNow
<1>5. /\ DOMAIN q = DOMAIN up /\ q.phase = "open" /\ q.calls = up.calls /\ q.blocks = up.blocks + 1
  BY <1>1, <1>4 DEF KeepsOn
<1>6. CASE kind = "unknown"
  <2>1. AnthropicSource(state, event) = Rejected(state)
    BY <1>3, <1>6 DEF AnthropicSource, BlockStarted
  <2>2. event.type \notin {"done", "error"}
    OBVIOUS
  <2> HIDE DEF event, q
  <2> QED
    BY <1>1, <1>3, <1>5, <2>1, <2>2, AnthropicItems
<1>7. CASE kind # "unknown"
  <2>1. AnthropicSource(state, event) = From(t)
    BY <1>3, <1>7 DEF AnthropicSource, BlockStarted
  <2> HIDE DEF v
  <2>2. /\ Ready(t) /\ NoneDone(t) /\ t.fatal = state.fatal /\ t.toolCalls = state.toolCalls
        /\ \A g \in ItemFields \ {"claudeBlocks"} : t[g] = state[g]
    BY <1>4, OtherOfSource DEF ItemFields
  <2>3. /\ t.roleSent = state.roleSent /\ t.claudeToolUses = state.claudeToolUses
        /\ t.claudeToolUseIndex = state.claudeToolUseIndex
    <3>1. \A g \in {"roleSent", "claudeToolUses", "claudeToolUseIndex"} : g \in ItemFields \ {"claudeBlocks"}
      BY DEF ItemFields
    <3> HIDE DEF t
    <3> QED
      BY <2>2, <3>1
  <2>4. event.type \notin {"done", "error"}
    OBVIOUS
  <2> HIDE DEF t, q, event
  <2>5. \A k \in DOMAIN state.claudeToolUses : k \in Nat
    BY <1>4 DEF Bounded
  <2>6. state.roleSent
    BY <1>1, <1>4 DEF UsesKnown
  <2>7. UsesKnown(t, q)
    BY <1>1, <1>4, <1>5, <2>2, <2>3, <2>5, <2>6, UsesKeep
  <2>8. Brings(q, From(t))
    BY <1>3, <2>2, <2>7 DEF Brings, From
  <2> QED
    BY <1>1, <1>3, <1>5, <2>1, <2>4, <2>8, AnthropicItems
<1> QED
  BY <1>6, <1>7

\* A block starts that tells a call.
LEMMA CallStartItems ==
    ASSUME EndsInv, EndsInv', ItemsInv, IsTold, pair = <<"anthropic", "responses">>, up.phase = "open", up.block = None,
           NEW name, NEW input, IsList(input), NEW event,
           event = [type |-> "block_start", index |-> up.blocks, kind |-> "tool_use", id |-> NewCallId,
                    name |-> name, input |-> input],
           Receive(event, [Calling(name, input) EXCEPT
                                !.block = [kind |-> IF input = <<>> THEN "tool_use" ELSE "seeded"],
                                !.blocks = @ + 1])
    PROVE  ItemsInv'
<1> DEFINE kind == IF input = <<>> THEN "tool_use" ELSE "seeded"
           q == [Calling(name, input) EXCEPT !.block = [kind |-> kind], !.blocks = @ + 1]
           tool == [index |-> state.claudeToolUseIndex, id |-> NewCallId, name |-> name, args |-> input,
                    zeroArg |-> input = <<>>, seeded |-> input # <<>>, emitted |-> FALSE, finalized |-> FALSE]
           call == [id |-> NewCallId, index |-> Len(up.calls), name |-> name, args |-> input]
           a == [state EXCEPT !["claudeBlocks"] = With(state.claudeBlocks, up.blocks, "tool_use")]
           uses == With(state.claudeToolUses, up.blocks, tool)
           next == state.claudeToolUseIndex + 1
           b == [a EXCEPT !["claudeToolUses"] = uses]
           t == [b EXCEPT !["claudeToolUseIndex"] = next]
<1>1. Receive(event, q) /\ ~ state.fatal
  BY DEF Receive
<1>2. /\ Ready(state) /\ NoneDone(state) /\ UsesKnown(state, up) /\ KeepsOn(up) /\ up.blocks \in Nat
      /\ IsCalls(up.calls) /\ Len(up.calls) \in Nat
      /\ "claudeToolUses" \in DOMAIN state /\ "claudeToolUseIndex" \in DOMAIN state
      /\ Bounded(DOMAIN state.claudeToolUses)
  BY <1>1, AnthropicNow
<1>3. /\ DOMAIN q = DOMAIN up /\ q.phase = "open" /\ q.calls = Append(up.calls, call) /\ q.blocks = up.blocks + 1
      /\ q.block = [kind |-> kind]
  BY <1>2 DEF KeepsOn, Calling
<1>4. q.block # None
  BY <1>3, OpenBlockAssumption
<1>5. Len(q.calls) = Len(up.calls) + 1
  <2>1. IsList(up.calls)
    BY <1>2 DEF IsCalls
  <2> QED
    BY <1>3, <2>1, Appending
<1>6. AnthropicSource(state, event) = From(t)
  <2>1. BlockStarted(state, event) =
            From([[state EXCEPT !.claudeBlocks = With(@, up.blocks, "tool_use")]
                    EXCEPT !.claudeToolUses = With(@, up.blocks, tool), !.claudeToolUseIndex = @ + 1])
    BY DEF BlockStarted
  <2>2. [[state EXCEPT !.claudeBlocks = With(@, up.blocks, "tool_use")]
                    EXCEPT !.claudeToolUses = With(@, up.blocks, tool), !.claudeToolUseIndex = @ + 1] = t
    <3>1. /\ a.claudeToolUses = state.claudeToolUses /\ b.claudeToolUseIndex = state.claudeToolUseIndex
          /\ "claudeToolUses" \in DOMAIN a /\ "claudeToolUseIndex" \in DOMAIN b
      BY <1>2
    <3>2. a = [state EXCEPT !.claudeBlocks = With(@, up.blocks, "tool_use")]
      OBVIOUS
    <3> HIDE DEF a, tool
    <3> QED
      BY <3>1, <3>2
  <2>3. event.type = "block_start"
    OBVIOUS
  <2> HIDE DEF t
  <2> QED
    BY <1>1, <2>1, <2>2, <2>3 DEF AnthropicSource
<1>7. state.claudeToolUseIndex = Len(up.calls)
  BY <1>2 DEF UsesKnown
<1>8. /\ tool.index = Len(up.calls) /\ tool.id = Len(up.calls) + 1 /\ IsList(tool.args) /\ UseFields \subseteq DOMAIN tool
  BY <1>7 DEF UseFields, NewCallId
<1>9. event.type \notin {"done", "error"}
  OBVIOUS
<1>10. uses = With(state.claudeToolUses, up.blocks, tool) /\ next = state.claudeToolUseIndex + 1
  OBVIOUS
<1> HIDE DEF q, tool, kind, uses, next
<1>11. /\ Ready(t) /\ NoneDone(t) /\ ~ t.fatal /\ t.toolCalls = state.toolCalls /\ t.roleSent = state.roleSent
       /\ t.claudeToolUses = With(state.claudeToolUses, up.blocks, tool)
       /\ t.claudeToolUseIndex = Len(up.calls) + 1
  <2>1. /\ Ready(a) /\ NoneDone(a) /\ a.fatal = state.fatal /\ a.toolCalls = state.toolCalls
        /\ a["roleSent"] = state["roleSent"]
    BY <1>2, OtherOfSource DEF ItemFields
  <2> HIDE DEF a
  <2>2. /\ DOMAIN t = DOMAIN a /\ \A g \in DOMAIN a \ {"claudeToolUses", "claudeToolUseIndex"} : t[g] = a[g]
    OBVIOUS
  <2>3. "claudeToolUses" \in DOMAIN a /\ "claudeToolUseIndex" \in DOMAIN a /\ "roleSent" \in DOMAIN a
    BY <2>1 DEF Ready, Holding, ItemFields
  <2>4. t.claudeToolUses = uses /\ t.claudeToolUseIndex = next
    BY <2>3
  <2> HIDE DEF t, b
  <2>5. t.roleSent = a.roleSent
    BY <2>2, <2>3
  <2>6. \A g \in ItemFields \ {"usage", "roleSent", "claudeToolUses", "claudeToolUseIndex", "finish"} : t[g] = a[g]
    <3>1. ItemFields \subseteq DOMAIN a
      BY <2>1 DEF Ready, Holding
    <3> QED
      BY <2>2, <3>1
  <2>7. Ready(t) /\ NoneDone(t) /\ t.fatal = a.fatal /\ t.toolCalls = a.toolCalls
    BY <2>1, <2>2, <2>6, SourceKeeps
  <2> QED
    BY <1>1, <1>7, <1>10, <2>1, <2>4, <2>5, <2>7
<1> HIDE DEF t
<1>12. IsUntold(t, tool)
  <2>1. \A j \in DOMAIN state.toolCalls : j # Len(up.calls) /\ state.toolCalls[j].id # Len(up.calls) + 1
    <3>1. \A j \in DOMAIN state.toolCalls : j < Len(up.calls) /\ IdFits(state.toolCalls[j].id, up.calls)
      BY <1>2 DEF UsesKnown
    <3>2. None # Len(up.calls) + 1
      BY <1>2, NoneAssumption
    <3> QED
      BY <1>2, <3>1, <3>2 DEF IdFits
  <2> QED
    BY <1>2, <1>8, <1>11, <2>1 DEF IsUntold
<1>13. UsesKnown(t, q)
  <2>1. \A i \in DOMAIN t.toolCalls : i < Len(q.calls) /\ IdFits(t.toolCalls[i].id, q.calls)
    <3>1. \A i \in DOMAIN state.toolCalls : i < Len(up.calls) /\ IdFits(state.toolCalls[i].id, up.calls)
      BY <1>2 DEF UsesKnown
    <3>2. ASSUME NEW i \in DOMAIN state.toolCalls PROVE i < Len(q.calls)
      <4>1. i < Len(up.calls)
        BY <3>1
      <4>2. KeyFits(i, up.calls) \/ i \notin Nat
        BY <4>1 DEF KeyFits
      <4>3. Bounded(DOMAIN state.toolCalls)
        BY <1>2 DEF Ready, Holding, CallsFit
      <4>4. i \in Nat
        BY <4>3 DEF Bounded
      <4> QED
        BY <1>2, <1>5, <4>1, <4>4
    <3>3. \A id : IdFits(id, up.calls) => IdFits(id, q.calls)
      BY <1>2, <1>5 DEF IdFits
    <3> QED
      BY <1>11, <3>1, <3>2, <3>3
  <2>2. ASSUME NEW k \in DOMAIN t.claudeToolUses
        PROVE  /\ k < q.blocks /\ UseFields \subseteq DOMAIN t.claudeToolUses[k]
               /\ ~ t.claudeToolUses[k].finalized =>
                    q.block # None /\ k = q.blocks - 1 /\ IsUntold(t, t.claudeToolUses[k])
    <3>1. CASE k = up.blocks
      <4>1. t.claudeToolUses[k] = tool
        BY <1>11, <3>1 DEF With
      <4> QED
        BY <1>2, <1>3, <1>4, <1>8, <1>12, <3>1, <4>1
    <3>2. CASE k # up.blocks
      <4>1. k \in DOMAIN state.claudeToolUses /\ t.claudeToolUses[k] = state.claudeToolUses[k]
        BY <1>11, <3>2 DEF With
      <4>2. /\ k < up.blocks /\ UseFields \subseteq DOMAIN state.claudeToolUses[k]
            /\ state.claudeToolUses[k].finalized
        BY <1>2, <4>1 DEF UsesKnown
      <4>3. k \in Nat
        BY <1>2, <4>1 DEF Bounded
      <4> QED
        BY <1>2, <1>3, <4>1, <4>2, <4>3
    <3> QED
      BY <3>1, <3>2
  <2>3. t.roleSent
    BY <1>2, <1>11 DEF UsesKnown
  <2> QED
    BY <1>3, <1>5, <1>11, <2>1, <2>2, <2>3 DEF UsesKnown
<1>14. Brings(q, From(t))
  BY <1>11, <1>13 DEF Brings, From
<1> QED
  BY <1>1, <1>3, <1>6, <1>9, <1>14, AnthropicItems

LEMMA AnthropicCallItems ==
    ASSUME EndsInv, EndsInv', ItemsInv, IsTold, pair = <<"anthropic", "responses">>, AnthropicCall
    PROVE  ItemsInv'
<1>1. up.phase = "open" /\ up.block = None
  BY DEF AnthropicCall
<1>2. PICK name \in Names, input \in {<<>>, Whole} :
        Receive([type |-> "block_start", index |-> up.blocks, kind |-> "tool_use", id |-> NewCallId,
                 name |-> name, input |-> input],
                [Calling(name, input) EXCEPT !.block = [kind |-> IF input = <<>> THEN "tool_use" ELSE "seeded"],
                                              !.blocks = @ + 1])
  BY DEF AnthropicCall
<1>3. IsList(input)
  BY SmallLists
<1>4. PICK event : event = [type |-> "block_start", index |-> up.blocks, kind |-> "tool_use", id |-> NewCallId,
                            name |-> name, input |-> input]
  OBVIOUS
<1>5. Receive(event, [Calling(name, input) EXCEPT
                        !.block = [kind |-> IF input = <<>> THEN "tool_use" ELSE "seeded"], !.blocks = @ + 1])
  BY <1>2, <1>4
<1> QED
  BY <1>1, <1>3, <1>4, <1>5, CallStartItems

\* Words of a block that is open.
LEMMA AnthropicWordsItems ==
    ASSUME EndsInv, EndsInv', ItemsInv, IsTold, pair = <<"anthropic", "responses">>, AnthropicText \/ AnthropicThinking
    PROVE  ItemsInv'
<1>1. PICK event, q : /\ Receive(event, q) /\ up.block # None
                      /\ q.block = up.block /\ q.blocks = up.blocks /\ q.calls = up.calls /\ q.phase = up.phase
                      /\ DOMAIN q = DOMAIN up /\ event.type \in {"text_delta", "thinking_delta"}
                      /\ \E n : event.text = <<n>>
  <2>1. KeepsOn(up)
    BY DEF EndsInv
  <2>2. CASE AnthropicText
    <3> DEFINE event == [type |-> "text_delta", index |-> Index, text |-> <<Letter(up.text)>>]
               q == [up EXCEPT !.text = Append(@, Letter(@))]
    <3>1. Receive(event, q) /\ up.block # None
      BY <2>2 DEF AnthropicText, Block
    <3>2. /\ q.block = up.block /\ q.blocks = up.blocks /\ q.calls = up.calls /\ q.phase = up.phase
          /\ DOMAIN q = DOMAIN up
      BY <2>1 DEF KeepsOn
    <3>3. event.type \in {"text_delta", "thinking_delta"} /\ \E n : event.text = <<n>>
      OBVIOUS
    <3> HIDE DEF event, q
    <3> QED
      BY <3>1, <3>2, <3>3
  <2>3. CASE AnthropicThinking
    <3> DEFINE event == [type |-> "thinking_delta", index |-> Index, text |-> <<Letter(up.thought)>>]
               q == [up EXCEPT !.thought = Append(@, Letter(@))]
    <3>1. Receive(event, q) /\ up.block # None
      BY <2>3 DEF AnthropicThinking
    <3>2. /\ q.block = up.block /\ q.blocks = up.blocks /\ q.calls = up.calls /\ q.phase = up.phase
          /\ DOMAIN q = DOMAIN up
      BY <2>1 DEF KeepsOn
    <3>3. event.type \in {"text_delta", "thinking_delta"} /\ \E n : event.text = <<n>>
      OBVIOUS
    <3> HIDE DEF event, q
    <3> QED
      BY <3>1, <3>2, <3>3
  <2> QED
    BY <2>2, <2>3
<1>2. ~ state.fatal /\ up.phase = "open"
  BY <1>1 DEF Receive, EndsInv, KeepsOn
<1>3. /\ Ready(state) /\ NoneDone(state) /\ UsesKnown(state, up) /\ up.blocks \in Nat
      /\ Bounded(DOMAIN state.claudeToolUses)
  BY <1>2, AnthropicNow
<1>4. state.roleSent
  BY <1>2, <1>3 DEF UsesKnown
<1>5. GiveRole(From(state)) = From(state)
  BY <1>4 DEF GiveRole, From
<1>6. PICK n : event.text = <<n>>
  BY <1>1
<1>7. IsList(event.text) /\ event.text # <<>>
  <2>1. IsList(<<n>>) /\ <<n>> # <<>>
    BY SmallLists
  <2> QED
    BY <1>6, <2>1
<1>8. \/ AnthropicSource(state, event) = Rejected(state)
      \/ AnthropicSource(state, event) = Give(From(state), [EmptyChunk EXCEPT !.content = event.text])
      \/ AnthropicSource(state, event) = Give(From(state), [EmptyChunk EXCEPT !.reasoning = event.text])
  <2>1. CASE event.type = "text_delta"
    BY <1>2, <1>5, <1>7, <2>1 DEF AnthropicSource, TextDeltaGiven
  <2>2. CASE event.type = "thinking_delta"
    BY <1>2, <1>5, <1>7, <2>2 DEF AnthropicSource, ThinkingDelta
  <2> QED
    BY <1>1, <2>1, <2>2
<1>9. UsesKnown(state, q)
  <2>1. \A k \in DOMAIN state.claudeToolUses : k \in Nat
    BY <1>3 DEF Bounded
  <2> QED
    BY <1>1, <1>2, <1>3, <2>1, UsesKeep
<1>10. ASSUME NEW c, IsOffer(state, q, c)
       PROVE  Brings(q, Give(From(state), c))
  <2>1. Give(From(state), c).state = state /\ Give(From(state), c).chunks = Append(<<>>, c)
    BY DEF Give, From
  <2>2. Append(<<>>, c) = <<c>>
    OBVIOUS
  <2> QED
    BY <1>2, <1>3, <1>9, <1>10, <2>1, <2>2 DEF Brings
<1>11. AnthropicSource(state, event) = Rejected(state) \/ Brings(q, AnthropicSource(state, event))
  <2>1. /\ IsOffer(state, q, [EmptyChunk EXCEPT !.content = event.text])
        /\ IsOffer(state, q, [EmptyChunk EXCEPT !.reasoning = event.text])
    BY <1>7, WordsAreOffered
  <2>2. /\ Brings(q, Give(From(state), [EmptyChunk EXCEPT !.content = event.text]))
        /\ Brings(q, Give(From(state), [EmptyChunk EXCEPT !.reasoning = event.text]))
    BY <1>10, <2>1
  <2> QED
    BY <1>8, <2>2
<1> QED
  BY <1>1, <1>2, <1>11, AnthropicItems

\* The reason of the end is told.
LEMMA AnthropicDeltaItems ==
    ASSUME EndsInv, EndsInv', ItemsInv, IsTold, pair = <<"anthropic", "responses">>, AnthropicDelta
    PROVE  ItemsInv'
<1>1. up.phase = "open" /\ up.block = None
  BY DEF AnthropicDelta
<1>2. PICK stop \in {"end_turn", "max_tokens", "tool_use"} :
        Receive([type |-> "message_delta", stop |-> stop, usage |-> TRUE],
                [up EXCEPT !.phase = "finished", !.usage = TRUE, !.reason = stop])
  BY DEF AnthropicDelta
<1> DEFINE event == [type |-> "message_delta", stop |-> stop, usage |-> TRUE]
           q == [up EXCEPT !.phase = "finished", !.usage = TRUE, !.reason = stop]
           f == IF event.stop = None THEN state.finish ELSE FinishOf(event.stop)
           u == state.usage \/ event.usage
           a == [state EXCEPT !["finish"] = f]
           t == [a EXCEPT !["usage"] = u]
<1>3. Receive(event, q) /\ ~ state.fatal
  BY <1>2 DEF Receive
<1>4. /\ Ready(state) /\ NoneDone(state) /\ UsesKnown(state, up) /\ KeepsOn(up) /\ up.blocks \in Nat
      /\ Bounded(DOMAIN state.claudeToolUses)
  BY <1>1, <1>3, AnthropicNow
<1>5. /\ DOMAIN q = DOMAIN up /\ q.phase = "finished" /\ q.calls = up.calls /\ q.blocks = up.blocks
  BY <1>4 DEF KeepsOn
<1>6. AnthropicSource(state, event) = From(t)
  <2>1. MessageDeltaRead(state, event) = From(t)
    <3>1. ItemFields \subseteq DOMAIN state
      BY <1>4 DEF Ready, Holding
    <3>2. "finish" \in DOMAIN state /\ "usage" \in DOMAIN state
      BY <3>1 DEF ItemFields
    <3>3. [state EXCEPT !.finish = IF event.stop = None THEN @ ELSE FinishOf(event.stop), !.usage = @ \/ event.usage]
            = [state EXCEPT !.finish = f, !.usage = u]
      BY <3>2
    <3>4. t = [state EXCEPT !.finish = f, !.usage = u]
      OBVIOUS
    <3> HIDE DEF t, f, u, event
    <3> QED
      BY <3>3, <3>4 DEF MessageDeltaRead
  <2>2. event.type = "message_delta"
    OBVIOUS
  <2> HIDE DEF t, event
  <2> QED
    BY <1>3, <2>1, <2>2 DEF AnthropicSource
<1> HIDE DEF f, u
<1>7. /\ Ready(t) /\ NoneDone(t) /\ ~ t.fatal /\ t.toolCalls = state.toolCalls
      /\ t.roleSent = state.roleSent /\ t.claudeToolUses = state.claudeToolUses
      /\ t.claudeToolUseIndex = state.claudeToolUseIndex
  <2>1. /\ Ready(a) /\ NoneDone(a) /\ a.fatal = state.fatal /\ a.toolCalls = state.toolCalls
        /\ a["roleSent"] = state["roleSent"] /\ a["claudeToolUses"] = state["claudeToolUses"]
        /\ a["claudeToolUseIndex"] = state["claudeToolUseIndex"]
    BY <1>4, OtherOfSource DEF ItemFields
  <2> HIDE DEF a
  <2>2. /\ Ready(t) /\ NoneDone(t) /\ t.fatal = a.fatal /\ t.toolCalls = a.toolCalls
        /\ t["roleSent"] = a["roleSent"] /\ t["claudeToolUses"] = a["claudeToolUses"]
        /\ t["claudeToolUseIndex"] = a["claudeToolUseIndex"]
    BY <2>1, OtherOfSource DEF ItemFields
  <2> QED
    BY <1>3, <2>1, <2>2
<1>8. event.type \notin {"done", "error"}
  OBVIOUS
<1> HIDE DEF t, q, event
<1>9. UsesKnown(t, q)
  <2>1. \A k \in DOMAIN state.claudeToolUses : k \in Nat
    BY <1>4 DEF Bounded
  <2>2. state.roleSent
    BY <1>1, <1>4 DEF UsesKnown
  <2> QED
    BY <1>1, <1>4, <1>5, <1>7, <2>1, <2>2, UsesKeep
<1>10. Brings(q, From(t))
  BY <1>7, <1>9 DEF Brings, From
<1> QED
  BY <1>1, <1>3, <1>5, <1>6, <1>8, <1>10, AnthropicItems

\* Arguments that complete a seed are still a text.
LEMMA MergedIsList ==
    ASSUME NEW seed, IsList(seed), NEW delta, IsList(delta)
    PROVE  IsList(MergeSeeded(seed, delta))
<1> DEFINE Cut(n) == SubSeq(seed, 1, Len(seed) - n) \o delta
           cuts == {n \in 0..Len(seed) : IsObject(Cut(n))}
           least == CHOOSE n \in cuts : \A m \in cuts : n <= m
<1>1. Len(seed) \in Nat
  BY DEF IsList
<1>2. ASSUME NEW n \in 0..Len(seed) PROVE IsList(Cut(n))
  <2>1. PICK b \in Int : b = Len(seed) - n
    BY <1>1
  <2>2. IsList(SubSeq(seed, 0 + 1, b))
    BY <1>1, <2>1, Cutting
  <2>3. IsList(SubSeq(seed, 1, b))
    BY <2>2
  <2>4. IsList(SubSeq(seed, 1, b) \o delta)
    BY <2>3, Joining
  <2> QED
    BY <2>1, <2>4
<1> HIDE DEF Cut
<1>3. ASSUME cuts # {} PROVE least \in 0..Len(seed)
  <2> DEFINE S == {Len(seed) - n : n \in cuts}
  <2>1. S \in SUBSET (0..Len(seed)) /\ S # {}
    BY <1>1, <1>3
  <2>2. Max(S) \in S /\ \A i \in S : i <= Max(S)
    <3> HIDE DEF S
    <3> QED
      BY <1>1, <2>1, Greatest
  <2>3. PICK n \in cuts : Max(S) = Len(seed) - n
    BY <2>2
  <2>4. \A m \in cuts : n <= m
    <3>1. ASSUME NEW m \in cuts PROVE n <= m
      <4>1. Len(seed) - m \in S
        OBVIOUS
      <4>2. Len(seed) - m <= Max(S)
        BY <2>2, <4>1
      <4> HIDE DEF S
      <4> QED
        BY <1>1, <2>3, <4>2
    <3> QED
      BY <3>1
  <2>5. \E k \in cuts : \A m \in cuts : k <= m
    BY <2>4
  <2> HIDE DEF cuts
  <2>6. least \in cuts
    BY <2>5
  <2> QED
    BY <2>6 DEF cuts
<1>4. MergeSeeded(seed, delta) = IF delta = <<>> THEN seed ELSE IF cuts = {} THEN seed \o delta ELSE Cut(least)
  BY DEF MergeSeeded, Cut
<1> HIDE DEF cuts, least
<1>5. IsList(seed \o delta)
  BY Joining
<1>6. CASE delta = <<>>
  BY <1>4, <1>6
<1>7. CASE delta # <<>> /\ cuts = {}
  BY <1>4, <1>5, <1>7
<1>8. CASE delta # <<>> /\ cuts # {}
  BY <1>2, <1>3, <1>4, <1>8
<1> QED
  BY <1>6, <1>7, <1>8

LEMMA ContinuedUse ==
    ASSUME NEW tool, UseFields \subseteq DOMAIN tool, NEW args, IsList(args), NEW c, c = Continued(tool, args)
    PROVE  /\ UseFields \subseteq DOMAIN c /\ c.index = tool.index /\ c.id = tool.id
           /\ c.finalized = tool.finalized /\ (IsList(tool.args) => IsList(c.args))
<1> DEFINE v == IF tool.seeded THEN MergeSeeded(tool.args, args) ELSE tool.args \o args
<1>1. IsList(tool.args) => IsList(v)
  <2>1. CASE tool.seeded
    BY <2>1, MergedIsList
  <2>2. CASE ~ tool.seeded
    BY <2>2, Joining
  <2> QED
    BY <2>1, <2>2
<1>2. c = [tool EXCEPT !.zeroArg = FALSE, !.seeded = FALSE, !.args = v]
  BY DEF Continued, UseFields
<1> HIDE DEF v
<1>3. /\ UseFields \subseteq DOMAIN c /\ c.index = tool.index /\ c.id = tool.id
      /\ c.finalized = tool.finalized /\ c.args = v
  BY <1>2 DEF UseFields
<1> QED
  BY <1>1, <1>3

\* Arguments of the open block's call.
LEMMA ArgumentsItems ==
    ASSUME EndsInv, EndsInv', ItemsInv, IsTold, pair = <<"anthropic", "responses">>, up.block # None,
           NEW piece, IsList(piece), NEW event, event = [type |-> "input_json_delta", index |-> Index, args |-> piece],
           NEW q, DOMAIN q = DOMAIN up, q.phase = up.phase, q.blocks = up.blocks, q.block # None,
           DOMAIN q.calls = DOMAIN up.calls, Receive(event, q)
    PROVE  ItemsInv'
<1>1. ~ state.fatal /\ up.phase = "open" /\ KeepsOn(up)
  BY DEF Receive, EndsInv, KeepsOn
<1>2. /\ Ready(state) /\ NoneDone(state) /\ UsesKnown(state, up) /\ up.blocks \in Nat
      /\ Bounded(DOMAIN state.claudeToolUses) /\ Len(up.calls) \in Nat /\ IsCalls(up.calls)
      /\ "claudeToolUses" \in DOMAIN state
  BY <1>1, AnthropicNow
<1>3. state.roleSent
  BY <1>1, <1>2 DEF UsesKnown
<1>4. Len(q.calls) = Len(up.calls)
  <2>1. up'.calls = q.calls
    BY <1>1, BecomingAll
  <2>2. IsCalls(q.calls)
    BY <2>1 DEF EndsInv, KeepsOn
  <2>3. DOMAIN q.calls = 1..Len(q.calls) /\ DOMAIN up.calls = 1..Len(up.calls) /\ Len(q.calls) \in Nat
    BY <1>2, <2>2 DEF IsCalls, IsList
  <2>4. 1..Len(q.calls) = 1..Len(up.calls)
    BY <2>3
  <2>5. PICK m, n \in Nat : m = Len(q.calls) /\ n = Len(up.calls)
    BY <2>3, <1>2
  <2>6. 1..m = 1..n
    BY <2>4, <2>5
  <2>7. m = n
    BY <2>6
  <2> QED
    BY <2>5, <2>7
<1>5. \A k \in DOMAIN state.claudeToolUses : k \in Nat
  BY <1>2 DEF Bounded
<1>6. AnthropicSource(state, event) = ArgumentsDelta(state, event)
  BY <1>1 DEF AnthropicSource
<1>7. Brings(q, ArgumentsDelta(state, event))
  <2>1. CASE event.index \notin DOMAIN state.claudeToolUses
    <3>1. ArgumentsDelta(state, event) = From(state)
      BY <2>1 DEF ArgumentsDelta
    <3>2. UsesKnown(state, q)
      BY <1>1, <1>2, <1>4, <1>5, UsesKeep
    <3> QED
      BY <1>1, <1>2, <3>1, <3>2 DEF Brings, From
  <2>2. CASE event.index \in DOMAIN state.claudeToolUses
    <3> DEFINE x == event.index
               old == state.claudeToolUses[x]
               tool == Continued(old, piece)
               uses == [state.claudeToolUses EXCEPT ![x] = tool]
               t == [state EXCEPT !["claudeToolUses"] = uses]
    <3>1. ArgumentsDelta(state, event) = From(t)
      <4>1. [state EXCEPT !.claudeToolUses[event.index] = Continued(@, event.args)] = t
        <5>1. event.args = piece
          OBVIOUS
        <5> QED
          BY <1>2, <2>2, <5>1
      <4> HIDE DEF t
      <4> QED
        BY <2>2, <4>1 DEF ArgumentsDelta
    <3>2. /\ DOMAIN uses = DOMAIN state.claudeToolUses /\ uses[x] = tool
          /\ \A k \in DOMAIN state.claudeToolUses \ {x} : uses[k] = state.claudeToolUses[k]
      BY <2>2
    <3>3. UseFields \subseteq DOMAIN old
      BY <1>2, <2>2 DEF UsesKnown
    <3> HIDE DEF tool, uses
    <3>4. /\ UseFields \subseteq DOMAIN tool /\ tool.index = old.index /\ tool.id = old.id
          /\ tool.finalized = old.finalized /\ (IsList(old.args) => IsList(tool.args))
      BY <3>3, ContinuedUse DEF tool
    <3>5. /\ DOMAIN t = DOMAIN state /\ \A g \in DOMAIN state \ {"claudeToolUses"} : t[g] = state[g]
          /\ t.claudeToolUses = uses
      BY <1>2
    <3> HIDE DEF t
    <3>6. /\ Ready(t) /\ NoneDone(t) /\ t.fatal = state.fatal /\ t.toolCalls = state.toolCalls
          /\ t.roleSent = state.roleSent /\ t.claudeToolUseIndex = state.claudeToolUseIndex
      <4>1. ItemFields \subseteq DOMAIN state
        BY <1>2 DEF Ready, Holding
      <4>2. \A g \in ItemFields \ {"usage", "roleSent", "claudeToolUses", "claudeToolUseIndex", "finish"} : t[g] = state[g]
        BY <3>5, <4>1
      <4>3. "roleSent" \in DOMAIN state /\ "claudeToolUseIndex" \in DOMAIN state
        BY <4>1 DEF ItemFields
      <4> QED
        BY <1>2, <3>5, <4>2, <4>3, SourceKeeps
    <3>7. UsesKnown(t, q)
      <4>1. ASSUME NEW k \in DOMAIN t.claudeToolUses
            PROVE  /\ k < q.blocks /\ UseFields \subseteq DOMAIN t.claudeToolUses[k]
                   /\ ~ t.claudeToolUses[k].finalized =>
                        q.block # None /\ k = q.blocks - 1 /\ IsUntold(t, t.claudeToolUses[k])
        <5>1. /\ k < up.blocks /\ UseFields \subseteq DOMAIN state.claudeToolUses[k]
              /\ ~ state.claudeToolUses[k].finalized =>
                    k = up.blocks - 1 /\ IsUntold(state, state.claudeToolUses[k])
          BY <1>2, <3>2, <3>5 DEF UsesKnown
        <5>2. CASE k = x
          <6>1. t.claudeToolUses[k] = tool
            BY <3>2, <3>5, <5>2
          <6>2. IsUntold(state, old) => IsUntold(t, tool)
            BY <3>4, <3>6 DEF IsUntold
          <6> QED
            BY <3>4, <5>1, <5>2, <6>1, <6>2
        <5>3. CASE k # x
          <6>1. t.claudeToolUses[k] = state.claudeToolUses[k]
            BY <3>2, <3>5, <5>3
          <6>2. IsUntold(state, state.claudeToolUses[k]) => IsUntold(t, state.claudeToolUses[k])
            BY <3>6 DEF IsUntold
          <6> QED
            BY <5>1, <6>1, <6>2
        <5> QED
          BY <5>2, <5>3
      <4>2. \A i \in DOMAIN t.toolCalls : i < Len(q.calls) /\ IdFits(t.toolCalls[i].id, q.calls)
        BY <1>2, <1>4, <3>6 DEF UsesKnown, IdFits
      <4>3. t.claudeToolUseIndex = Len(q.calls)
        BY <1>2, <1>4, <3>6 DEF UsesKnown
      <4> QED
        BY <1>1, <1>3, <3>6, <4>1, <4>2, <4>3 DEF UsesKnown
    <3> QED
      BY <1>1, <3>1, <3>6, <3>7 DEF Brings, From
  <2> QED
    BY <2>1, <2>2
<1>8. event.type \notin {"done", "error"}
  OBVIOUS
<1> QED
  BY <1>1, <1>6, <1>7, <1>8, AnthropicItems

LEMMA TailIsList == IsList(Tail(Whole))
<1>1. Tail(Whole) = <<"x", "}">>
  <2>1. \A a, b, c : Tail(<<a, b, c>>) = <<b, c>>
    OBVIOUS
  <2> QED
    BY <2>1 DEF Whole
<1> QED
  BY <1>1, SmallLists

LEMMA AnthropicArgumentsItems ==
    ASSUME EndsInv, EndsInv', ItemsInv, IsTold, pair = <<"anthropic", "responses">>,
           AnthropicArguments \/ AnthropicSeededArguments
    PROVE  ItemsInv'
<1>1. KeepsOn(up)
  BY DEF EndsInv
<1>2. CASE AnthropicArguments
  <2>1. up.block # None
    BY <1>2 DEF AnthropicArguments, Block
  <2>2. PICK piece \in Pieces(up.calls[Len(up.calls)].args) :
            Receive([type |-> "input_json_delta", index |-> Index, args |-> piece], Adding(Len(up.calls), piece))
    BY <1>2, Zenon DEF AnthropicArguments
  <2> DEFINE q == Adding(Len(up.calls), piece)
  <2>3. PICK event : event = [type |-> "input_json_delta", index |-> Index, args |-> piece]
    OBVIOUS
  <2>4. Receive(event, q)
    BY <2>2, <2>3
  <2>5. IsList(piece)
    BY SmallLists DEF Pieces
  <2>6. /\ DOMAIN q = DOMAIN up /\ q.phase = up.phase /\ q.blocks = up.blocks /\ q.block = up.block
        /\ DOMAIN q.calls = DOMAIN up.calls
    BY <1>1 DEF Adding, KeepsOn
  <2> HIDE DEF q
  <2> QED
    BY <2>1, <2>3, <2>4, <2>5, <2>6, ArgumentsItems
<1>3. CASE AnthropicSeededArguments
  <2>1. up.block # None
    BY <1>3 DEF AnthropicSeededArguments, Block
  <2> DEFINE Q(piece) == [up EXCEPT !.block = [kind |-> "tool_use"],
                           !.calls[Len(up.calls)].args = IF piece = Whole THEN Whole
                                                         ELSE SubSeq(@, 1, Len(@) - 1) \o piece]
  <2>2. PICK piece \in {Whole, Tail(Whole)} :
            Receive([type |-> "input_json_delta", index |-> Index, args |-> piece], Q(piece))
    BY <1>3 DEF AnthropicSeededArguments
  <2>3. PICK event : event = [type |-> "input_json_delta", index |-> Index, args |-> piece]
    OBVIOUS
  <2>4. Receive(event, Q(piece))
    <3> HIDE DEF Q
    <3> QED
      BY <2>2, <2>3
  <2>5. IsList(piece)
    BY TailIsList, SmallLists
  <2>6. PICK q : q = Q(piece)
    OBVIOUS
  <2>7. /\ DOMAIN q = DOMAIN up /\ q.phase = up.phase /\ q.blocks = up.blocks /\ q.block = [kind |-> "tool_use"]
        /\ DOMAIN q.calls = DOMAIN up.calls
    BY <1>1, <2>6 DEF KeepsOn
  <2>8. q.block # None
    BY <2>7, OpenBlockAssumption
  <2>9. Receive(event, q)
    BY <2>4, <2>6
  <2> HIDE DEF Q
  <2> QED
    BY <2>1, <2>3, <2>5, <2>7, <2>8, <2>9, ArgumentsItems
<1> QED
  BY <1>2, <1>3

\* Of a state only the use under x and the blocks are changed, and the use is ended.
UseEnds(s, x, t) ==
    /\ DOMAIN t = DOMAIN s /\ \A g \in DOMAIN s \ {"claudeToolUses", "claudeBlocks"} : t[g] = s[g]
    /\ DOMAIN t.claudeToolUses = DOMAIN s.claudeToolUses
    /\ \A k \in DOMAIN s.claudeToolUses \ {x} : t.claudeToolUses[k] = s.claudeToolUses[k]
    /\ x \in DOMAIN s.claudeToolUses => UseFields \subseteq DOMAIN t.claudeToolUses[x] /\ t.claudeToolUses[x].finalized

LEMMA UseIsFlagged ==
    ASSUME NEW s, "claudeToolUses" \in DOMAIN s, NEW x \in DOMAIN s.claudeToolUses,
           UseFields \subseteq DOMAIN s.claudeToolUses[x],
           NEW use, DOMAIN use = DOMAIN s.claudeToolUses[x], use.finalized,
           NEW t, t = [s EXCEPT !.claudeToolUses[x] = use]
    PROVE  UseEnds(s, x, t)
<1> DEFINE uses == [s.claudeToolUses EXCEPT ![x] = use]
<1>1. t = [s EXCEPT !["claudeToolUses"] = uses]
  OBVIOUS
<1>2. /\ DOMAIN uses = DOMAIN s.claudeToolUses /\ uses[x] = use
      /\ \A k \in DOMAIN s.claudeToolUses \ {x} : uses[k] = s.claudeToolUses[k]
  OBVIOUS
<1> HIDE DEF uses
<1>3. /\ DOMAIN t = DOMAIN s /\ t.claudeToolUses = uses
      /\ \A g \in DOMAIN s \ {"claudeToolUses"} : t[g] = s[g]
  BY <1>1
<1> QED
  BY <1>2, <1>3 DEF UseEnds

LEMMA BlocksAreForgotten ==
    ASSUME NEW s, NEW x, NEW t, "claudeToolUses" \in DOMAIN s, UseEnds(s, x, t), NEW v
    PROVE  UseEnds(s, x, [t EXCEPT !["claudeBlocks"] = v])
<1> DEFINE r == [t EXCEPT !["claudeBlocks"] = v]
<1>1. DOMAIN r = DOMAIN t /\ \A g \in DOMAIN t \ {"claudeBlocks"} : r[g] = t[g]
  OBVIOUS
<1> HIDE DEF r
<1>2. r.claudeToolUses = t.claudeToolUses
  BY <1>1 DEF UseEnds
<1>3. UseEnds(s, x, r)
  BY <1>1, <1>2 DEF UseEnds
<1> QED
  BY <1>3 DEF r

\* How a use is told: as a call, or as a text.
IsOfUse(tool, c) ==
    \/ c = [EmptyChunk EXCEPT !.content = DegradedText]
    \/ \E args : IsList(args) /\
        c = [EmptyChunk EXCEPT !.calls = <<CallDelta(tool.index, tool.id, tool.name, "function", args)>>]

LEMMA UseIsEnded ==
    ASSUME NEW s, "claudeToolUses" \in DOMAIN s, s.roleSent, NEW x \in DOMAIN s.claudeToolUses,
           UseFields \subseteq DOMAIN s.claudeToolUses[x], IsList(s.claudeToolUses[x].args),
           ~ s.claudeToolUses[x].finalized, NEW final, final = FinalizeToolUse(From(s), x)
    PROVE  /\ "state" \in DOMAIN final /\ UseEnds(s, x, final.state)
           /\ \E c : final.chunks = <<c>> /\ IsOfUse(s.claudeToolUses[x], c)
<1> DEFINE tool == s.claudeToolUses[x]
           args == IF tool.zeroArg /\ tool.args = <<>> THEN <<"{", "}">> ELSE tool.args
           called == [EmptyChunk EXCEPT !.calls = <<CallDelta(tool.index, tool.id, tool.name, "function", args)>>]
           cut == [EmptyChunk EXCEPT !.content = DegradedText]
           told == Give(From(s), called)
           noted == Give(From(s), cut)
           whole == [told EXCEPT !.state.claudeToolUses[x].finalized = TRUE,
                                 !.state.claudeToolUses[x].emitted = TRUE]
           broken == [noted EXCEPT !.state.claudeToolUses[x].finalized = TRUE]
<1>1. GiveRole(From(s)) = From(s)
  BY DEF GiveRole, From
<1>2. From(s).state = s
  BY DEF From
<1>3. final = IF IsObject(args) THEN whole ELSE broken
  <2>1. PICK q, given : q = From(s) /\ given = GiveRole(q)
    OBVIOUS
  <2> DEFINE use == q.state.claudeToolUses[x]
             list == IF use.zeroArg /\ use.args = <<>> THEN <<"{", "}">> ELSE use.args
             entire == [Give(given, [EmptyChunk EXCEPT !.calls =
                                <<CallDelta(use.index, use.id, use.name, "function", list)>>])
                        EXCEPT !.state.claudeToolUses[x].finalized = TRUE,
                               !.state.claudeToolUses[x].emitted = TRUE]
             partial == [Give(given, [EmptyChunk EXCEPT !.content = DegradedText])
                         EXCEPT !.state.claudeToolUses[x].finalized = TRUE]
  <2>2. FinalizeToolUse(q, x) =
            IF x \notin DOMAIN q.state.claudeToolUses THEN q
            ELSE IF use.finalized THEN q
            ELSE IF IsObject(list) THEN entire ELSE partial
    <3>1. FinalizeToolUse(q, x) =
            IF x \notin DOMAIN q.state.claudeToolUses THEN q
            ELSE LET g == GiveRole(q) IN
                 IF use.finalized THEN q
                 ELSE IF IsObject(list)
                 THEN [Give(g, [EmptyChunk EXCEPT !.calls =
                                <<CallDelta(use.index, use.id, use.name, "function", list)>>])
                        EXCEPT !.state.claudeToolUses[x].finalized = TRUE,
                               !.state.claudeToolUses[x].emitted = TRUE]
                 ELSE [Give(g, [EmptyChunk EXCEPT !.content = DegradedText])
                         EXCEPT !.state.claudeToolUses[x].finalized = TRUE]
      BY DEF FinalizeToolUse
    <3> QED
      BY <2>1, <3>1
  <2>3. q.state = s /\ given = From(s)
    BY <1>1, <1>2, <2>1
  <2>4. use = tool /\ list = args /\ entire = whole /\ partial = broken
    BY <2>3
  <2> HIDE DEF entire, partial, whole, broken, list, args
  <2>5. use.finalized = tool.finalized /\ x \in DOMAIN q.state.claudeToolUses
    BY <2>3
  <2> HIDE DEF use
  <2> QED
    BY <2>1, <2>2, <2>4, <2>5
<1>4. IsList(args)
  BY SmallLists
<1>5. /\ told.state = s /\ told.chunks = Append(<<>>, called) /\ DOMAIN told = {"state", "chunks"}
      /\ noted.state = s /\ noted.chunks = Append(<<>>, cut) /\ DOMAIN noted = {"state", "chunks"}
  BY DEF Give, From
<1>6. \A c : Append(<<>>, c) = <<c>>
  OBVIOUS
<1>7. IsOfUse(tool, called) /\ IsOfUse(tool, cut)
  <2> HIDE DEF args, tool
  <2> QED
    BY <1>4 DEF IsOfUse
<1> DEFINE first == [tool EXCEPT !.finalized = TRUE]
           both == [first EXCEPT !.emitted = TRUE]
           a == [s EXCEPT !.claudeToolUses[x] = first]
           b == [s EXCEPT !.claudeToolUses[x] = both]
<1>8. /\ DOMAIN first = DOMAIN tool /\ first.finalized = TRUE
      /\ DOMAIN both = DOMAIN tool /\ both.finalized = TRUE
  BY DEF UseFields
<1> HIDE DEF called, cut, args
<1>9. broken.state = a /\ broken.chunks = noted.chunks /\ "state" \in DOMAIN broken
  <2> HIDE DEF noted
  <2> QED
    BY <1>5
<1>10. whole.state = b /\ whole.chunks = told.chunks /\ "state" \in DOMAIN whole
  <2> HIDE DEF told
  <2> QED
    BY <1>5
<1> HIDE DEF whole, broken, told, noted, first, both
<1>11. UseEnds(s, x, a)
  <2> HIDE DEF a
  <2> QED
    BY <1>8, UseIsFlagged DEF a
<1>12. UseEnds(s, x, b)
  BY <1>8, UseIsFlagged
<1> HIDE DEF a, b, tool
<1>13. CASE IsObject(args)
  <2>1. final = whole
    BY <1>3, <1>13
  <2>2. final.chunks = <<called>>
    BY <1>5, <1>6, <1>10, <2>1
  <2> QED
    BY <1>7, <1>10, <1>12, <2>1, <2>2 DEF tool
<1>14. CASE ~ IsObject(args)
  <2>1. final = broken
    BY <1>3, <1>14
  <2>2. final.chunks = <<cut>>
    BY <1>5, <1>6, <1>9, <2>1
  <2> QED
    BY <1>7, <1>9, <1>11, <2>1, <2>2 DEF tool
<1> QED
  BY <1>13, <1>14

\* When the open block's use has ended, all have.
LEMMA UsesHaveEnded ==
    ASSUME NEW s, Ready(s), NoneDone(s), NEW p, UsesKnown(s, p), p.phase # "start", NEW t, UseEnds(s, p.blocks - 1, t),
           NEW q, q.phase # "start", q.calls = p.calls, q.blocks = p.blocks
    PROVE  /\ Ready(t) /\ NoneDone(t) /\ t.fatal = s.fatal /\ t.toolCalls = s.toolCalls /\ UsesKnown(t, q)
           /\ \A k \in DOMAIN t.claudeToolUses : t.claudeToolUses[k].finalized
<1>1. ItemFields \subseteq DOMAIN s
  BY DEF Ready, Holding
<1>2. /\ DOMAIN t = DOMAIN s
      /\ \A g \in ItemFields \ {"usage", "roleSent", "claudeToolUses", "claudeToolUseIndex", "finish"} : t[g] = s[g]
  <2>1. "claudeBlocks" \notin ItemFields
    BY DEF ItemFields
  <2> QED
    BY <1>1, <2>1 DEF UseEnds
<1>3. Ready(t) /\ NoneDone(t) /\ t.fatal = s.fatal /\ t.toolCalls = s.toolCalls
  BY <1>2, SourceKeeps
<1>4. t.roleSent = s.roleSent /\ t.claudeToolUseIndex = s.claudeToolUseIndex
  <2>1. "roleSent" \in DOMAIN s /\ "claudeToolUseIndex" \in DOMAIN s
    BY <1>1 DEF ItemFields
  <2> QED
    BY <2>1 DEF UseEnds
<1>5. ASSUME NEW k \in DOMAIN t.claudeToolUses
      PROVE  k < q.blocks /\ UseFields \subseteq DOMAIN t.claudeToolUses[k] /\ t.claudeToolUses[k].finalized
  <2>1. k \in DOMAIN s.claudeToolUses
    BY DEF UseEnds
  <2>2. k < q.blocks
    BY <2>1 DEF UsesKnown
  <2>3. CASE k = p.blocks - 1
    BY <2>1, <2>2, <2>3 DEF UseEnds
  <2>4. CASE k # p.blocks - 1
    <3>1. t.claudeToolUses[k] = s.claudeToolUses[k]
      BY <2>1, <2>4 DEF UseEnds
    <3>2. UseFields \subseteq DOMAIN s.claudeToolUses[k] /\ s.claudeToolUses[k].finalized
      BY <2>1, <2>4 DEF UsesKnown
    <3> QED
      BY <2>2, <3>1, <3>2
  <2> QED
    BY <2>3, <2>4
<1>6. UsesKnown(t, q)
  <2>1. t.roleSent /\ t.claudeToolUseIndex = Len(q.calls)
    BY <1>4 DEF UsesKnown
  <2>2. \A i \in DOMAIN t.toolCalls : i < Len(q.calls) /\ IdFits(t.toolCalls[i].id, q.calls)
    BY <1>3 DEF UsesKnown
  <2> QED
    BY <1>3, <1>5, <2>1, <2>2 DEF UsesKnown
<1> QED
  BY <1>3, <1>5, <1>6

\* What of a use is told may be told.
LEMMA UseIsOffered ==
    ASSUME NEW s, NEW use, IsUntold(s, use), NEW q, s.claudeToolUseIndex = Len(q.calls), Len(q.calls) \in Nat,
           NEW t, t.toolCalls = s.toolCalls, \A k \in DOMAIN t.claudeToolUses : t.claudeToolUses[k].finalized,
           NEW c, IsOfUse(use, c)
    PROVE  IsOffer(t, q, c)
<1>1. CASE c = [EmptyChunk EXCEPT !.content = DegradedText]
  <2>1. IsList(DegradedText)
    BY SmallLists DEF DegradedText
  <2> QED
    BY <1>1, <2>1, WordsAreOffered
<1>2. CASE \E args : IsList(args) /\
            c = [EmptyChunk EXCEPT !.calls = <<CallDelta(use.index, use.id, use.name, "function", args)>>]
  <2>1. PICK args : IsList(args) /\
            c = [EmptyChunk EXCEPT !.calls = <<CallDelta(use.index, use.id, use.name, "function", args)>>]
    BY <1>2
  <2>2. PICK d : d = CallDelta(use.index, use.id, use.name, "function", args)
    OBVIOUS
  <2>3. d.index = use.index /\ d.id = use.id /\ d.type = "function" /\ d.args = args
    BY <2>2 DEF CallDelta
  <2>4. IsWordy(c) /\ c.calls = <<d>> /\ c.finish = None
    <3>1. c = [EmptyChunk EXCEPT !.calls = <<d>>]
      BY <2>1, <2>2
    <3> QED
      BY <3>1, NothingIsList, WordyChunks
  <2>5. MayBeTold(t, d)
    <3>1. use.id # None
      BY NoneAssumption DEF IsUntold
    <3> QED
      BY <2>1, <2>3, <3>1 DEF MayBeTold, IsUntold
  <2>6. d.index < Len(q.calls) /\ IdFits(d.id, q.calls)
    BY <2>3 DEF IsUntold, IdFits
  <2>7. \A b : <<b>> = <<d>> => b = d
    OBVIOUS
  <2> QED
    BY <2>4, <2>5, <2>6, <2>7 DEF IsOffer
<1> QED
  BY <1>1, <1>2 DEF IsOfUse

LEMMA AnthropicBlockStopItems ==
    ASSUME EndsInv, EndsInv', ItemsInv, IsTold, pair = <<"anthropic", "responses">>, AnthropicBlockStop
    PROVE  ItemsInv'
<1> DEFINE event == [type |-> "block_stop", index |-> Index]
           q == [up EXCEPT !.block = None]
           s == state
           x == up.blocks - 1
           final == FinalizeToolUse(From(s), x)
           v == Without(final.state.claudeBlocks, x)
           t == [final.state EXCEPT !["claudeBlocks"] = v]
           given == [final EXCEPT !.state.claudeBlocks = Without(@, x)]
<1>1. Receive(event, q) /\ up.block # None
  BY DEF AnthropicBlockStop
<1>2. ~ state.fatal /\ up.phase = "open" /\ KeepsOn(up)
  BY <1>1 DEF Receive, EndsInv, KeepsOn
<1>3. /\ Ready(s) /\ NoneDone(s) /\ UsesKnown(s, up) /\ up.blocks \in Nat
      /\ Len(up.calls) \in Nat /\ "claudeToolUses" \in DOMAIN s
  BY <1>2, AnthropicNow
<1>4. s.roleSent /\ s.claudeToolUseIndex = Len(up.calls)
  BY <1>2, <1>3 DEF UsesKnown
<1>5. /\ DOMAIN q = DOMAIN up /\ q.phase = "open" /\ q.calls = up.calls /\ q.blocks = up.blocks
  BY <1>2 DEF KeepsOn
<1>6. AnthropicSource(s, event) = given
  <2>1. event.type = "block_stop" /\ event.index = x
    BY DEF Index
  <2>2. BlockStopped(s, event) = given
    BY <2>1 DEF BlockStopped
  <2> HIDE DEF given, event
  <2> QED
    BY <1>2, <2>1, <2>2 DEF AnthropicSource
<1>7. event.type \notin {"done", "error"}
  OBVIOUS
<1>8. "state" \in DOMAIN final => given.state = t /\ given.chunks = final.chunks
  <2> HIDE DEF final
  <2> QED
    OBVIOUS
<1> HIDE DEF event, q, given
<1>9. CASE x \in DOMAIN s.claudeToolUses /\ ~ s.claudeToolUses[x].finalized
  <2>1. IsUntold(s, s.claudeToolUses[x]) /\ UseFields \subseteq DOMAIN s.claudeToolUses[x]
    BY <1>3, <1>9 DEF UsesKnown
  <2>2. IsList(s.claudeToolUses[x].args)
    BY <2>1 DEF IsUntold
  <2> HIDE DEF final, s, x
  <2>3. /\ "state" \in DOMAIN final /\ UseEnds(s, x, final.state)
        /\ \E c : final.chunks = <<c>> /\ IsOfUse(s.claudeToolUses[x], c)
    BY <1>3, <1>4, <1>9, <2>1, <2>2, UseIsEnded DEF final
  <2> HIDE DEF v
  <2>4. UseEnds(s, x, t)
    BY <1>3, <2>3, BlocksAreForgotten
  <2> HIDE DEF t
  <2>5. PICK c : final.chunks = <<c>> /\ IsOfUse(s.claudeToolUses[x], c)
    BY <2>3
  <2>6. /\ Ready(t) /\ NoneDone(t) /\ t.fatal = s.fatal /\ t.toolCalls = s.toolCalls /\ UsesKnown(t, q)
        /\ \A k \in DOMAIN t.claudeToolUses : t.claudeToolUses[k].finalized
    <3>1. UseEnds(s, up.blocks - 1, t) /\ up.phase # "start" /\ q.phase # "start"
      BY <1>2, <1>5, <2>4 DEF x
    <3> QED
      BY <1>3, <1>5, <3>1, UsesHaveEnded
  <2>7. IsOffer(t, q, c)
    BY <1>3, <1>4, <1>5, <2>1, <2>5, <2>6, UseIsOffered
  <2>8. Brings(q, given)
    BY <1>2, <1>8, <2>3, <2>5, <2>6, <2>7 DEF Brings, s
  <2> QED
    BY <1>1, <1>2, <1>5, <1>6, <1>7, <2>8, AnthropicItems DEF s
<1>10. CASE x \in DOMAIN s.claudeToolUses => s.claudeToolUses[x].finalized
  <2>1. final = From(s)
    BY <1>10 DEF FinalizeToolUse, From
  <2>2. final.state = s /\ final.chunks = <<>> /\ "state" \in DOMAIN final
    BY <2>1 DEF From
  <2>3. UseEnds(s, x, s)
    BY <1>3, <1>10 DEF UseEnds, UsesKnown
  <2> HIDE DEF final, s, v
  <2>4. UseEnds(s, x, t)
    BY <1>3, <2>2, <2>3, BlocksAreForgotten
  <2> HIDE DEF t
  <2>5. Ready(t) /\ t.fatal = s.fatal /\ UsesKnown(t, q)
    <3>1. UseEnds(s, up.blocks - 1, t) /\ up.phase # "start" /\ q.phase # "start"
      BY <1>2, <1>5, <2>4 DEF x
    <3> QED
      BY <1>3, <1>5, <3>1, UsesHaveEnded
  <2>6. Brings(q, given)
    BY <1>2, <1>8, <2>2, <2>5 DEF Brings, s
  <2> QED
    BY <1>1, <1>2, <1>5, <1>6, <1>7, <2>6, AnthropicItems DEF s
<1> QED
  BY <1>9, <1>10

\* When each use has ended, the end of the message ends none.
LEMMA NoUsesEnd ==
    ASSUME NEW s, NoneDone(s), Bounded(DOMAIN s.claudeToolUses),
           \A k \in DOMAIN s.claudeToolUses : s.claudeToolUses[k].finalized
    PROVE  OverKeys(FinalizeToolUse, From(s), s.claudeToolUses) = From(s)
<1> DEFINE how == <<"tool use">>
           r == From(s)
           keys == DOMAIN s.claudeToolUses
           at == [i \in keys |-> i]
           E(iter) == iter = [S \in SUBSET keys |->
                                IF S = {} THEN r ELSE FinalizeToolUse(iter[S \ {Max(S)}], Max(S))]
           final == CHOOSE iter : E(iter)
           Good == {S \in SUBSET keys : final[S] = r}
<1>0. PICK n \in Nat : keys \in SUBSET (0..n)
  BY DEF Bounded
<1>1. \A iter : E(iter) <=> Iterates(iter, how, r, keys, at)
  <2>1. ASSUME NEW S \in SUBSET keys, S # {} PROVE at[Max(S)] = Max(S)
    BY <1>0, <2>1, Greatest
  <2>2. ASSUME NEW t, NEW x PROVE Step(how, t, x) = FinalizeToolUse(t, x)
    BY DEF Step
  <2> HIDE DEF keys, at, how, r
  <2>3. ASSUME NEW iter, NEW S \in SUBSET keys
        PROVE  (IF S = {} THEN r ELSE FinalizeToolUse(iter[S \ {Max(S)}], Max(S)))
                = (IF S = {} THEN r ELSE Step(how, iter[S \ {Max(S)}], at[Max(S)]))
    BY <2>1, <2>2
  <2>4. ASSUME NEW iter
        PROVE  [S \in SUBSET keys |-> IF S = {} THEN r ELSE FinalizeToolUse(iter[S \ {Max(S)}], Max(S))]
                = [S \in SUBSET keys |-> IF S = {} THEN r ELSE Step(how, iter[S \ {Max(S)}], at[Max(S)])]
    BY <2>3
  <2> QED
    BY <2>4 DEF Iterates
<1>2. \E iter : E(iter)
  <2> HIDE DEF r
  <2> QED
    BY <1>0, <1>1, IteratesExist
<1>3. E(final)
  BY <1>2, Zenon
<1>4. OverKeys(FinalizeToolUse, r, s.claudeToolUses) = final[keys]
  BY DEF OverKeys, MapThenFoldSet
<1>5. ASSUME NEW x \in keys PROVE Step(how, r, at[x]) = r
  <2>1. Step(how, r, x) = FinalizeToolUse(r, x)
    BY DEF Step
  <2>2. r.state = s
    BY DEF From
  <2> HIDE DEF r, how
  <2>3. FinalizeToolUse(r, x) = r
    BY <2>2 DEF FinalizeToolUse
  <2> QED
    BY <2>1, <2>3
<1> HIDE DEF E, how, r, final, at
<1>6. Iterates(final, how, r, keys, at)
  BY <1>1, <1>3
<1>7. /\ final[{}] = r
      /\ \A S \in SUBSET keys : \A x \in keys :
            (\A i \in S : i < x) => final[S \cup {x}] = Step(how, final[S], at[x])
  <2>1. Bounded(keys)
    OBVIOUS
  <2> HIDE DEF keys
  <2> QED
    BY <1>6, <2>1, IterationSteps
<1>8. {} \in Good
  BY <1>7
<1>9. ASSUME NEW S \in SUBSET keys, NEW x \in keys, S \in Good, \A i \in S : i < x
      PROVE  S \cup {x} \in Good
  BY <1>5, <1>7, <1>9
<1>10. keys \in Good
  <2>1. Bounded(keys)
    OBVIOUS
  <2> HIDE DEF Good, keys
  <2> QED
    BY <1>8, <1>9, <2>1, InOrder
<1> QED
  BY <1>4, <1>10 DEF r

LEMMA AnthropicStopItems ==
    ASSUME EndsInv, ItemsInv, IsTold, pair = <<"anthropic", "responses">>, AnthropicStop
    PROVE  ItemsInv'
<1> DEFINE event == [type |-> "message_stop"]
           q == [up EXCEPT !.phase = "ended"]
           s == state
           given == AnthropicSource(s, event)
<1>1. Receive(event, q) /\ up.phase = "finished" /\ KeepsOn(up)
  BY DEF AnthropicStop, EndsInv
<1>2. DOMAIN q = DOMAIN up /\ q.phase = "ended"
  BY <1>1 DEF KeepsOn
<1>3. event.type = "message_stop"
  OBVIOUS
<1> HIDE DEF event, q
<1>4. up'.phase = "ended" /\ up'.last = event /\ ~ s.fatal
  BY <1>1, <1>2, Becoming
<1>5. Ready(s) /\ NoneDone(s) /\ UsesKnown(s, up) /\ Bounded(DOMAIN s.claudeToolUses)
  BY <1>1, <1>4, AnthropicNow
<1>6. \A k \in DOMAIN s.claudeToolUses : s.claudeToolUses[k].finalized
  <2>1. up.block = None
    BY <1>1 DEF KeepsOn
  <2> QED
    BY <1>5, <2>1 DEF UsesKnown
<1>7. state' = FoldLeft(ToClient, given.state, given.chunks)
  <2>1. state' = Translate(s, event)
    BY <1>4 DEF IsTold
  <2> QED
    BY <1>3, <1>4, <2>1, AnthropicIsTold
<1>8. given = MessageStopped(s)
  BY <1>3, <1>4 DEF AnthropicSource
<1>9. CASE s.finishSent
  <2>1. given.state = s /\ given.chunks = <<>>
    BY <1>8, <1>9 DEF MessageStopped, From
  <2> HIDE DEF given
  <2>2. state' = s
    BY <1>7, <2>1, NoChunks
  <2>3. Turns(state')
    BY <2>2 DEF ItemsInv
  <2> QED
    BY <1>4, <2>3, ItemsAreOver
<1>10. CASE ~ s.finishSent
  <2> DEFINE final == OverKeys(FinalizeToolUse, From(s), s.claudeToolUses)
             uses == final.state.claudeToolUses
             hasCalls == \E i \in DOMAIN uses : uses[i].emitted
             finish == IF s.finish = None THEN IF hasCalls THEN "tool_calls" ELSE "stop"
                       ELSE IF s.finish = "tool_calls" /\ ~ hasCalls THEN "stop" ELSE s.finish
             usage == s.usage
             c == [EmptyChunk EXCEPT !.finish = finish, !.usage = usage]
             t == [s EXCEPT !["finishSent"] = TRUE]
  <2>1. final = From(s)
    BY <1>5, <1>6, NoUsesEnd
  <2>2. given = [Give(final, c) EXCEPT !.state.finishSent = TRUE]
    BY <1>8, <1>10 DEF MessageStopped
  <2> HIDE DEF given, finish, usage, final
  <2>3. IsWordy(c) /\ c.calls = <<>>
    <3>1. c.calls = <<>> /\ c.reasoning = <<>> /\ c.content = <<>> /\ c.refusal = <<>> /\ DOMAIN c = DOMAIN EmptyChunk
      BY DEF EmptyChunk
    <3>2. {"reasoning", "content", "refusal", "calls", "finish", "usage"} \subseteq DOMAIN EmptyChunk
      BY DEF EmptyChunk
    <3> HIDE DEF c
    <3> QED
      BY <3>1, <3>2, NothingIsList DEF IsWordy
  <2> HIDE DEF c
  <2>4. given.state = t /\ given.chunks = <<c>>
    <3>1. final.state = s /\ final.chunks = <<>> /\ DOMAIN final = {"state", "chunks"}
      BY <2>1 DEF From
    <3>2. Append(<<>>, c) = <<c>>
      OBVIOUS
    <3> QED
      BY <2>2, <3>1, <3>2 DEF Give
  <2>5. Ready(t) /\ NoneDone(t)
    <3>1. ItemFields \subseteq DOMAIN s /\ "finishSent" \notin ItemFields
      BY <1>5 DEF Ready, Holding, ItemFields
    <3>2. DOMAIN t = DOMAIN s /\ \A g \in ItemFields : t[g] = s[g]
      BY <3>1
    <3> HIDE DEF t, s
    <3> QED
      BY <1>5, <3>2, SourceKeeps
  <2> HIDE DEF t
  <2>6. state' = ResponsesSink(t, c, cumulative)
    <3>1. state' = ToClient(t, c)
      BY <1>7, <2>4, OneChunk
    <3> QED
      BY <3>1, ResponsesIsTold
  <2>7. ItemsComeTo(t, c.calls, c.finish, state')
    <3>1. \A d : c.calls # <<d>>
      BY <2>3
    <3>2. ItemsComeTo(t, c.calls, c.finish, ResponsesSink(t, c, cumulative))
      BY <2>3, <2>5, <3>1, ChunkIsItemized DEF Ready
    <3> QED
      BY <2>6, <3>2
  <2>8. Turns(state')
    BY <2>7, ItemsTurn
  <2> QED
    BY <1>4, <2>8, ItemsAreOver
<1> QED
  BY <1>9, <1>10

LEMMA AnthropicErrorItems ==
    ASSUME EndsInv, ItemsInv, IsTold, pair = <<"anthropic", "responses">>, AnthropicError
    PROVE  ItemsInv'
<1> DEFINE event == [type |-> "error"]
           q == [up EXCEPT !.phase = "ended", !.block = None, !.reason = "error"]
           s == state
           e == [type |-> "failed", output |-> <<>>]
<1>1. Receive(event, q) /\ up.phase \in {"start", "open"} /\ KeepsOn(up)
  BY DEF AnthropicError, EndsInv
<1>2. DOMAIN q = DOMAIN up /\ q.phase = "ended"
  BY <1>1 DEF KeepsOn
<1> HIDE DEF q
<1>3. up'.phase = "ended" /\ up'.last = event /\ ~ s.fatal
  BY <1>1, <1>2, Becoming
<1>4. state' = FailResponses(s)
  <2>1. state' = Translate(s, event)
    BY <1>3 DEF IsTold
  <2> QED
    BY <1>3, <2>1 DEF Translate, ErrorToClient
<1>5. Ready(s)
  BY <1>1, <1>3, AnthropicNow
<1>6. IsBeside(e) /\ e.type \notin {"completed", "incomplete"}
  BY DEF IsBeside
<1>7. state'.out = Append(s.out, e) /\ state'.terminalSent
  <2>1. {"out", "fatal", "terminalSent"} \subseteq DOMAIN s
    BY <1>5 DEF Ready, Holding, ItemFields
  <2> HIDE DEF e
  <2> QED
    BY <1>4, <2>1 DEF FailResponses, Send, e
<1> HIDE DEF e
<1>8. Account(Append(s.out, e), s.nextOutput)
  BY <1>5, <1>6, BesideFollows DEF Ready, Holding
<1>9. WellItemized(state'.out)
  BY <1>7, <1>8 DEF Account, WellItemized, Listed
<1>10. Turns(state')
  BY <1>7, <1>9 DEF Turns
<1> QED
  BY <1>3, <1>10, ItemsAreOver

-----------------------------------------------------------------------------
(* Each state *)

LEMMA ItemsStart ==
    ASSUME Init
    PROVE  ItemsInv
<1> DEFINE s == InitialState
           l == <<>>
<1>1. /\ s.terminalSent = FALSE /\ s.out = l /\ s.claudeToolUseIndex = 0
      /\ s.toolCalls = NoCalls /\ s.claudeToolUses = NoBlocks
  BY DEF InitialState
<1>2. state = s /\ up.phase = "start" /\ up.calls = l /\ up.text = l /\ up.thought = l
  BY DEF Init
<1>3. Holding(s, FALSE) /\ SeenFits(s) /\ NoneDone(s)
  BY ItemsAtStart
<1>4. IsList(l) /\ Len(l) = 0
  BY NothingIsList
<1>5. DOMAIN s.toolCalls = {} /\ DOMAIN s.claudeToolUses = {}
  BY <1>1 DEF NoCalls, NoBlocks
<1> HIDE DEF s, l
<1>6. Turns(state)
  BY <1>2, <1>3, HoldingIsWell DEF Turns
<1>7. ChatKnows(state, up.calls)
  BY <1>2, <1>3, <1>5 DEF ChatKnows
<1>8. ChatSays(up)
  BY <1>2, <1>4, StreamBoundsAssumption DEF ChatSays
<1>9. UsesKnown(state, up)
  BY <1>1, <1>2, <1>3, <1>4, <1>5 DEF UsesKnown
<1> QED
  BY <1>6, <1>7, <1>8, <1>9 DEF ItemsInv

LEMMA ItemsStep ==
    ASSUME EndsInv, ItemsInv, Next
    PROVE  ItemsInv'
<1>1. Upstream /\ IsTold
  BY DEF Next, IsTold
<1>2. EndsInv'
  BY UpstreamKeeps
<1>3. CASE pair[2] # "responses"
  <2>1. pair' = pair
    BY <1>1 DEF IsTold
  <2> QED
    BY <1>3, <2>1 DEF ItemsInv
<1>4. CASE pair = <<"chat", "responses">>
  <2>1. CASE ChatText \/ ChatRefusal
    BY <1>1, <1>2, <1>4, <2>1, ChatTextItems
  <2>2. CASE ChatCall
    BY <1>1, <1>2, <1>4, <2>2, ChatCallItems
  <2>3. CASE ChatArguments \/ ChatRenumbered
    BY <1>1, <1>2, <1>4, <2>3, ChatCallsItems
  <2>4. CASE ChatFinish
    BY <1>1, <1>4, <2>4, ChatFinishItems
  <2>5. CASE ChatUsage
    BY <1>1, <1>4, <2>5, ChatUsageItems
  <2>6. CASE ChatDone
    BY <1>1, <1>4, <2>6, ChatDoneItems
  <2>7. CASE ChatSecondChoice
    BY <1>1, <1>4, <2>7, ChatChoiceItems
  <2>8. ~ \/ AnthropicStart \/ AnthropicBlock \/ AnthropicCall \/ AnthropicText \/ AnthropicThinking
          \/ AnthropicArguments \/ AnthropicSeededArguments \/ AnthropicBlockStop \/ AnthropicDelta
          \/ AnthropicStop \/ AnthropicError
    BY <1>4 DEF AnthropicStart, AnthropicBlock, AnthropicCall, AnthropicText, AnthropicThinking,
                AnthropicArguments, AnthropicSeededArguments, AnthropicBlockStop, AnthropicDelta,
                AnthropicStop, AnthropicError
  <2>9. ~ \/ ResponsesCreated \/ ResponsesText \/ ResponsesRefusal \/ ResponsesRefusalDone \/ ResponsesReasoning
          \/ ResponsesCall \/ ResponsesArguments \/ ResponsesInputDone \/ ResponsesTerminal \/ ResponsesAudio
    BY <1>4 DEF ResponsesCreated, ResponsesText, ResponsesRefusal, ResponsesRefusalDone, ResponsesReasoning,
                ResponsesCall, ResponsesArguments, ResponsesInputDone, ResponsesTerminal, ResponsesAudio
  <2> QED
    BY <1>1, <2>1, <2>2, <2>3, <2>4, <2>5, <2>6, <2>7, <2>8, <2>9 DEF Upstream
<1>5. CASE pair = <<"anthropic", "responses">>
  <2>1. CASE AnthropicStart
    BY <1>1, <1>2, <1>5, <2>1, AnthropicStartItems
  <2>2. CASE AnthropicBlock
    BY <1>1, <1>2, <1>5, <2>2, AnthropicBlockItems
  <2>3. CASE AnthropicCall
    BY <1>1, <1>2, <1>5, <2>3, AnthropicCallItems
  <2>4. CASE AnthropicText \/ AnthropicThinking
    BY <1>1, <1>2, <1>5, <2>4, AnthropicWordsItems
  <2>5. CASE AnthropicArguments \/ AnthropicSeededArguments
    BY <1>1, <1>2, <1>5, <2>5, AnthropicArgumentsItems
  <2>6. CASE AnthropicBlockStop
    BY <1>1, <1>2, <1>5, <2>6, AnthropicBlockStopItems
  <2>7. CASE AnthropicDelta
    BY <1>1, <1>2, <1>5, <2>7, AnthropicDeltaItems
  <2>8. CASE AnthropicStop
    BY <1>1, <1>5, <2>8, AnthropicStopItems
  <2>9. CASE AnthropicError
    BY <1>1, <1>5, <2>9, AnthropicErrorItems
  <2>10. ~ \/ ChatText \/ ChatRefusal \/ ChatCall \/ ChatArguments \/ ChatRenumbered \/ ChatFinish \/ ChatUsage
           \/ ChatDone \/ ChatSecondChoice
    BY <1>5 DEF ChatText, ChatRefusal, ChatCall, ChatArguments, ChatRenumbered, ChatFinish, ChatUsage,
                ChatDone, ChatSecondChoice
  <2>11. ~ \/ ResponsesCreated \/ ResponsesText \/ ResponsesRefusal \/ ResponsesRefusalDone \/ ResponsesReasoning
           \/ ResponsesCall \/ ResponsesArguments \/ ResponsesInputDone \/ ResponsesTerminal \/ ResponsesAudio
    BY <1>5 DEF ResponsesCreated, ResponsesText, ResponsesRefusal, ResponsesRefusalDone, ResponsesReasoning,
                ResponsesCall, ResponsesArguments, ResponsesInputDone, ResponsesTerminal, ResponsesAudio
  <2> QED
    BY <1>1, <2>1, <2>2, <2>3, <2>4, <2>5, <2>6, <2>7, <2>8, <2>9, <2>10, <2>11 DEF Upstream
<1>6. pair[2] # "responses" \/ pair = <<"chat", "responses">> \/ pair = <<"anthropic", "responses">>
  BY PairsAssumption DEF EndsInv, Formats
<1> QED
  BY <1>3, <1>4, <1>5, <1>6

\* An output item of a Responses stream is added once under an index of its own and done once,
\* its deltas lie between and add up to what it is done with, and the response that is completed
\* or incomplete lists exactly the items that were added, each as it was done and in the order
\* of their indices: also when calls are held back, renumbered or cut
\* (openai_chunk_to_responses_sse, emit_openai_responses_terminal).
THEOREM ItemsPairedInOrder == Spec => [](pair[2] = "responses" => ItemsArePaired /\ OutputIsWhatIsDone)
<1> DEFINE Good == pair[2] = "responses" => ItemsArePaired /\ OutputIsWhatIsDone
           Inv == EndsInv /\ ItemsInv
<1>1. Init => Inv
  BY StreamsStart, ItemsStart
<1>2. Inv /\ [Next]_vars => Inv'
  <2>1. ASSUME ItemsInv, UNCHANGED vars PROVE ItemsInv'
    BY <2>1 DEF vars, ItemsInv
  <2> QED
    BY <2>1, EndsStay, ItemsStep, UpstreamKeeps
<1>3. Inv => Good
  BY ItemsAreEnough DEF ItemsInv, Turns
<1> HIDE DEF Good, Inv
<1> QED
  BY <1>1, <1>2, <1>3, PTL DEF Spec, Good

\* What a client is told part by part is well-formed and adds up to what it is told at the end:
\* the blocks of an Anthropic client, the items of a Responses client, whichever upstream is
\* translated and however its events alternate (translate_sse_event).
THEOREM PartsPaired == Spec => []PartsArePaired
<1> DEFINE Blocks == pair[2] = "anthropic" => BlocksArePaired
           Items == pair[2] = "responses" => ItemsArePaired /\ OutputIsWhatIsDone
<1>1. Blocks /\ Items => PartsArePaired
  BY DEF PartsArePaired
<1>2. Spec => []Blocks
  BY BlocksPaired
<1>3. Spec => []Items
  BY ItemsPairedInOrder
<1> HIDE DEF Blocks, Items
<1> QED
  BY <1>1, <1>2, <1>3, PTL
=============================================================================
