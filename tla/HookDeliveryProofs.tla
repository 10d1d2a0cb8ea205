------------------------- MODULE HookDeliveryProofs -------------------------
(***************************************************************************)
(* TLAPS proofs about HookDelivery, for any number of requests, any payload*)
(* sizes, budget, threshold and cooldown.                                  *)
(***************************************************************************)
EXTENDS HookDelivery, FiniteSetTheorems, TLAPS

ConstantAssumptions ==
    /\ IsFiniteSet(Requests)
    /\ Sizes \subseteq Nat \ {0}
    /\ MaxPendingBytes \in Nat
    /\ FailureThreshold \in Nat \ {0}
    /\ Cooldown \in Nat \ {0}
    /\ MaxClock \in Nat

\* The assumptions on the constants, gathered under one name.
LEMMA Constants == ConstantAssumptions
  BY RequestsFinite, SizesAssumption, MaxPendingAssumption, ThresholdAssumption,
     CooldownAssumption, ClockAssumption
     DEF ConstantAssumptions

\* A payload size is a natural number.
LEMMA SizeIsNat ==
    ASSUME TypeOK, NEW d \in Deliveries
    PROVE  size[d] \in Nat
<1>1. size[d] \in Sizes \cup {0}
  BY DEF TypeOK
<1>2. Sizes \subseteq Nat \ {0}
  BY Constants DEF ConstantAssumptions
<1>3. CASE size[d] \in Sizes
  BY <1>2, <1>3
<1>4. CASE size[d] = 0
  BY <1>4
<1> QED
  BY <1>1, <1>3, <1>4

-----------------------------------------------------------------------------
\* Every variable keeps its type, through every handler and task step.
THEOREM TypeCorrect == Spec => []TypeOK
<1>1. Init => TypeOK
  BY Constants DEF ConstantAssumptions, Init, TypeOK, Phases, Stages, Outcomes,
     Closed, Kinds, Deliveries
<1>2. TypeOK /\ [Next]_vars => TypeOK'
  <2> SUFFICES ASSUME TypeOK, [Next]_vars PROVE TypeOK'
    OBVIOUS
  <2> USE Constants DEF ConstantAssumptions, TypeOK, Phases, Stages, Outcomes, Closed
  <2>1. CASE Tick
    BY <2>1 DEF Tick, breakerVars, requestVars, deliveryVars
  <2>2. ASSUME NEW r \in Requests, WrapStream(r) PROVE TypeOK'
    <3>1. "exchange" \in Kinds
      BY DEF Kinds
    <3>2. captured' \in [Requests -> BOOLEAN]
      <4> DEFINE allowed == CanAttempt("exchange") /\ pendingBytes < MaxPendingBytes
      <4>1. allowed \in BOOLEAN
        BY DEF CanAttempt
      <4>2. captured' = [captured EXCEPT ![r] = allowed] \/ captured' = captured
        BY <2>2 DEF WrapStream
      <4> HIDE DEF allowed
      <4> QED
        BY <4>1, <4>2
    <3>3. /\ failures' \in [Kinds -> Nat]
          /\ openUntil' \in [Kinds -> Nat]
      BY <2>2, <3>1 DEF WrapStream, CloseIfElapsed, breakerVars
    <3> QED
      BY <2>2, <3>2, <3>3 DEF WrapStream, deliveryVars
  <2>3. ASSUME NEW r \in Requests, EmitExchange(r) PROVE TypeOK'
    <3>1. <<"exchange", r>> \in Deliveries
      BY DEF Deliveries, Kinds
    <3> QED
      BY <2>3, <3>1 DEF EmitExchange, CloseIfElapsed, breakerVars
  <2>4. ASSUME NEW r \in Requests, EmitUsage(r) PROVE TypeOK'
    <3>1. <<"usage", r>> \in Deliveries
      BY DEF Deliveries, Kinds
    <3>2. /\ failures' \in [Kinds -> Nat]
          /\ openUntil' \in [Kinds -> Nat]
      <4>1. "usage" \in Kinds
        BY DEF Kinds
      <4> QED
        BY <2>4, <4>1 DEF EmitUsage, CloseIfElapsed, breakerVars
    <3>3. /\ stage' \in [Deliveries -> Stages]
          /\ size' \in [Deliveries -> Sizes \cup {0}]
      BY <2>4, <3>1 DEF EmitUsage
    <3> QED
      BY <2>4, <3>2, <3>3 DEF EmitUsage
  <2>5. ASSUME NEW d \in Deliveries, BuildExchange(d) PROVE TypeOK'
    BY <2>5 DEF BuildExchange, breakerVars, requestVars
  <2>6. ASSUME NEW d \in Deliveries, LoadPending(d) PROVE TypeOK'
    BY <2>6 DEF LoadPending, breakerVars, requestVars
  <2>7. ASSUME NEW d \in Deliveries, SwapPending(d) PROVE TypeOK'
    <3>1. seen[d] \in Nat /\ size[d] \in Nat
      BY SizeIsNat
    <3> QED
      BY <2>7, <3>1 DEF SwapPending, breakerVars, requestVars
  <2>8. ASSUME NEW d \in Deliveries, NEW result \in Outcomes, Answer(d, result)
        PROVE  TypeOK'
    <3>1. d[1] \in Kinds
      BY DEF Deliveries
    <3> QED
      BY <2>8, <3>1 DEF Answer, RecordAnswer, RecordSuccess, RecordFailure,
         breakerVars, requestVars
  <2>9. ASSUME NEW d \in Deliveries, Release(d) PROVE TypeOK'
    <3>1. size[d] \in Nat
      BY SizeIsNat
    <3> QED
      BY <2>9, <3>1 DEF Release, breakerVars, requestVars
  <2>10. CASE UNCHANGED vars
    BY <2>10 DEF vars, breakerVars, requestVars, deliveryVars
  <2> QED
    BY <2>1, <2>2, <2>3, <2>4, <2>5, <2>6, <2>7, <2>8, <2>9, <2>10
       DEF Next, RequestStep, DeliveryStep
<1> QED
  BY <1>1, <1>2, PTL DEF Spec

-----------------------------------------------------------------------------
(* The byte budget *)

\* A delivery of a request exists only once its hook was emitted.
EmissionInv ==
    \A r \in Requests :
        /\ phase[r] \in {"idle", "streaming"} => stage[<<"exchange", r>>] = "none"
        /\ phase[r] # "done" => stage[<<"usage", r>>] = "none"

\* A task carries its payload's size from the reserve loop to the release, and one
\* that passed the load fits next to what it saw.
ReserveInv ==
    \A d \in Deliveries :
        /\ stage[d] \in {"reserving", "swapping", "sending", "answered"} => size[d] > 0
        /\ stage[d] = "swapping" => seen[d] + size[d] <= MaxPendingBytes
        /\ HoldsReservation(d) => size[d] <= MaxPendingBytes

BudgetInv == TypeOK /\ EmissionInv /\ ReserveInv /\ BudgetExact

\* There are finitely many deliveries.
LEMMA DeliveriesFinite == IsFiniteSet(Deliveries)
<1>1. IsFiniteSet(Requests)
  BY Constants DEF ConstantAssumptions
<1>2. Kinds = {"exchange"} \cup {"usage"}
  BY DEF Kinds
<1>3. IsFiniteSet({"exchange"}) /\ IsFiniteSet({"usage"})
  BY FS_Singleton
<1>4. IsFiniteSet(Kinds)
  BY <1>2, <1>3, FS_Union
<1>5. IsFiniteSet(Deliveries)
  BY <1>1, <1>4, FS_Product DEF Deliveries
<1> QED
  BY <1>5

-----------------------------------------------------------------------------
(* The budget's arithmetic *)

\* The instance has its own copy of the definition of a cardinality.
LEMMA TotalIsCardinality ==
    ASSUME NEW h PROVE Budget!Total(h) = Cardinality(Budget!HeldBytes(h))
<1>1. \A S : Budget!Cardinality(S) = Cardinality(S)
  BY DEF Budget!Cardinality, Cardinality
<1> QED
  BY <1>1 DEF Budget!Total

\* The bytes held are a finite set, so their total is a natural number.
LEMMA HeldBytesFinite ==
    ASSUME NEW h \in Budget!Holdings
    PROVE  IsFiniteSet(Budget!HeldBytes(h)) /\ Budget!Total(h) \in Nat
<1>1. IsFiniteSet(Deliveries \X (1..MaxPendingBytes))
  <2>1. IsFiniteSet(1..MaxPendingBytes)
    BY Constants, FS_Interval DEF ConstantAssumptions
  <2> QED
    BY <2>1, DeliveriesFinite, FS_Product
<1>2. Budget!HeldBytes(h) \in SUBSET (Deliveries \X (1..MaxPendingBytes))
  BY DEF Budget!HeldBytes
<1>3. IsFiniteSet(Budget!HeldBytes(h))
  BY <1>1, <1>2, FS_Subset
<1> QED
  BY <1>3, FS_CardinalityType, TotalIsCardinality

\* Nobody holds anything: the total is zero.
LEMMA TotalOfNothing ==
    Budget!Total([o \in Deliveries |-> 0]) = 0
<1>1. Budget!HeldBytes([o \in Deliveries |-> 0]) = {}
  BY DEF Budget!HeldBytes
<1> QED
  BY <1>1, FS_EmptySet, TotalIsCardinality

\* Granting n bytes to an owner that holds none adds n to the total.
LEMMA TotalAfterGrant ==
    ASSUME NEW h \in Budget!Holdings,
           NEW o \in Deliveries, NEW n \in 0..MaxPendingBytes, h[o] = 0
    PROVE  Budget!Total([h EXCEPT ![o] = n]) = Budget!Total(h) + n
<1> MaxPendingBytes \in Nat
  BY Constants DEF ConstantAssumptions
<1> DEFINE g == [h EXCEPT ![o] = n]
           granted == {o} \X (1..n)
<1>1. g \in Budget!Holdings
  BY DEF Budget!Holdings
<1>2. IsFiniteSet(granted) /\ Cardinality(granted) = n
  <2>1. IsFiniteSet({o}) /\ Cardinality({o}) = 1
    BY FS_Singleton
  <2>2. IsFiniteSet(1..n) /\ Cardinality(1..n) = n
    <3>1. 1 \in Int /\ n \in Int
      OBVIOUS
    <3>2. /\ IsFiniteSet(1..n)
          /\ Cardinality(1..n) = IF 1 > n THEN 0 ELSE n - 1 + 1
      BY <3>1, FS_Interval
    <3> QED
      BY <3>2
  <2>3. /\ IsFiniteSet({o} \X (1..n))
        /\ Cardinality({o} \X (1..n)) = Cardinality({o}) * Cardinality(1..n)
    BY <2>1, <2>2, FS_Product
  <2> QED
    BY <2>1, <2>2, <2>3
<1>3. Budget!HeldBytes(g) = Budget!HeldBytes(h) \cup granted
  BY DEF Budget!HeldBytes, Budget!Holdings
<1>4. Budget!HeldBytes(h) \cap granted = {}
  BY DEF Budget!HeldBytes, Budget!Holdings
<1>5. IsFiniteSet(Budget!HeldBytes(h)) /\ Budget!Total(h) \in Nat
  BY HeldBytesFinite
<1>6. Cardinality(Budget!HeldBytes(h) \cup granted)
        = Cardinality(Budget!HeldBytes(h)) + Cardinality(granted) - Cardinality(Budget!HeldBytes(h) \cap granted)
  BY <1>2, <1>5, FS_Union
<1>7. Cardinality(Budget!HeldBytes(h) \cap granted) = 0
  BY <1>4, FS_EmptySet
<1>8. Cardinality(Budget!HeldBytes(h)) \in Nat
  BY <1>5, TotalIsCardinality
<1>9. Cardinality(Budget!HeldBytes(h) \cup granted) = Cardinality(Budget!HeldBytes(h)) + n
  <2> HIDE DEF granted
  <2> QED
    BY <1>2, <1>6, <1>7, <1>8
<1> QED
  BY <1>3, <1>9, TotalIsCardinality

\* An owner that gives everything back takes its holding off the total.
LEMMA TotalAfterGiveBack ==
    ASSUME NEW h \in Budget!Holdings, NEW o \in Deliveries
    PROVE  Budget!Total([h EXCEPT ![o] = 0]) = Budget!Total(h) - h[o]
<1> MaxPendingBytes \in Nat
  BY Constants DEF ConstantAssumptions
<1> DEFINE g == [h EXCEPT ![o] = 0]
<1>1. g \in Budget!Holdings /\ g[o] = 0 /\ h[o] \in 0..MaxPendingBytes
  BY DEF Budget!Holdings
<1>2. [g EXCEPT ![o] = h[o]] = h
  BY DEF Budget!Holdings
<1>3. Budget!Total(h) = Budget!Total(g) + h[o]
  BY <1>1, <1>2, TotalAfterGrant
<1>4. Budget!Total(g) \in Nat
  BY <1>1, HeldBytesFinite
<1> QED
  BY <1>1, <1>3, <1>4
-----------------------------------------------------------------------------
(* The steps of the budget *)

\* Moving one delivery that was already emitted disturbs no emission.
LEMMA EmissionFrame ==
    ASSUME EmissionInv, phase' = phase, NEW d \in Deliveries, stage[d] # "none",
           \A e \in Deliveries \ {d} : stage'[e] = stage[e]
    PROVE  EmissionInv'
<1>1. ASSUME NEW r \in Requests, NEW k \in Kinds, stage[<<k, r>>] = "none"
      PROVE  stage'[<<k, r>>] = "none"
  BY <1>1 DEF Deliveries
<1> QED
  BY <1>1 DEF EmissionInv, Kinds

\* What each delivery holds is between nothing and the whole budget.
LEMMA HeldIsHolding ==
    ASSUME TypeOK, ReserveInv
    PROVE  Held \in Budget!Holdings
<1>1. \A d \in Deliveries : size[d] \in Nat
  BY SizeIsNat
<1>2. MaxPendingBytes \in Nat
  BY Constants DEF ConstantAssumptions
<1> QED
  BY <1>1, <1>2 DEF Held, ReserveInv, Budget!Holdings

\* A step that neither takes nor releases a reservation leaves the budget alone.
LEMMA BudgetFrame ==
    ASSUME BudgetExact, pendingBytes' = pendingBytes, Held' = Held
    PROVE  BudgetExact' /\ [Budget!Next]_Held
  BY DEF BudgetExact, Budget!Total, Budget!HeldBytes

\* Every step keeps the accounting exact and is a step of the abstract budget.
LEMMA BudgetStep ==
    ASSUME BudgetInv, TypeOK', [Next]_vars
    PROVE  BudgetInv' /\ [Budget!Next]_Held
<1> USE DEF BudgetInv
<1>1. ASSUME NEW r \in Requests, WrapStream(r)
      PROVE  BudgetInv' /\ [Budget!Next]_Held
  <2>1. stage' = stage /\ size' = size /\ seen' = seen /\ pendingBytes' = pendingBytes
    BY <1>1 DEF WrapStream, deliveryVars
  <2>2. EmissionInv'
    BY <1>1, <2>1 DEF WrapStream, EmissionInv, TypeOK
  <2>3. ReserveInv'
    BY <2>1 DEF ReserveInv, HoldsReservation
  <2>4. Held' = Held
    BY <2>1 DEF Held, HoldsReservation
  <2> QED
    BY <2>1, <2>2, <2>3, <2>4, BudgetFrame
<1>2. ASSUME NEW r \in Requests, EmitExchange(r)
      PROVE  BudgetInv' /\ [Budget!Next]_Held
  <2> DEFINE d == <<"exchange", r>>
  <2>1. d \in Deliveries /\ stage[d] = "none" /\ pendingBytes' = pendingBytes
    BY <1>2 DEF EmitExchange, EmissionInv, Deliveries, Kinds
  <2>2. /\ size' = size /\ seen' = seen
        /\ \E s \in {"building", "skipped"} : stage' = [stage EXCEPT ![d] = s]
    BY <1>2 DEF EmitExchange
  <2>3. EmissionInv'
    <3>1. \A q \in Requests \ {r} : <<"exchange", q>> # d /\ phase'[q] = phase[q]
      BY <1>2 DEF EmitExchange, TypeOK
    <3>2. phase'[r] = "finalizing"
      BY <1>2 DEF EmitExchange, TypeOK
    <3>3. phase[r] # "done"
      BY <1>2 DEF EmitExchange
    <3>4. \A q \in Requests : <<"usage", q>> # d
      OBVIOUS
    <3>5. \A k \in Kinds, q \in Requests :
              <<k, q>> # d => stage'[<<k, q>>] = stage[<<k, q>>]
      BY <2>2 DEF TypeOK, Deliveries
    <3> QED
      BY <3>1, <3>2, <3>3, <3>4, <3>5 DEF EmissionInv, Kinds
  <2>4. ReserveInv'
    BY <2>1, <2>2 DEF ReserveInv, HoldsReservation, TypeOK
  <2>5. Held' = Held
    BY <2>1, <2>2 DEF Held, HoldsReservation, TypeOK
  <2> QED
    BY <2>1, <2>3, <2>4, <2>5, BudgetFrame
<1>3. ASSUME NEW r \in Requests, EmitUsage(r)
      PROVE  BudgetInv' /\ [Budget!Next]_Held
  <2> DEFINE d == <<"usage", r>>
  <2>1. d \in Deliveries /\ stage[d] = "none" /\ pendingBytes' = pendingBytes
    BY <1>3 DEF EmitUsage, EmissionInv, Deliveries, Kinds
  <2>2. /\ seen' = seen
        /\ \/ /\ stage' = [stage EXCEPT ![d] = "reserving"]
              /\ \E n \in Sizes : size' = [size EXCEPT ![d] = n]
           \/ stage' = [stage EXCEPT ![d] = "skipped"] /\ size' = size
    BY <1>3 DEF EmitUsage
  <2>3. EmissionInv'
    BY <1>3, <2>2 DEF EmitUsage, EmissionInv, TypeOK, Deliveries, Kinds
  <2>4. \A n \in Sizes : n > 0
    BY Constants DEF ConstantAssumptions
  <2>5. ReserveInv'
    BY <2>1, <2>2, <2>4 DEF ReserveInv, HoldsReservation, TypeOK
  <2>6. Held' = Held
    BY <2>1, <2>2 DEF Held, HoldsReservation, TypeOK
  <2> QED
    BY <2>1, <2>3, <2>5, <2>6, BudgetFrame
<1>4. ASSUME NEW d \in Deliveries, BuildExchange(d)
      PROVE  BudgetInv' /\ [Budget!Next]_Held
  <2>1. stage[d] = "building" /\ pendingBytes' = pendingBytes
    BY <1>4 DEF BuildExchange
  <2>2. /\ seen' = seen /\ phase' = phase
        /\ \/ /\ stage' = [stage EXCEPT ![d] = "reserving"]
              /\ \E n \in Sizes : size' = [size EXCEPT ![d] = n]
           \/ stage' = [stage EXCEPT ![d] = "dropped"] /\ size' = size
    BY <1>4 DEF BuildExchange, requestVars
  <2>3. EmissionInv'
    BY <2>1, <2>2, EmissionFrame DEF TypeOK
  <2>4. \A n \in Sizes : n > 0
    BY Constants DEF ConstantAssumptions
  <2>5. ReserveInv'
    BY <2>1, <2>2, <2>4 DEF ReserveInv, HoldsReservation, TypeOK
  <2>6. Held' = Held
    BY <2>1, <2>2 DEF Held, HoldsReservation, TypeOK
  <2> QED
    BY <2>1, <2>3, <2>5, <2>6, BudgetFrame
<1>5. ASSUME NEW d \in Deliveries, LoadPending(d)
      PROVE  BudgetInv' /\ [Budget!Next]_Held
  <2>1. /\ stage[d] = "reserving" /\ size[d] \in Nat
        /\ pendingBytes' = pendingBytes /\ phase' = phase
        /\ MaxPendingBytes \in Nat
    BY <1>5, SizeIsNat, Constants DEF LoadPending, requestVars, ConstantAssumptions
  <2>2. EmissionInv'
    BY <1>5, <2>1, EmissionFrame DEF LoadPending, TypeOK
  <2>3. ReserveInv'
    BY <1>5, <2>1 DEF LoadPending, ReserveInv, HoldsReservation, TypeOK
  <2>4. Held' = Held
    BY <1>5, <2>1 DEF LoadPending, Held, HoldsReservation, TypeOK
  <2> QED
    BY <2>1, <2>2, <2>3, <2>4, BudgetFrame
<1>6. ASSUME NEW d \in Deliveries, SwapPending(d)
      PROVE  BudgetInv' /\ [Budget!Next]_Held
  <2>1. /\ stage[d] = "swapping" /\ size[d] \in Nat /\ seen[d] \in Nat
        /\ phase' = phase /\ size' = size
        /\ MaxPendingBytes \in Nat
    BY <1>6, SizeIsNat, Constants DEF SwapPending, requestVars, TypeOK, ConstantAssumptions
  <2>2. EmissionInv'
    BY <1>6, <2>1, EmissionFrame DEF SwapPending, TypeOK
  <2>3. ReserveInv'
    BY <1>6, <2>1 DEF SwapPending, ReserveInv, HoldsReservation, TypeOK
  <2>4. CASE pendingBytes # seen[d]
    <3>1. pendingBytes' = pendingBytes /\ Held' = Held
      BY <1>6, <2>1, <2>4 DEF SwapPending, Held, HoldsReservation, TypeOK
    <3> QED
      BY <2>2, <2>3, <3>1, BudgetFrame
  <2>5. CASE pendingBytes = seen[d]
    <3>1. /\ pendingBytes' = pendingBytes + size[d]
          /\ size[d] > 0 /\ pendingBytes + size[d] <= MaxPendingBytes
      BY <1>6, <2>1, <2>5 DEF SwapPending, ReserveInv
    <3>2. Held[d] = 0 /\ Held' = [Held EXCEPT ![d] = size[d]]
      BY <1>6, <2>1, <2>5 DEF SwapPending, Held, HoldsReservation, TypeOK
    <3>3. Budget!Total(Held)' = Budget!Total(Held) + size[d]
      <4>1. Held \in Budget!Holdings /\ size[d] \in 0..MaxPendingBytes
        BY <2>1, <3>1, HeldIsHolding DEF TypeOK
      <4>2. Budget!Total([Held EXCEPT ![d] = size[d]]) = Budget!Total(Held) + size[d]
        BY <2>1, <3>2, <4>1, DeliveriesFinite, TotalAfterGrant
      <4> QED
        BY <3>2, <4>2 DEF Budget!Total, Budget!HeldBytes
    <3>4. BudgetExact'
      BY <3>1, <3>3 DEF BudgetExact
    <3>5. Budget!Grant(d, size[d])
      BY <3>1, <3>2 DEF BudgetExact, Budget!Grant
    <3>6. Budget!Next
      BY <2>1, <3>1, <3>5 DEF Budget!Next, TypeOK
    <3> QED
      BY <2>2, <2>3, <3>4, <3>6
  <2> QED
    BY <2>4, <2>5
<1>7. ASSUME NEW d \in Deliveries, NEW result \in Outcomes, Answer(d, result)
      PROVE  BudgetInv' /\ [Budget!Next]_Held
  <2>1. /\ stage[d] = "sending" /\ pendingBytes' = pendingBytes /\ phase' = phase
        /\ stage' = [stage EXCEPT ![d] = "answered"] /\ size' = size /\ seen' = seen
    BY <1>7 DEF Answer, requestVars
  <2>2. EmissionInv'
    BY <2>1, EmissionFrame DEF TypeOK
  <2>3. ReserveInv'
    BY <2>1 DEF ReserveInv, HoldsReservation, TypeOK
  <2>4. Held' = Held
    BY <2>1 DEF Held, HoldsReservation, TypeOK
  <2> QED
    BY <2>1, <2>2, <2>3, <2>4, BudgetFrame
<1>8. ASSUME NEW d \in Deliveries, Release(d)
      PROVE  BudgetInv' /\ [Budget!Next]_Held
  <2>1. /\ stage[d] = "answered" /\ size[d] \in Nat /\ size[d] > 0 /\ phase' = phase
        /\ stage' = [stage EXCEPT ![d] = "finished"] /\ seen' = seen
        /\ size' = [size EXCEPT ![d] = 0]
    BY <1>8, SizeIsNat DEF Release, requestVars, ReserveInv
  <2>2. EmissionInv'
    BY <2>1, EmissionFrame DEF TypeOK
  <2>3. ReserveInv'
    BY <2>1 DEF ReserveInv, HoldsReservation, TypeOK
  <2>4. Held[d] = size[d] /\ Held' = [Held EXCEPT ![d] = 0]
    BY <2>1 DEF Held, HoldsReservation, TypeOK
  <2>5. /\ Budget!Total(Held)' = Budget!Total(Held) - size[d]
        /\ Budget!Total(Held)' \in Nat
    <3>1. Held \in Budget!Holdings /\ MaxPendingBytes \in Nat
      BY HeldIsHolding, Constants DEF ConstantAssumptions
    <3>2. Budget!Total([Held EXCEPT ![d] = 0]) = Budget!Total(Held) - Held[d]
      BY <3>1, DeliveriesFinite, TotalAfterGiveBack
    <3>3. [Held EXCEPT ![d] = 0] \in Budget!Holdings
      BY <3>1 DEF Budget!Holdings
    <3>4. Budget!Total([Held EXCEPT ![d] = 0]) \in Nat
      BY <3>1, <3>3, DeliveriesFinite, HeldBytesFinite
    <3> QED
      BY <2>4, <3>2, <3>4 DEF Budget!Total, Budget!HeldBytes
  <2>6. pendingBytes' = pendingBytes - size[d]
    BY <1>8, <2>1, <2>5 DEF Release, BudgetExact, TypeOK
  <2>7. BudgetExact'
    BY <2>1, <2>5, <2>6, Constants DEF BudgetExact, TypeOK, ConstantAssumptions
  <2>8. Budget!Next
    BY <2>1, <2>4 DEF Budget!Next, Budget!GiveBack
  <2> QED
    BY <2>2, <2>3, <2>7, <2>8
<1>9. CASE Tick \/ UNCHANGED vars
  <2>1. /\ stage' = stage /\ size' = size /\ seen' = seen /\ phase' = phase
        /\ pendingBytes' = pendingBytes
    BY <1>9 DEF Tick, vars, requestVars, deliveryVars
  <2>2. EmissionInv' /\ ReserveInv' /\ Held' = Held
    BY <2>1 DEF EmissionInv, ReserveInv, Held, HoldsReservation
  <2> QED
    BY <2>1, <2>2, BudgetFrame
<1> QED
  BY <1>1, <1>2, <1>3, <1>4, <1>5, <1>6, <1>7, <1>8, <1>9
     DEF Next, RequestStep, DeliveryStep

\* Nothing is reserved when the dispatcher is created.
LEMMA BudgetInit ==
    ASSUME Init, TypeOK
    PROVE  BudgetInv /\ Budget!Init
<1>1. Held = [d \in Deliveries |-> 0]
  BY DEF Init, Held, HoldsReservation
<1>2. Budget!Total(Held) = 0
  BY <1>1, TotalOfNothing
<1>3. BudgetExact
  BY <1>2, Constants DEF BudgetExact, Init, ConstantAssumptions
<1>4. EmissionInv /\ ReserveInv
  BY DEF Init, EmissionInv, ReserveInv, HoldsReservation, Deliveries, Kinds
<1> QED
  BY <1>1, <1>3, <1>4 DEF BudgetInv, Budget!Init

\* The strengthened accounting invariant holds in every reachable state.
LEMMA BudgetInvariant == Spec => []BudgetInv
<1>1. Init /\ TypeOK => BudgetInv
  BY BudgetInit
<1>2. BudgetInv /\ TypeOK' /\ [Next]_vars => BudgetInv'
  BY BudgetStep
<1> QED
  BY <1>1, <1>2, TypeCorrect, PTL DEF Spec

\* The counter is exactly the bytes in flight and never above max_pending_bytes.
THEOREM BudgetIsExact == Spec => []BudgetExact
<1>1. BudgetInv => BudgetExact
  BY DEF BudgetInv
<1> QED
  BY <1>1, BudgetInvariant, PTL

\* The reserve loops and releases implement a budget with indivisible grants.
THEOREM ReserveLoopImplementsBudget == Spec => ImplementsBudget
<1>1. Init /\ TypeOK => BudgetInv /\ Budget!Init
  BY BudgetInit
<1>2. BudgetInv /\ TypeOK' /\ [Next]_vars => BudgetInv' /\ [Budget!Next]_Held
  BY BudgetStep
<1> QED
  BY <1>1, <1>2, TypeCorrect, PTL DEF Spec, ImplementsBudget, Budget!Spec

-----------------------------------------------------------------------------
(* The circuit breaker *)

\* What a breaker counts are failed deliveries of its own kind, and it trips only
\* when they reach the threshold.
FailureInv ==
    \A k \in Kinds :
        /\ failures[k] <= Cardinality(Failed(k))
        /\ openUntil[k] # Closed => Cardinality(Failed(k)) >= FailureThreshold

\* A delivery has an outcome only after its answer.
OutcomeInv ==
    \A d \in Deliveries :
        stage[d] \notin {"answered", "finished"} => outcome[d] = "none"

BreakerInv == TypeOK /\ EmissionInv /\ BreakerBounded /\ FailureInv /\ OutcomeInv

\* Only finitely many deliveries of a kind have failed.
LEMMA FailedFinite == \A k \in Kinds : IsFiniteSet(Failed(k)) /\ Cardinality(Failed(k)) \in Nat
<1> SUFFICES ASSUME NEW k \in Kinds
             PROVE  IsFiniteSet(Failed(k)) /\ Cardinality(Failed(k)) \in Nat
  OBVIOUS
<1>1. IsFiniteSet(Requests) /\ Failed(k) \in SUBSET Requests
  BY Constants DEF ConstantAssumptions, Failed
<1>2. IsFiniteSet(Failed(k))
  BY <1>1, FS_Subset
<1> QED
  BY <1>2, FS_CardinalityType

\* A step that records no answer may at most close a breaker.
LEMMA BreakerFrame ==
    ASSUME BreakerInv, TypeOK', outcome' = outcome, now' >= now,
           \A k \in Kinds : \/ failures'[k] = failures[k] /\ openUntil'[k] = openUntil[k]
                            \/ failures'[k] = 0 /\ openUntil'[k] = Closed
    PROVE  BreakerBounded' /\ FailureInv'
<1>1. \A k \in Kinds : Failed(k)' = Failed(k)
  BY DEF Failed
<1>2. /\ now \in Nat /\ now' \in Nat /\ Cooldown \in Nat \ {0}
      /\ FailureThreshold \in Nat \ {0}
  BY Constants DEF ConstantAssumptions, TypeOK, BreakerInv
<1>3. ASSUME NEW k \in Kinds
      PROVE  /\ (failures[k] < FailureThreshold)'
             /\ (openUntil[k] <= now + Cooldown)'
             /\ (failures[k] <= Cardinality(Failed(k)))'
             /\ (openUntil[k] # Closed => Cardinality(Failed(k)) >= FailureThreshold)'
  <2>1. Cardinality(Failed(k)) \in Nat /\ failures[k] \in Nat /\ openUntil[k] \in Nat
    BY FailedFinite DEF BreakerInv, TypeOK
  <2>2. CASE failures'[k] = failures[k] /\ openUntil'[k] = openUntil[k]
    BY <1>1, <1>2, <2>1, <2>2 DEF BreakerInv, BreakerBounded, FailureInv
  <2>3. CASE failures'[k] = 0 /\ openUntil'[k] = Closed
    BY <1>1, <1>2, <2>1, <2>3 DEF Closed
  <2> QED
    BY <2>2, <2>3
<1> QED
  BY <1>3 DEF BreakerBounded, FailureInv

\* can_attempt closes a breaker or leaves it alone.
LEMMA CloseIfElapsedEffect ==
    ASSUME TypeOK, NEW c \in Kinds, CloseIfElapsed(c)
    PROVE  \A k \in Kinds : \/ failures'[k] = failures[k] /\ openUntil'[k] = openUntil[k]
                            \/ failures'[k] = 0 /\ openUntil'[k] = Closed
  BY DEF CloseIfElapsed, TypeOK, breakerVars

\* Answers are the only steps that count failures, each one its own.
LEMMA AnswerKeepsBreaker ==
    ASSUME BreakerInv, TypeOK', NEW d \in Deliveries, NEW result \in Outcomes,
           Answer(d, result)
    PROVE  BreakerBounded' /\ FailureInv'
<1> DEFINE c == d[1]
           q == d[2]
<1>1. c \in Kinds /\ q \in Requests /\ d = <<c, q>>
  BY DEF Deliveries
<1>2. /\ now \in Nat /\ now' = now /\ Cooldown \in Nat \ {0}
      /\ FailureThreshold \in Nat \ {0}
  BY Constants DEF ConstantAssumptions, TypeOK, BreakerInv, Answer
<1>3. /\ outcome[d] = "none" /\ outcome' = [outcome EXCEPT ![d] = result]
      /\ outcome \in [Deliveries -> Outcomes \cup {"none"}]
  BY DEF Answer, BreakerInv, OutcomeInv, TypeOK
<1>4. \A k \in Kinds \ {c} : Failed(k)' = Failed(k)
  BY <1>1, <1>3 DEF Failed, Deliveries
<1>5. Failed(c)' = IF result = "failure" THEN Failed(c) \cup {q} ELSE Failed(c)
  BY <1>1, <1>3 DEF Failed, Deliveries
<1>6. q \notin Failed(c)
  BY <1>1, <1>3 DEF Failed
<1>7. Cardinality(Failed(c))'
        = IF result = "failure" THEN Cardinality(Failed(c)) + 1 ELSE Cardinality(Failed(c))
  <2>1. IsFiniteSet(Failed(c))
    BY <1>1, FailedFinite
  <2>2. Cardinality(Failed(c) \cup {q}) = Cardinality(Failed(c)) + 1
    BY <1>6, <2>1, FS_AddElement
  <2> QED
    BY <1>5, <2>2
<1>8. \A k \in Kinds : /\ failures[k] \in Nat /\ openUntil[k] \in Nat
                       /\ Cardinality(Failed(k)) \in Nat
  BY FailedFinite DEF BreakerInv, TypeOK
<1>9. ASSUME NEW k \in Kinds
      PROVE  /\ (failures[k] < FailureThreshold)'
             /\ (openUntil[k] <= now + Cooldown)'
             /\ (failures[k] <= Cardinality(Failed(k)))'
             /\ (openUntil[k] # Closed => Cardinality(Failed(k)) >= FailureThreshold)'
  <2>0. /\ failures[k] < FailureThreshold /\ openUntil[k] <= now + Cooldown
        /\ failures[k] <= Cardinality(Failed(k))
        /\ openUntil[k] # Closed => Cardinality(Failed(k)) >= FailureThreshold
    BY DEF BreakerInv, BreakerBounded, FailureInv
  <2>1. CASE k # c
    <3>1. failures'[k] = failures[k] /\ openUntil'[k] = openUntil[k]
      BY <1>1, <2>1 DEF Answer, RecordAnswer, RecordSuccess, RecordFailure, breakerVars,
         BreakerInv, TypeOK
    <3> QED
      BY <1>2, <1>4, <2>0, <2>1, <3>1
  <2>2. CASE k = c /\ result = "success"
    <3>1. failures'[k] = 0 /\ openUntil'[k] = 0
      BY <1>1, <2>2 DEF Answer, RecordAnswer, RecordSuccess, BreakerInv, TypeOK, Closed
    <3> QED
      BY <1>2, <1>7, <1>8, <2>2, <3>1 DEF Closed
  <2>3. CASE k = c /\ result = "client_error"
    <3>1. failures'[k] = failures[k] /\ openUntil'[k] = openUntil[k]
      BY <1>1, <2>3 DEF Answer, RecordAnswer, breakerVars
    <3> QED
      BY <1>2, <1>7, <1>8, <2>0, <2>3, <3>1
  <2>4. CASE k = c /\ result = "failure" /\ failures[k] + 1 >= FailureThreshold
    <3>1. failures'[k] = 0 /\ openUntil'[k] = now + Cooldown
      BY <1>1, <2>4 DEF Answer, RecordAnswer, RecordFailure, BreakerInv, TypeOK
    <3> QED
      BY <1>2, <1>7, <1>8, <2>0, <2>4, <3>1
  <2>5. CASE k = c /\ result = "failure" /\ ~ (failures[k] + 1 >= FailureThreshold)
    <3>1. failures'[k] = failures[k] + 1 /\ openUntil'[k] = openUntil[k]
      BY <1>1, <2>5 DEF Answer, RecordAnswer, RecordFailure, BreakerInv, TypeOK
    <3> QED
      BY <1>2, <1>7, <1>8, <2>0, <2>5, <3>1
  <2> QED
    BY <2>1, <2>2, <2>3, <2>4, <2>5 DEF Outcomes
<1> QED
  BY <1>9 DEF BreakerBounded, FailureInv

\* Every step keeps the breakers bounded and their counts backed by failures.
LEMMA BreakerStep ==
    ASSUME BreakerInv, TypeOK', EmissionInv', [Next]_vars
    PROVE  BreakerInv'
<1> SUFFICES BreakerBounded' /\ FailureInv' /\ OutcomeInv'
  BY DEF BreakerInv
<1>0. now \in Nat /\ now <= now /\ now <= now + 1
  BY DEF BreakerInv, TypeOK
<1>1. ASSUME NEW r \in Requests, WrapStream(r)
      PROVE  BreakerBounded' /\ FailureInv' /\ OutcomeInv'
  <2>1. outcome' = outcome /\ stage' = stage /\ now' = now
    BY <1>1 DEF WrapStream, deliveryVars
  <2>2. \A k \in Kinds : \/ failures'[k] = failures[k] /\ openUntil'[k] = openUntil[k]
                         \/ failures'[k] = 0 /\ openUntil'[k] = Closed
    BY <1>1, CloseIfElapsedEffect DEF WrapStream, breakerVars, BreakerInv, Kinds
  <2> QED
    BY <1>0, <2>1, <2>2, BreakerFrame DEF OutcomeInv, BreakerInv
<1>2. ASSUME NEW r \in Requests, EmitExchange(r)
      PROVE  BreakerBounded' /\ FailureInv' /\ OutcomeInv'
  <2>1. /\ outcome' = outcome /\ now' = now
        /\ \E s \in Stages : stage' = [stage EXCEPT ![<<"exchange", r>>] = s]
    BY <1>2 DEF EmitExchange, Stages
  <2>2. \A k \in Kinds : \/ failures'[k] = failures[k] /\ openUntil'[k] = openUntil[k]
                         \/ failures'[k] = 0 /\ openUntil'[k] = Closed
    BY <1>2, CloseIfElapsedEffect DEF EmitExchange, breakerVars, BreakerInv, Kinds
  <2>3. <<"exchange", r>> \in Deliveries /\ stage[<<"exchange", r>>] = "none"
    BY <1>2 DEF EmitExchange, EmissionInv, BreakerInv, Deliveries, Kinds
  <2>4. OutcomeInv'
    BY <2>1, <2>3 DEF OutcomeInv, BreakerInv, TypeOK
  <2> QED
    BY <1>0, <2>1, <2>2, <2>4, BreakerFrame
<1>3. ASSUME NEW r \in Requests, EmitUsage(r)
      PROVE  BreakerBounded' /\ FailureInv' /\ OutcomeInv'
  <2>1. /\ outcome' = outcome /\ now' = now
        /\ \E s \in Stages : stage' = [stage EXCEPT ![<<"usage", r>>] = s]
    BY <1>3 DEF EmitUsage, Stages
  <2>2. \A k \in Kinds : \/ failures'[k] = failures[k] /\ openUntil'[k] = openUntil[k]
                         \/ failures'[k] = 0 /\ openUntil'[k] = Closed
    BY <1>3, CloseIfElapsedEffect DEF EmitUsage, breakerVars, BreakerInv, Kinds
  <2>3. <<"usage", r>> \in Deliveries /\ stage[<<"usage", r>>] = "none"
    BY <1>3 DEF EmitUsage, EmissionInv, BreakerInv, Deliveries, Kinds
  <2>4. OutcomeInv'
    BY <2>1, <2>3 DEF OutcomeInv, BreakerInv, TypeOK
  <2> QED
    BY <1>0, <2>1, <2>2, <2>4, BreakerFrame
<1>4. ASSUME NEW d \in Deliveries,
             BuildExchange(d) \/ LoadPending(d) \/ SwapPending(d) \/ Release(d)
      PROVE  BreakerBounded' /\ FailureInv' /\ OutcomeInv'
  <2>1. /\ outcome' = outcome /\ now' = now
        /\ failures' = failures /\ openUntil' = openUntil
    BY <1>4 DEF BuildExchange, LoadPending, SwapPending, Release, breakerVars
  <2>2. stage[d] = "answered" \/ stage[d] \notin {"answered", "finished"}
    BY <1>4 DEF BuildExchange, LoadPending, SwapPending, Release
  <2>3. \/ stage[d] # "answered"
        \/ stage' = [stage EXCEPT ![d] = "finished"]
    BY <1>4 DEF BuildExchange, LoadPending, SwapPending, Release
  <2>4. \E s \in Stages : stage' = [stage EXCEPT ![d] = s]
    BY <1>4 DEF BuildExchange, LoadPending, SwapPending, Release, Stages
  <2>5. OutcomeInv'
    BY <2>1, <2>2, <2>3, <2>4 DEF OutcomeInv, BreakerInv, TypeOK
  <2> QED
    BY <1>0, <2>1, <2>5, BreakerFrame
<1>5. ASSUME NEW d \in Deliveries, NEW result \in Outcomes, Answer(d, result)
      PROVE  BreakerBounded' /\ FailureInv' /\ OutcomeInv'
  <2>1. OutcomeInv'
    BY <1>5 DEF Answer, OutcomeInv, BreakerInv, TypeOK
  <2> QED
    BY <1>5, <2>1, AnswerKeepsBreaker
<1>6. CASE Tick \/ UNCHANGED vars
  <2>1. /\ outcome' = outcome /\ stage' = stage /\ now' \in {now, now + 1}
        /\ failures' = failures /\ openUntil' = openUntil
    BY <1>6 DEF Tick, vars, breakerVars, deliveryVars
  <2> QED
    BY <1>0, <2>1, BreakerFrame DEF OutcomeInv, BreakerInv
<1> QED
  BY <1>1, <1>2, <1>3, <1>4, <1>5, <1>6 DEF Next, RequestStep, DeliveryStep

\* The strengthened breaker invariant holds in every reachable state.
LEMMA BreakerInvariant == Spec => []BreakerInv
<1>1. Init /\ TypeOK /\ BudgetInv => BreakerInv
  <2> SUFFICES ASSUME Init, TypeOK, BudgetInv PROVE BreakerInv
    OBVIOUS
  <2>1. \A k \in Kinds : Cardinality(Failed(k)) \in Nat
    BY FailedFinite
  <2>2. BreakerBounded /\ FailureInv /\ OutcomeInv
    BY <2>1, Constants DEF Init, BreakerBounded, FailureInv, OutcomeInv, Closed,
       ConstantAssumptions
  <2> QED
    BY <2>2 DEF BreakerInv, BudgetInv
<1>2. BreakerInv /\ TypeOK' /\ BudgetInv' /\ [Next]_vars => BreakerInv'
  BY BreakerStep DEF BudgetInv
<1> QED
  BY <1>1, <1>2, TypeCorrect, BudgetInvariant, PTL DEF Spec

\* No breaker counts up to its threshold, and no deadline is further than one
\* cooldown away.
THEOREM BreakerIsBounded == Spec => []BreakerBounded
<1>1. BreakerInv => BreakerBounded
  BY DEF BreakerInv
<1> QED
  BY <1>1, BreakerInvariant, PTL

\* A breaker that is open was opened by failures of its own endpoint.
THEOREM EndpointsAreIsolated == Spec => []OpenNeedsOwnFailures
<1>1. BreakerInv => OpenNeedsOwnFailures
  BY DEF BreakerInv, FailureInv, OpenNeedsOwnFailures, IsOpen
<1> QED
  BY <1>1, BreakerInvariant, PTL

\* What OpenBreakerHolds asks of a step.
OpenHolds ==
    \A k \in Kinds :
        IsOpen(k) =>
            \/ openUntil'[k] >= openUntil[k]
            \/ \E r \in Requests : /\ stage[<<k, r>>] = "sending"
                                   /\ outcome'[<<k, r>>] = "success"

\* An attempt closes no breaker that is open, a failure moves its deadline forward
\* because that is never further away than one cooldown, and a success is answered
\* to a POST that is under way.
LEMMA StepHoldsOpen == BreakerInv /\ Next => OpenHolds
<1> SUFFICES ASSUME BreakerInv, Next, NEW k \in Kinds, IsOpen(k)
             PROVE  \/ openUntil'[k] >= openUntil[k]
                    \/ \E r \in Requests : /\ stage[<<k, r>>] = "sending"
                                           /\ outcome'[<<k, r>>] = "success"
  BY DEF OpenHolds
<1>1. /\ now \in Nat /\ openUntil[k] \in Nat /\ openUntil[k] <= now + Cooldown
      /\ openUntil \in [Kinds -> Nat] /\ Cooldown \in Nat
  BY Constants DEF ConstantAssumptions, BreakerInv, TypeOK, BreakerBounded
<1>2. ASSUME NEW c \in Kinds, CloseIfElapsed(c) PROVE openUntil'[k] = openUntil[k]
  BY <1>1, <1>2 DEF CloseIfElapsed, IsOpen, breakerVars
<1>3. ASSUME NEW r \in Requests, RequestStep(r) PROVE openUntil'[k] = openUntil[k]
  <2>1. (\E c \in Kinds : CloseIfElapsed(c)) \/ UNCHANGED breakerVars
    BY <1>3 DEF RequestStep, WrapStream, EmitExchange, EmitUsage, Kinds, breakerVars
  <2> QED
    BY <1>2, <2>1 DEF breakerVars
<1>4. ASSUME NEW d \in Deliveries, NEW result \in Outcomes, Answer(d, result)
      PROVE  \/ openUntil'[k] >= openUntil[k]
             \/ \E r \in Requests : /\ stage[<<k, r>>] = "sending"
                                    /\ outcome'[<<k, r>>] = "success"
  <2>1. d[1] \in Kinds /\ d[2] \in Requests /\ d = <<d[1], d[2]>>
    BY DEF Deliveries
  <2>2. CASE result = "success" /\ d[1] = k
    <3>1. stage[d] = "sending" /\ outcome'[d] = "success"
      BY <1>4, <2>2 DEF Answer, BreakerInv, TypeOK
    <3> QED
      BY <2>1, <2>2, <3>1
  <2>3. CASE result = "success" /\ d[1] # k
    BY <1>1, <1>4, <2>1, <2>3 DEF Answer, RecordAnswer, RecordSuccess
  <2>4. CASE result = "failure"
    <3>1. openUntil' \in {openUntil, [openUntil EXCEPT ![d[1]] = now + Cooldown]}
      BY <1>4, <2>4 DEF Answer, RecordAnswer, RecordFailure
    <3>2. openUntil'[k] \in {openUntil[k], now + Cooldown}
      BY <1>1, <2>1, <3>1
    <3> QED
      BY <1>1, <3>2
  <2>5. CASE result = "client_error"
    BY <1>1, <1>4, <2>5 DEF Answer, RecordAnswer, breakerVars
  <2> QED
    BY <2>2, <2>3, <2>4, <2>5 DEF Outcomes
<1>5. ASSUME NEW d \in Deliveries,
             BuildExchange(d) \/ LoadPending(d) \/ SwapPending(d) \/ Release(d)
      PROVE  openUntil'[k] = openUntil[k]
  BY <1>5 DEF BuildExchange, LoadPending, SwapPending, Release, breakerVars
<1>6. CASE Tick
  BY <1>1, <1>6 DEF Tick, breakerVars
<1> QED
  BY <1>1, <1>3, <1>4, <1>5, <1>6 DEF Next, DeliveryStep

\* An open breaker stays open until its deadline, unless the endpoint answers.
THEOREM OpenBreakersHold == Spec => OpenBreakerHolds
<1>1. BreakerInv /\ [Next]_vars => [OpenHolds]_vars
  BY StepHoldsOpen
<1> QED
  BY <1>1, BreakerInvariant, PTL DEF Spec, OpenBreakerHolds, OpenHolds
=============================================================================
