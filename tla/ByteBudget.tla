----------------------------- MODULE ByteBudget -----------------------------
(***************************************************************************)
(* What a bounded byte budget promises.                                    *)
(*                                                                         *)
(* Owners take bytes from a shared budget of Limit bytes and give them     *)
(* back.  A grant is one indivisible step that never takes the total over  *)
(* the limit, and giving back returns exactly what was granted.            *)
(*                                                                         *)
(* HookDelivery implements this with an atomic counter and a               *)
(* compare-and-exchange loop shared by all delivery tasks.                 *)
(***************************************************************************)
EXTENDS Integers, FiniteSets

CONSTANTS
    Owners,     \* who may hold bytes
    Limit       \* the size of the budget

VARIABLE held   \* held[o]: bytes owner o holds now

Holdings == [Owners -> 0..Limit]

\* The bytes held, one element per byte, so that their number is a cardinality.
HeldBytes(h) == {b \in Owners \X (1..Limit) : b[2] <= h[b[1]]}

Total(h) == Cardinality(HeldBytes(h))

Init == held = [o \in Owners |-> 0]

\* Owner o, which holds nothing, is granted n bytes.
Grant(o, n) ==
    /\ held[o] = 0
    /\ Total(held) + n <= Limit
    /\ held' = [held EXCEPT ![o] = n]

\* Owner o gives back everything it holds.
GiveBack(o) ==
    /\ held[o] > 0
    /\ held' = [held EXCEPT ![o] = 0]

Next == \E o \in Owners : GiveBack(o) \/ \E n \in 1..Limit : Grant(o, n)

Spec == Init /\ [][Next]_held

=============================================================================
