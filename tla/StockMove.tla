----------------------------- MODULE StockMove -----------------------------
(***************************************************************************)
(* What receiving a slip promises about the goods: each line's goods leave *)
(* the issuing storeroom and then arrive in the receiving one, in the same *)
(* quantity, and never more than was ordered.  The goods of a line that    *)
(* have left and not yet arrived are in the hands of one receipt, and a    *)
(* receipt may die while it has them.                                      *)
(***************************************************************************)
EXTENDS Naturals

CONSTANTS
    Lines,
    Quantity    \* Quantity[l]: what was ordered of line l

VARIABLES taken, arrived

vars == <<taken, arrived>>

Init == taken = [l \in Lines |-> 0] /\ arrived = [l \in Lines |-> 0]

Take(l) ==
    /\ taken[l] = arrived[l]
    /\ \E q \in 1 .. Quantity[l] - taken[l] : taken' = [taken EXCEPT ![l] = @ + q]
    /\ UNCHANGED arrived

Arrive(l) ==
    /\ arrived' = [arrived EXCEPT ![l] = taken[l]]
    /\ UNCHANGED taken

Next == \E l \in Lines : Take(l) \/ Arrive(l)

Spec == Init /\ [][Next]_vars
=============================================================================
