--------------------------- MODULE MCMaterBorrow ---------------------------
(***************************************************************************)
(* MaterBorrow for TLC: a slip for a serialised board, a cable of a lot    *)
(* and a fuse without either, returned from two browser windows.           *)
(***************************************************************************)
EXTENDS MaterBorrow, FiniteSetsExt, TLC

CONSTANTS l1, l2, l3, s1, s2

MCItems == {"board", "cable", "fuse"}
MCKind == "board" :> "SQN" @@ "cable" :> "LOT" @@ "fuse" :> "OTHER"

AllItem == l1 :> "board" @@ l2 :> "cable" @@ l3 :> "fuse"
MCItem  == [l \in Lines |-> AllItem[l]]
MCAsset == [l \in Lines |-> IF l = l1 THEN "a1" ELSE NoAsset]

\* a1 is lent; a2 is a serial number nobody has seen before.
MCAssets == {"a1", "a2"}
MCItemOf == [a \in MCAssets |-> "board"]
MCSerials == {"a2"}

\* The storeroom has two of each item, the borrowing storeroom none, and of
\* the cable an empty row.
MCStock ==
    [inventory |-> [k \in BorrowRooms \X MCItems |->
        CASE k[1] = "store" -> [exists |-> TRUE, curbal |-> 2, locqty |-> 2]
          [] k = <<"loan", "cable">> -> [exists |-> TRUE, curbal |-> 0, locqty |-> 0]
          [] OTHER -> NoRow],
     invblance |-> [k \in BorrowRooms \X MCItems |->
        IF k = <<"store", "cable">> THEN [exists |-> TRUE, qty |-> 2] ELSE NoQty],
     asset |-> "a1" :> [exists |-> TRUE, location |-> "store"] @@
               "a2" :> [exists |-> FALSE, location |-> Nowhere]]

\* Two windows that never return the same line.
Disjoint == s1 :> Lines \cap {l1} @@ s2 :> Lines \ {l1}

\* The instance is one the theorems are about.
ASSUME Conditions == OneWindow /\ OneRoute /\ Stocked /\ RowsApart

----------------------------------------------------------------------------
(* What the code's own texts say, and the code does not do.                *)

\* Only who still has borrowed parts is asked to return them.
RemindedHasParts ==
    Quiet /\ lines # {} /\ (\A l \in lines : line[l].status = "returned")
        => status \notin {"lent", "partReturned", "overdue"}
=============================================================================
