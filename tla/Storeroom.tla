----------------------------- MODULE Storeroom -----------------------------
(***************************************************************************)
(* The stock tables of the spare-parts application and the two procedures  *)
(* that move the goods of a slip line between storerooms,                  *)
(* TransLineStoroomCommon.out_storoom and in_storoom.                      *)
(*                                                                         *)
(* A stock is a record of four tables:                                     *)
(*   inventory   SYS_INVENTORY: the balance CURBAL and the usable quantity *)
(*               LOCQTY of an item in a storeroom,                         *)
(*   locbinitem  the quantity of the item in the bin the slip names,       *)
(*   invblance   the quantity of the lot the slip names (one lot per item),*)
(*   asset       where a serialised part is, and its status.               *)
(* A row that does not exist has exists = FALSE and quantities 0.          *)
(*                                                                         *)
(* Both procedures read a row, compute the new value and save it as an     *)
(* absolute value; several rows are saved one after the other, and any     *)
(* MroException is caught, printed and forgotten.  An update is therefore  *)
(* a function of the stock as it is (st), the stock as it was read (seen), *)
(* and the number `upto` of saves that succeed: 1 the bin or the lot,      *)
(* 2 also the inventory row, 3 also the asset.                             *)
(***************************************************************************)
EXTENDS Integers

\* itemtype of a line, the storerooms' types, the values of the two SXTYPEs
Kinds     == {"SQN", "LOT", "OTHER"}
RoomTypes == {"regular", "reuse", "repair", "faulty", "pending", "centre", "other"}
SxTypes   == {"none", "GZ", "GAIZ", "YXX"}
Moves     == {"siteToSite", "centreToSite", "siteToCentre", "centreToCentre"}
SlipTypes == {"GZZXD", "SX", "ZXD"}
AssetStatus == {"usable", "reusable", "faulty", "pending", "rework", "testing", "inTransit"}
Nowhere   == "nowhere"                     \* asset.location = ""

NoRow == [exists |-> FALSE, curbal |-> 0, locqty |-> 0]
NoQty == [exists |-> FALSE, qty |-> 0]

AllSaves == 3

----------------------------------------------------------------------------
(* When a movement also changes LOCQTY: by the slip's type, its movement   *)
(* type and its SXTYPE; the receiving side of a centre-to-centre slip      *)
(* looks at the SXTYPE of the line instead.                                *)

\* Mutant: the slips from a centre to a site are forgotten.
MovesUsable_siteOnly(slip, centreToCentre) ==
    \/ slip.type = "GZZXD"
    \/ slip.type = "SX" /\ slip.sx = "YXX"
    \/ slip.type = "ZXD" /\ slip.move = "siteToSite"

MovesUsable(slip, centreToCentre) ==
    \/ slip.type = "GZZXD"
    \/ slip.type = "SX" /\ slip.sx = "YXX"
    \/ /\ slip.type = "ZXD"
       /\ \/ slip.move \in {"siteToSite", "centreToSite"}
          \/ slip.move = "siteToCentre" /\ slip.sx = "YXX"
          \/ slip.move = "centreToCentre" /\ centreToCentre

OutMovesUsable(slip)       == MovesUsable(slip, slip.sx \in {"none", "YXX", "GZ"})
InMovesUsable(slip, line)  == MovesUsable(slip, slip.sx = "none" \/ line.sx = "YXX")

----------------------------------------------------------------------------
(* out_storoom                                                             *)

\* The inventory row after q are taken from the row as it was read.
OutRow(row, slip, q) ==
    [exists |-> row.exists,
     curbal |-> row.curbal - q,
     locqty |-> row.locqty - (IF OutMovesUsable(slip) THEN q ELSE 0)]

\* Mutant: the bin and the lot keep what left them.
OutAmount_kept(row, q) == row

\* The same for the row of a bin or a lot, if it exists.
OutAmount(row, q) == IF row.exists THEN [exists |-> TRUE, qty |-> row.qty - q] ELSE row

\* A row is saved, if the sequence of saves gets that far.
Put(table, key, row, saved) == IF saved THEN [table EXCEPT ![key] = row] ELSE table

\* Serialised part: nothing happens unless the asset and the inventory row
\* exist; bin, inventory row and asset are saved in this order.
OutSqn(st, seen, slip, line, q, upto) ==
    LET key == <<line.from, line.item>>
        a   == line.asset
    IN  IF ~ seen.inventory[key].exists \/ ~ seen.asset[a].exists THEN st
        ELSE [locbinitem |-> Put(st.locbinitem, key, OutAmount(seen.locbinitem[key], q),
                                 upto >= 1 /\ line.binned),
              inventory  |-> Put(st.inventory, key, OutRow(seen.inventory[key], slip, q),
                                 upto >= 2),
              asset      |-> Put(st.asset, a, [st.asset[a] EXCEPT !.location = Nowhere],
                                 upto >= 3),
              invblance  |-> st.invblance]

\* Lot-tracked part: the lot's balance first, then the inventory row.
OutLot(st, seen, slip, line, q, upto) ==
    LET key == <<line.from, line.item>>
    IN  IF ~ seen.inventory[key].exists THEN st
        ELSE [invblance  |-> Put(st.invblance, key, OutAmount(seen.invblance[key], q),
                                 upto >= 1 /\ line.lotted),
              inventory  |-> Put(st.inventory, key, OutRow(seen.inventory[key], slip, q),
                                 upto >= 2),
              locbinitem |-> st.locbinitem,
              asset      |-> st.asset]

OutOther(st, seen, slip, line, q, upto) ==
    LET key == <<line.from, line.item>>
    IN  IF ~ seen.inventory[key].exists THEN st
        ELSE [st EXCEPT
                !.inventory = Put(@, key, OutRow(seen.inventory[key], slip, q), upto >= 2)]

OutStoroom(st, seen, slip, line, q, upto) ==
    CASE line.kind = "SQN"   -> OutSqn(st, seen, slip, line, q, upto)
      [] line.kind = "LOT"   -> OutLot(st, seen, slip, line, q, upto)
      [] line.kind = "OTHER" -> OutOther(st, seen, slip, line, q, upto)

----------------------------------------------------------------------------
(* in_storoom                                                              *)

\* A new row starts from 0, so adding and creating are one expression.
InRow(row, slip, line, q) ==
    [exists |-> TRUE,
     curbal |-> row.curbal + q,
     locqty |-> row.locqty + (IF InMovesUsable(slip, line) THEN q ELSE 0)]

\* The status a received asset gets from the receiving storeroom.  Only the
\* branch that finds an inventory row has the trailing else for the other
\* repair storerooms.
InStatus(roomtype, line, old, newrow) ==
    CASE roomtype = "regular" -> "usable"
      [] roomtype = "reuse"   -> "reusable"
      [] roomtype = "faulty"  -> "faulty"
      [] roomtype = "pending" -> "pending"
      [] roomtype = "repair"  -> IF newrow THEN old ELSE "faulty"
      [] roomtype = "centre"  -> CASE line.sx = "GZ"   -> "faulty"
                                   [] line.sx = "GAIZ" -> "rework"
                                   [] line.sx = "YXX"  -> "testing"
                                   [] OTHER            -> old
      [] OTHER                -> old

\* The bin of the receiving storeroom is never updated.
InSqn(st, seen, slip, line, q, roomtype, upto) ==
    LET key    == <<line.to, line.item>>
        a      == line.asset
        newrow == ~ seen.inventory[key].exists
    IN  IF ~ seen.asset[a].exists THEN st
        ELSE [inventory  |-> Put(st.inventory, key,
                                 InRow(seen.inventory[key], slip, line, q), upto >= 2),
              asset      |-> Put(st.asset, a,
                                 [exists   |-> TRUE,
                                  location |-> line.to,
                                  status   |-> InStatus(roomtype, line,
                                                        st.asset[a].status, newrow)],
                                 upto >= 3),
              locbinitem |-> st.locbinitem,
              invblance  |-> st.invblance]

\* The lot's row is created when it is missing.
InAmount(row, q) == [exists |-> TRUE, qty |-> row.qty + q]

InLot(st, seen, slip, line, q, upto) ==
    LET key == <<line.to, line.item>>
    IN  [invblance  |-> Put(st.invblance, key, InAmount(seen.invblance[key], q),
                            upto >= 1 /\ line.lotted),
         inventory  |-> Put(st.inventory, key,
                            InRow(seen.inventory[key], slip, line, q), upto >= 2),
         locbinitem |-> st.locbinitem,
         asset      |-> st.asset]

InOther(st, seen, slip, line, q, upto) ==
    LET key == <<line.to, line.item>>
    IN  [st EXCEPT
            !.inventory = Put(@, key, InRow(seen.inventory[key], slip, line, q), upto >= 2)]

InStoroom(st, seen, slip, line, q, roomtype, upto) ==
    CASE line.kind = "SQN"   -> InSqn(st, seen, slip, line, q, roomtype, upto)
      [] line.kind = "LOT"   -> InLot(st, seen, slip, line, q, upto)
      [] line.kind = "OTHER" -> InOther(st, seen, slip, line, q, upto)

----------------------------------------------------------------------------
(* Whether a movement reached the inventory row of its storeroom.          *)
Takes(seen, line, upto) ==
    /\ upto >= 2
    /\ seen.inventory[<<line.from, line.item>>].exists
    /\ line.kind = "SQN" => seen.asset[line.asset].exists
Adds(seen, line, upto) ==
    /\ upto >= 2
    /\ line.kind = "SQN" => seen.asset[line.asset].exists
=============================================================================
