---------------------------- MODULE InventoryQty ----------------------------
(***************************************************************************)
(* The derived quantities of an inventory row, InventoryQtyCommon: the     *)
(* quantity on its way out (FCZTQTY), on its way in (JSZTQTY) and the      *)
(* quantity that may still be requested (KYQTY).  They are recomputed from *)
(* the committed slip lines each time a slip is saved or a movement ends.  *)
(*                                                                         *)
(* `waiting` is the set of lines with status not received whose slip is in *)
(* transit; `held` is what is reserved, faulty, in test or pending.        *)
(***************************************************************************)
EXTENDS Integers, FiniteSetsExt

OrderedOf(data, lines) == MapThenSumSet(LAMBDA l : data[l].orderqty, lines)

FCZTQTY(data, waiting, key) ==
    OrderedOf(data, {l \in waiting : <<data[l].from, data[l].item>> = key})

JSZTQTY(data, waiting, key) ==
    OrderedOf(data, {l \in waiting : <<data[l].to, data[l].item>> = key})

KYQTY(curbal, held, fcztqty) == curbal - (held + fcztqty)

\* The derived quantities of one existing inventory row, in the order
\* FCZTQTY, JSZTQTY, KYQTY: the last uses the first.
Derived(data, waiting, key, row, held) ==
    LET fczt == FCZTQTY(data, waiting, key)
    IN  [fcztqty |-> fczt,
         jsztqty |-> JSZTQTY(data, waiting, key),
         kyqty   |-> KYQTY(row.curbal, held, fczt)]
=============================================================================
