------------------------ MODULE MaterBorrowGoodsProofs ------------------------
(***************************************************************************)
(* The goods of a borrowing slip: for every slip, any number of lines and  *)
(* of sessions, the transaction records explain the balances, and the      *)
(* storerooms hold what the slip says.                                     *)
(***************************************************************************)
EXTENDS MaterBorrowProofs, FiniteSetTheorems

----------------------------------------------------------------------------
(* How far each line has come: out of the storeroom, into the borrowing    *)
(* storeroom, out of it again, and back as some item.                      *)

AtLine(s, steps, l) == pc[s] \in steps /\ cur[s] = l

\* Returned, in the database or on a page that is not saved yet.
Marked(l) == line[l].status = "returned" \/ \E s \in Sessions : l \in page[s].dirty

\* The item a marked line came back as.
CameAs(l, i) ==
    \/ \E s \in Sessions : l \in page[s].dirty /\ page[s].line[l].newitem = i
    \/ (\A s \in Sessions : l \notin page[s].dirty) /\ line[l].newitem = i

LeftStore ==
    {l \in lines : status = "new" => \E s \in Sessions : pc[s] \in Lending /\ l \notin todo[s]}
InLoan == {l \in LeftStore : \A s \in Sessions : ~ AtLine(s, {"lendIn"}, l)}
LeftLoan ==
    {l \in lines : CASE status = "closed"   -> TRUE
                     [] status = "rejected" -> \E s \in Sessions : pc[s] \in Closing /\ l \notin todo[s]
                     [] OTHER -> /\ Marked(l)
                                 /\ \A s \in Sessions : ~ AtLine(s, {"asset", "out"}, l)}
Back(i) ==
    {l \in LeftLoan : CameAs(l, i) /\ \A s \in Sessions : ~ AtLine(s, {"closeIn", "in"}, l)}

Of(S, i) == {l \in S : Item[l] = i}

----------------------------------------------------------------------------
(* The inductive invariant, in parts.                                      *)

\* A line that is not returned has no other item, and before anything can come
\* back nothing has.
NotReturned ==
    /\ IsFiniteSet(lines)
    /\ \A l \in Lines : line[l].status = "notReturned" => line[l].newitem = Item[l]
    /\ status \in Early => \A l \in Lines : line[l].status = "notReturned"

\* What a request that moves goods works on.
Working(s) ==
    /\ pc[s] \in Lending \cup Closing => todo[s] \subseteq lines
    /\ pc[s] \in {"lendSave", "closeSave"} => todo[s] = {}
    /\ pc[s] \in {"lendIn", "closeIn"} => cur[s] \in lines \ todo[s]
    /\ pc[s] \in {"change", "asset", "out", "in"} => cur[s] \in lines \cap MayReturn[s]
    /\ pc[s] \in {"asset", "out", "in"} => /\ cur[s] \in page[s].dirty
                                           /\ page[s].line[cur[s]].newitem = ret[s].item

\* A part that comes back: for a serialised line its own asset, or an exchange
\* part, which is an asset from ADDASSET on.
PartBack(s) ==
    pc[s] \in {"change", "asset", "out", "in"} =>
        LET l == cur[s]
            a == ret[s].asset
        IN  /\ Kind[ret[s].item] = "SQN" <=> Kind[Item[l]] = "SQN"
            /\ Kind[Item[l]] = "SQN" => a = Asset[l] \/ a \in Serials
            /\ Kind[Item[l]] # "SQN" => a = NoAsset
            /\ pc[s] = "asset" => a \in Serials
            /\ a \in Serials => (stock.asset[a].exists <=> pc[s] \in {"out", "in"})

\* A movement will change what it has queried.
Current(s, room, i, a) ==
    /\ seen[s].inventory[<<room, i>>] = stock.inventory[<<room, i>>]
    /\ seen[s].invblance[<<room, i>>] = stock.invblance[<<room, i>>]
    /\ Kind[i] = "SQN" => (Known(seen[s], a) <=> Known(stock, a))

\* Nobody has changed the rows a request has queried.
SeenNow(s) ==
    seen[s] # NotRead =>
        /\ pc[s] \in Lending \cup Closing => seen[s] = stock
        /\ pc[s] = "out" => Current(s, "loan", Item[cur[s]], Asset[cur[s]])
        /\ pc[s] = "in" => Current(s, "store", ret[s].item, ret[s].asset)

\* A serial number that became an asset is in the storeroom, or on its way.
SerialsKept ==
    \A a \in Serials : stock.asset[a].exists =>
        \/ stock.asset[a].location = "store"
        \/ \E s \in Sessions : pc[s] \in {"out", "in"} /\ ret[s].asset = a

HasRow(room, i) ==
    /\ stock.inventory[<<room, i>>].exists
    /\ Kind[i] = "LOT" => stock.invblance[<<room, i>>].exists

\* Every movement finds the row and the asset it changes.
RowsExist ==
    /\ \A l \in Lines : /\ HasRow("store", Item[l])
                        /\ Asset[l] # NoAsset => stock.asset[Asset[l]].exists
    /\ \A l \in InLoan : HasRow("loan", Item[l])

\* The transaction records count the lines.
RecordsCount ==
    \A i \in Items :
        /\ invtrans[<<"store", i>>] = Cardinality(Back(i)) - Cardinality(Of(LeftStore, i))
        /\ invtrans[<<"loan", i>>] = Cardinality(Of(InLoan, i)) - Cardinality(Of(LeftLoan, i))

\* A lent asset is in the borrowing storeroom.
AssetsFollow ==
    \A l \in Lines : Asset[l] # NoAsset =>
        (stock.asset[Asset[l]].location = "loan" <=> l \in InLoan \ LeftLoan)

GoodsNow ==
    /\ \A s \in Sessions : Working(s) /\ PartBack(s) /\ SeenNow(s)
    /\ SerialsKept
    /\ RowsExist
    /\ LedgerExplainsBalance
    /\ RecordsCount
    /\ AssetsFollow

\* The inductive invariant of the goods.
Goods == NotReturned /\ (~ cut => GoodsNow)


----------------------------------------------------------------------------
(* What a movement does to the stock.                                      *)

\* n pieces of an item enter a storeroom, and a serialised one is then at loc.
Effect(room, i, a, n, loc) ==
    /\ \A k \in Keys :
         LET d == IF k = <<room, i>> THEN n ELSE 0
         IN  /\ stock'.inventory[k].curbal = stock.inventory[k].curbal + d
             /\ Kind[k[2]] = "LOT" => stock'.invblance[k].qty = stock.invblance[k].qty + d
             /\ invtrans'[k] = invtrans[k] + d
    /\ \A k \in Keys : /\ stock.inventory[k].exists => stock'.inventory[k].exists
                       /\ stock.invblance[k].exists => stock'.invblance[k].exists
    /\ n = 1 => HasRow(room, i)'
    /\ \A k \in Keys \ {<<room, i>>} : /\ stock'.inventory[k] = stock.inventory[k]
                                       /\ stock'.invblance[k] = stock.invblance[k]
    /\ \A b \in Assets :
         /\ stock'.asset[b].exists <=> stock.asset[b].exists
         /\ stock'.asset[b].location = IF Kind[i] = "SQN" /\ b = a THEN loc
                                       ELSE stock.asset[b].location

\* One piece leaves a storeroom that has its row, and its lot or its asset,
\* when the movement goes through and has read the rows as they are.
LEMMA OutEffect ==
    ASSUME TypeInv, ~ cut', NEW s \in Sessions, NEW room \in BorrowRooms, NEW i \in Items,
           NEW a \in Assets \cup {NoAsset}, HasRow(room, i), Kind[i] = "SQN" => Known(stock, a),
           Current(s, room, i, a), Out(s, room, i, a)
    PROVE  Effect(room, i, a, -1, Nowhere)
<1> DEFINE key == <<room, i>>
           row == stock.inventory[key]
           lot == stock.invblance[key]
           part == [exists |-> TRUE, location |-> Nowhere]
           rows == [stock.inventory EXCEPT ![key] = Less(row)]
           lots == [stock.invblance EXCEPT ![key] = OutAmount(lot, 1)]
           d(k) == IF k = key THEN -1 ELSE 0
<1>1. key \in Keys /\ Kind[i] \in Kinds
  BY BorrowAssumption DEF Keys, BorrowAssumption
<1>2. /\ stock.inventory \in [Keys -> Row]
      /\ stock.invblance \in [Keys -> Amount]
      /\ stock.asset \in [Assets -> Part]
      /\ invtrans \in [Keys -> Int]
      /\ stock \in BorrowStock
  BY StockTables DEF TypeInv, TypeOK
<1>3. /\ stock' = OUTINVENTORY(stock, seen[s], room, i, a, Recorded)
      /\ invtrans' = [invtrans EXCEPT ![key] = @ + (-1)]
  <2>1. PICK upto : /\ stock' = OUTINVENTORY(stock, seen[s], room, i, a, upto)
                    /\ Moved(s, room, i, upto, -1)
    BY DEF Out
  <2>2. upto = Recorded
    BY <2>1 DEF Moved
  <2> QED BY <2>1, <2>2 DEF Moved
<1>4. \A k \in Keys : invtrans'[k] = invtrans[k] + d(k)
  BY <1>1, <1>2, <1>3
<1>5. /\ seen[s].inventory[key] = row /\ seen[s].invblance[key] = lot
      /\ Recorded >= 1 /\ Recorded >= 2 /\ Recorded >= 3
      /\ row.exists /\ (Kind[i] = "LOT" => lot.exists)
  BY DEF Current, Recorded, AllSaves, HasRow
<1>6. Kind[i] = "SQN" => Known(seen[s], a) /\ a \in Assets /\ stock.asset[a].exists
  BY DEF Current, Known
<1>7. /\ Kind[i] = "SQN" => stock' = [stock EXCEPT !.inventory = rows,
                                         !.asset = [stock.asset EXCEPT ![a] = part]]
      /\ Kind[i] = "LOT" => stock' = [stock EXCEPT !.inventory = rows, !.invblance = lots]
      /\ Kind[i] = "OTHER" => stock' = [stock EXCEPT !.inventory = rows]
  BY <1>3, <1>5, <1>6 DEF OUTINVENTORY, Put
<1>8. \A k \in Keys :
         /\ rows[k].curbal = stock.inventory[k].curbal + d(k)
         /\ stock.inventory[k].exists => rows[k].exists
         /\ k # key => rows[k] = stock.inventory[k]
  <2>1. \A r \in Row : /\ Less(r).curbal = r.curbal - 1 /\ (r.exists => Less(r).exists)
                       /\ r.curbal \in Int
    BY DEF Less, Row
  <2> QED BY <1>1, <1>2, <2>1
<1>9. \A k \in Keys :
         /\ stock.invblance[k].qty \in Int
         /\ k # key => lots[k] = stock.invblance[k]
         /\ lot.exists => /\ stock.invblance[k].exists => lots[k].exists
                          /\ lots[k].qty = stock.invblance[k].qty + d(k)
  <2>1. \A m \in Amount : /\ m.qty \in Int
                          /\ m.exists => /\ OutAmount(m, 1).exists
                                         /\ OutAmount(m, 1).qty = m.qty - 1
    BY DEF OutAmount, Amount
  <2> QED BY <1>1, <1>2, <2>1
<1> HIDE DEF rows, lots, part
<1>10. stock'.inventory = rows
  BY <1>1, <1>2, <1>7 DEF BorrowStock, Kinds
<1>11. /\ stock'.invblance = IF Kind[i] = "LOT" THEN lots ELSE stock.invblance
       /\ stock'.asset = IF Kind[i] = "SQN" THEN [stock.asset EXCEPT ![a] = part] ELSE stock.asset
  BY <1>1, <1>2, <1>7 DEF BorrowStock, Kinds
<1>12. \A b \in Assets :
          /\ stock'.asset[b].exists <=> stock.asset[b].exists
          /\ stock'.asset[b].location = IF Kind[i] = "SQN" /\ b = a THEN Nowhere
                                        ELSE stock.asset[b].location
  <2>1. part.exists /\ part.location = Nowhere
    BY DEF part
  <2> QED BY <1>2, <1>6, <1>11, <2>1
<1>13. \A k \in Keys :
          /\ stock.invblance[k].exists => stock'.invblance[k].exists
          /\ k # key => stock'.invblance[k] = stock.invblance[k]
          /\ Kind[k[2]] = "LOT" => stock'.invblance[k].qty = stock.invblance[k].qty + d(k)
  <2>1. CASE Kind[i] = "LOT"
    BY <1>5, <1>9, <1>11, <2>1
  <2>2. CASE Kind[i] # "LOT"
    <3>1. \A k \in Keys : Kind[k[2]] = "LOT" => k # key
      BY <2>2 DEF Keys
    <3> HIDE DEF key
    <3> QED BY <1>9, <1>11, <2>2, <3>1
  <2> QED BY <2>1, <2>2
<1>14. \A k \in Keys :
          LET e == IF k = <<room, i>> THEN -1 ELSE 0
          IN  /\ stock'.inventory[k].curbal = stock.inventory[k].curbal + e
              /\ Kind[k[2]] = "LOT" => stock'.invblance[k].qty = stock.invblance[k].qty + e
              /\ invtrans'[k] = invtrans[k] + e
  BY <1>4, <1>8, <1>10, <1>13
<1>15. \A k \in Keys : stock.inventory[k].exists => stock'.inventory[k].exists
  BY <1>8, <1>10
<1>16. \A k \in Keys \ {key} : stock'.inventory[k] = stock.inventory[k]
  BY <1>8, <1>10
<1> QED BY <1>12, <1>13, <1>14, <1>15, <1>16 DEF Effect

\* One piece enters a storeroom, likewise; a serialised one is an asset.
LEMMA InEffect ==
    ASSUME TypeInv, ~ cut', NEW s \in Sessions, NEW room \in BorrowRooms, NEW i \in Items,
           NEW a \in Assets \cup {NoAsset}, Kind[i] = "SQN" => Known(stock, a),
           Current(s, room, i, a), In(s, room, i, a)
    PROVE  Effect(room, i, a, 1, room)
<1> DEFINE key == <<room, i>>
           row == stock.inventory[key]
           lot == stock.invblance[key]
           part == [exists |-> TRUE, location |-> room]
           rows == [stock.inventory EXCEPT ![key] = More(row)]
           lots == [stock.invblance EXCEPT ![key] = InAmount(lot, 1)]
           d(k) == IF k = key THEN 1 ELSE 0
<1>1. key \in Keys /\ Kind[i] \in Kinds
  BY BorrowAssumption DEF Keys, BorrowAssumption
<1>2. /\ stock.inventory \in [Keys -> Row]
      /\ stock.invblance \in [Keys -> Amount]
      /\ stock.asset \in [Assets -> Part]
      /\ invtrans \in [Keys -> Int]
      /\ stock \in BorrowStock
  BY StockTables DEF TypeInv, TypeOK
<1>3. /\ stock' = ININVENTORY(stock, seen[s], room, i, a, Recorded)
      /\ invtrans' = [invtrans EXCEPT ![key] = @ + 1]
  <2>1. PICK upto : /\ stock' = ININVENTORY(stock, seen[s], room, i, a, upto)
                    /\ Moved(s, room, i, upto, 1)
    BY DEF In
  <2>2. upto = Recorded
    BY <2>1 DEF Moved
  <2> QED BY <2>1, <2>2 DEF Moved
<1>4. \A k \in Keys : invtrans'[k] = invtrans[k] + d(k)
  BY <1>1, <1>2, <1>3
<1>5. /\ seen[s].inventory[key] = row /\ seen[s].invblance[key] = lot
      /\ Recorded >= 1 /\ Recorded >= 2 /\ Recorded >= 3
  BY DEF Current, Recorded, AllSaves
<1>6. Kind[i] = "SQN" => Known(seen[s], a) /\ a \in Assets /\ stock.asset[a].exists
  BY DEF Current, Known
<1>7. /\ Kind[i] = "SQN" => stock' = [stock EXCEPT !.inventory = rows,
                                         !.asset = [stock.asset EXCEPT ![a] = part]]
      /\ Kind[i] = "LOT" => stock' = [stock EXCEPT !.inventory = rows, !.invblance = lots]
      /\ Kind[i] = "OTHER" => stock' = [stock EXCEPT !.inventory = rows]
  BY <1>3, <1>5, <1>6 DEF ININVENTORY, Put
<1>8. \A k \in Keys :
         /\ rows[k].curbal = stock.inventory[k].curbal + d(k)
         /\ stock.inventory[k].exists \/ k = key => rows[k].exists
         /\ k # key => rows[k] = stock.inventory[k]
  <2>1. \A r \in Row : /\ More(r).curbal = r.curbal + 1 /\ More(r).exists
                       /\ r.curbal \in Int
    BY DEF More, Row
  <2> QED BY <1>1, <1>2, <2>1
<1>9. \A k \in Keys :
         /\ stock.invblance[k].qty \in Int
         /\ k # key => lots[k] = stock.invblance[k]
         /\ stock.invblance[k].exists \/ k = key => lots[k].exists
         /\ lots[k].qty = stock.invblance[k].qty + d(k)
  <2>1. \A m \in Amount : /\ m.qty \in Int
                          /\ InAmount(m, 1).exists /\ InAmount(m, 1).qty = m.qty + 1
    BY DEF InAmount, Amount
  <2> QED BY <1>1, <1>2, <2>1
<1> HIDE DEF rows, lots, part
<1>10. stock'.inventory = rows
  BY <1>1, <1>2, <1>7 DEF BorrowStock, Kinds
<1>11. /\ stock'.invblance = IF Kind[i] = "LOT" THEN lots ELSE stock.invblance
       /\ stock'.asset = IF Kind[i] = "SQN" THEN [stock.asset EXCEPT ![a] = part] ELSE stock.asset
  BY <1>1, <1>2, <1>7 DEF BorrowStock, Kinds
<1>12. \A b \in Assets :
          /\ stock'.asset[b].exists <=> stock.asset[b].exists
          /\ stock'.asset[b].location = IF Kind[i] = "SQN" /\ b = a THEN room
                                        ELSE stock.asset[b].location
  <2>1. part.exists /\ part.location = room
    BY DEF part
  <2> QED BY <1>2, <1>6, <1>11, <2>1
<1>13. \A k \in Keys :
          /\ stock.invblance[k].exists => stock'.invblance[k].exists
          /\ k # key => stock'.invblance[k] = stock.invblance[k]
          /\ Kind[k[2]] = "LOT" => stock'.invblance[k].qty = stock.invblance[k].qty + d(k)
  <2>1. CASE Kind[i] = "LOT"
    BY <1>5, <1>9, <1>11, <2>1
  <2>2. CASE Kind[i] # "LOT"
    <3>1. \A k \in Keys : Kind[k[2]] = "LOT" => k # key
      BY <2>2 DEF Keys
    <3> HIDE DEF key
    <3> QED BY <1>9, <1>11, <2>2, <3>1
  <2> QED BY <2>1, <2>2
<1>14. \A k \in Keys :
          LET e == IF k = <<room, i>> THEN 1 ELSE 0
          IN  /\ stock'.inventory[k].curbal = stock.inventory[k].curbal + e
              /\ Kind[k[2]] = "LOT" => stock'.invblance[k].qty = stock.invblance[k].qty + e
              /\ invtrans'[k] = invtrans[k] + e
  BY <1>4, <1>8, <1>10, <1>13
<1>15. \A k \in Keys : stock.inventory[k].exists => stock'.inventory[k].exists
  BY <1>8, <1>10
<1>16. \A k \in Keys \ {key} : stock'.inventory[k] = stock.inventory[k]
  BY <1>8, <1>10
<1>17. HasRow(room, i)'
  <2>1. rows[key].exists /\ (Kind[i] = "LOT" => lots[key].exists)
    BY <1>1, <1>8, <1>9
  <2> QED BY <1>10, <1>11, <2>1 DEF HasRow
<1> QED BY <1>12, <1>13, <1>14, <1>15, <1>16, <1>17 DEF Effect

----------------------------------------------------------------------------
(* The four sets.  Before anything can come back they follow from the      *)
(* request that lends or closes; afterwards from the marks.                *)

EarlySets ==
    /\ status = "new" /\ (\A s \in Sessions : pc[s] \notin Lending) => LeftStore = {} /\ InLoan = {}
    /\ \A s \in Sessions : pc[s] \in Lending =>
         /\ LeftStore = lines \ todo[s]
         /\ InLoan = LeftStore \ {l \in Lines : AtLine(s, {"lendIn"}, l)}
    /\ status \in Early \ {"new"} => LeftStore = lines /\ InLoan = lines
    /\ status \in {"new", "pending"} => LeftLoan = {}
    /\ status = "rejected" /\ (\A s \in Sessions : pc[s] \notin Closing) => LeftLoan = {}
    /\ \A s \in Sessions : pc[s] \in Closing =>
         /\ LeftLoan = lines \ todo[s]
         /\ \A i \in Items : Back(i) = Of(LeftLoan \ {l \in Lines : AtLine(s, {"closeIn"}, l)}, i)
    /\ status = "closed" => LeftLoan = lines /\ \A i \in Items : Back(i) = Of(lines, i)
    /\ LeftLoan = {} => \A i \in Items : Back(i) = {}

LEMMA EarlySetsHold == TypeInv /\ Statuses /\ NotReturned => EarlySets
<1> SUFFICES ASSUME TypeInv, Statuses, NotReturned PROVE EarlySets
  OBVIOUS
<1>1. lines \subseteq Lines
  BY DEF TypeInv, TypeOK
<1>2. ASSUME status \in Early
      PROVE  /\ \A l \in Lines : ~ Marked(l)
             /\ \A l \in Lines : \A i \in Items : CameAs(l, i) <=> Item[l] = i
  <2>1. /\ \A l \in Lines : line[l].status = "notReturned" /\ line[l].newitem = Item[l]
        /\ \A s \in Sessions : page[s].dirty = {}
    BY <1>2 DEF NotReturned, Statuses, EarlyIsQuiet
  <2> QED BY <2>1 DEF Marked, CameAs
<1>3. ASSUME NEW s \in Sessions, pc[s] \in Lending
      PROVE  /\ status = "new"
             /\ \A t \in Sessions \ {s} : pc[t] = "idle"
  BY <1>3, WhoIsAtWork
<1>4. ASSUME NEW s \in Sessions, pc[s] \in Closing
      PROVE  /\ status = "rejected"
             /\ \A t \in Sessions \ {s} : pc[t] = "idle"
  BY <1>4, WhoIsAtWork
<1>5. ASSUME status \in Early, NEW s \in Sessions PROVE pc[s] \in {"idle"} \cup Lending \cup Closing
  BY <1>5 DEF Statuses, EarlyIsQuiet
<1>6. status = "new" /\ (\A s \in Sessions : pc[s] \notin Lending) => LeftStore = {} /\ InLoan = {}
  BY DEF LeftStore, InLoan
<1>7. ASSUME NEW s \in Sessions, pc[s] \in Lending
      PROVE  /\ LeftStore = lines \ todo[s]
             /\ InLoan = LeftStore \ {l \in Lines : AtLine(s, {"lendIn"}, l)}
  BY <1>1, <1>3, <1>7 DEF LeftStore, InLoan, AtLine, Lending
<1>8. status \in Early \ {"new"} => LeftStore = lines /\ InLoan = lines
  <2> SUFFICES ASSUME status \in Early \ {"new"} PROVE LeftStore = lines /\ InLoan = lines
    OBVIOUS
  <2>1. \A s \in Sessions : pc[s] # "lendIn"
    BY <1>3 DEF Lending
  <2> QED BY <2>1 DEF LeftStore, InLoan, AtLine
<1>9. status \in {"new", "pending"} => LeftLoan = {}
  BY <1>1, <1>2 DEF LeftLoan, Early
<1>10. status = "rejected" /\ (\A s \in Sessions : pc[s] \notin Closing) => LeftLoan = {}
  BY DEF LeftLoan
<1>11. ASSUME NEW s \in Sessions, pc[s] \in Closing
       PROVE  /\ LeftLoan = lines \ todo[s]
              /\ \A i \in Items : Back(i) = Of(LeftLoan \ {l \in Lines : AtLine(s, {"closeIn"}, l)}, i)
  <2>1. LeftLoan = lines \ todo[s]
    BY <1>4, <1>11 DEF LeftLoan, Closing
  <2>2. \A l \in Lines : \A i \in Items : CameAs(l, i) <=> Item[l] = i
    BY <1>2, <1>4, <1>11 DEF Early
  <2>3. \A l \in Lines : (\A t \in Sessions : ~ AtLine(t, {"closeIn", "in"}, l))
                              <=> ~ AtLine(s, {"closeIn"}, l)
    BY <1>4, <1>11 DEF AtLine, Closing
  <2> QED BY <1>1, <2>1, <2>2, <2>3 DEF Back, Of
<1>12. status = "closed" => LeftLoan = lines /\ \A i \in Items : Back(i) = Of(lines, i)
  <2> SUFFICES ASSUME status = "closed"
               PROVE  LeftLoan = lines /\ \A i \in Items : Back(i) = Of(lines, i)
    OBVIOUS
  <2>1. LeftLoan = lines
    BY DEF LeftLoan
  <2>2. \A t \in Sessions : pc[t] \notin {"closeIn", "in"}
    BY <1>4, WhoIsAtWork DEF Closing, Early
  <2>3. \A l \in Lines : \A i \in Items : CameAs(l, i) <=> Item[l] = i
    BY <1>2 DEF Early
  <2> QED BY <1>1, <2>1, <2>2, <2>3 DEF Back, Of, AtLine
<1>13. LeftLoan = {} => \A i \in Items : Back(i) = {}
  BY DEF Back
<1> QED BY <1>6, <1>7, <1>8, <1>9, <1>10, <1>11, <1>12, <1>13 DEF EarlySets

SameSets == /\ LeftStore' = LeftStore
            /\ InLoan' = InLoan
            /\ LeftLoan' = LeftLoan
            /\ \A i \in Items : Back(i)' = Back(i)

\* Steps of a request that does not move goods.
Aside == {"idle", "change", "save"}

SameRequest(s) == /\ pc'[s] = pc[s] /\ cur'[s] = cur[s] /\ ret'[s] = ret[s]
                  /\ todo'[s] = todo[s] /\ seen'[s] = seen[s] /\ page'[s] = page[s]

\* The marks stay when a page is saved.
LEMMA SaveMarks ==
    ASSUME OneWindow, TypeInv, Statuses, NEW s \in Sessions, Saved(s), lines' = lines,
           page'[s].dirty = {}, \A t \in Sessions \ {s} : page'[t] = page[t]
    PROVE  \A l \in Lines : /\ Marked(l)' <=> Marked(l)
                            /\ \A i \in Items : CameAs(l, i)' <=> CameAs(l, i)
<1>1. /\ page[s].dirty \subseteq Lines
      /\ \A t \in Sessions \ {s} : page[t].dirty \cap page[s].dirty = {}
  BY BorrowAssumption DEF Statuses, PageMine, OneWindow, TypeInv, TypeOK, BorrowAssumption
<1>2. line' = [l \in Lines |-> IF l \in page[s].dirty THEN page[s].line[l] ELSE line[l]]
  BY DEF Saved
<1>3. \A l \in page[s].dirty : line'[l].status = "returned"
  BY SavedKeeps
<1> SUFFICES ASSUME NEW l \in Lines
             PROVE  /\ Marked(l)' <=> Marked(l)
                    /\ \A i \in Items : CameAs(l, i)' <=> CameAs(l, i)
  OBVIOUS
<1>4. CASE l \in page[s].dirty
  <2>1. \A t \in Sessions : l \notin page'[t].dirty
    BY <1>1, <1>4
  <2>2. line'[l] = page[s].line[l] /\ line'[l].status = "returned"
    BY <1>2, <1>3, <1>4
  <2>3. \A t \in Sessions : l \in page[t].dirty => t = s
    BY <1>1, <1>4
  <2> QED BY <1>4, <2>1, <2>2, <2>3 DEF Marked, CameAs
<1>5. CASE l \notin page[s].dirty
  <2>1. line'[l] = line[l]
    BY <1>2, <1>5
  <2>2. \A t \in Sessions : l \in page'[t].dirty <=> l \in page[t].dirty
    BY <1>5
  <2>3. \A t \in Sessions : l \in page'[t].dirty => page'[t] = page[t]
    BY <1>5
  <2> QED BY <2>1, <2>2, <2>3 DEF Marked, CameAs
<1> QED BY <1>4, <1>5

\* So do the sets, when every request that moves goods stays where it is.
LEMMA SetsStay ==
    ASSUME TypeInv, lines' = lines,
           status' = status \/ {status, status'} \cap {"new", "rejected", "closed"} = {},
           \A s \in Sessions : SameRequest(s) \/ {pc[s], pc'[s]} \subseteq Aside,
           \A l \in Lines : /\ Marked(l)' <=> Marked(l)
                            /\ \A i \in Items : CameAs(l, i)' <=> CameAs(l, i)
    PROVE  SameSets
<1>1. lines \subseteq Lines
  BY DEF TypeInv, TypeOK
<1>2. \A s \in Sessions : \A l \in Lines :
         /\ (pc'[s] \in Lending /\ l \notin todo'[s]) <=> (pc[s] \in Lending /\ l \notin todo[s])
         /\ (pc'[s] \in Closing /\ l \notin todo'[s]) <=> (pc[s] \in Closing /\ l \notin todo[s])
         /\ AtLine(s, {"lendIn"}, l)' <=> AtLine(s, {"lendIn"}, l)
         /\ AtLine(s, {"asset", "out"}, l)' <=> AtLine(s, {"asset", "out"}, l)
         /\ AtLine(s, {"closeIn", "in"}, l)' <=> AtLine(s, {"closeIn", "in"}, l)
  BY DEF SameRequest, AtLine, Lending, Closing, Aside
<1>3. /\ status' = "new" <=> status = "new"
      /\ status' = "closed" <=> status = "closed"
      /\ status' = "rejected" <=> status = "rejected"
  OBVIOUS
<1>4. LeftStore' = LeftStore
  BY <1>1, <1>2, <1>3 DEF LeftStore
<1>5. InLoan' = InLoan
  BY <1>1, <1>2, <1>4 DEF InLoan, LeftStore
<1>6. LeftLoan' = LeftLoan
  BY <1>1, <1>2, <1>3 DEF LeftLoan
<1>7. \A i \in Items : Back(i)' = Back(i)
  BY <1>1, <1>2, <1>6 DEF Back, LeftLoan
<1> QED BY <1>4, <1>5, <1>6, <1>7 DEF SameSets

----------------------------------------------------------------------------
(* One line goes one stage further, and the goods with it.                 *)

\* A line enters one of the sets when a piece of item i moves.
Stage(l, room, i, a, n) ==
    \/ /\ room = "store" /\ n = -1 /\ i = Item[l] /\ a = Asset[l] /\ l \notin LeftStore
       /\ LeftStore' = LeftStore \cup {l}
       /\ InLoan' = InLoan /\ LeftLoan' = LeftLoan /\ \A j \in Items : Back(j)' = Back(j)
    \/ /\ room = "loan" /\ n = 1 /\ i = Item[l] /\ a = Asset[l] /\ l \notin InLoan \cup LeftLoan
       /\ InLoan' = InLoan \cup {l}
       /\ LeftStore' = LeftStore /\ LeftLoan' = LeftLoan /\ \A j \in Items : Back(j)' = Back(j)
    \/ /\ room = "loan" /\ n = -1 /\ i = Item[l] /\ a = Asset[l] /\ l \notin LeftLoan
       /\ LeftLoan' = LeftLoan \cup {l}
       /\ LeftStore' = LeftStore /\ InLoan' = InLoan /\ \A j \in Items : Back(j)' = Back(j)
    \/ /\ room = "store" /\ n = 1 /\ l \in LeftLoan \ Back(i)
       /\ Back(i)' = Back(i) \cup {l}
       /\ LeftStore' = LeftStore /\ InLoan' = InLoan /\ LeftLoan' = LeftLoan
       /\ \A j \in Items \ {i} : Back(j)' = Back(j)

\* The sets are finite, and a line that enters one adds to one item's count.
LEMMA CountOne ==
    ASSUME NEW S, IsFiniteSet(S), NEW l, l \notin S, NEW i
    PROVE  Cardinality(Of(S \cup {l}, i)) = Cardinality(Of(S, i)) + (IF Item[l] = i THEN 1 ELSE 0)
<1>1. IsFiniteSet(Of(S, i)) /\ l \notin Of(S, i)
  BY FS_Subset DEF Of
<1>2. CASE Item[l] = i
  <2>1. Of(S \cup {l}, i) = Of(S, i) \cup {l}
    BY <1>2 DEF Of
  <2> QED BY <1>1, <1>2, <2>1, FS_AddElement
<1>3. CASE Item[l] # i
  <2>1. Of(S \cup {l}, i) = Of(S, i)
    BY <1>3 DEF Of
  <2> QED BY <1>1, <1>3, <2>1, FS_CardinalityType
<1> QED BY <1>2, <1>3

LEMMA SetsFinite ==
    ASSUME TypeInv, NotReturned
    PROVE  /\ LeftStore \subseteq lines /\ InLoan \subseteq LeftStore /\ LeftLoan \subseteq lines
           /\ IsFiniteSet(LeftStore) /\ IsFiniteSet(InLoan) /\ IsFiniteSet(LeftLoan)
           /\ \A i \in Items : Back(i) \subseteq LeftLoan /\ IsFiniteSet(Back(i))
           /\ \A i \in Items : /\ Cardinality(Of(LeftStore, i)) \in Int
                               /\ Cardinality(Of(InLoan, i)) \in Int
                               /\ Cardinality(Of(LeftLoan, i)) \in Int
                               /\ Cardinality(Back(i)) \in Int
<1>1. /\ LeftStore \subseteq lines /\ InLoan \subseteq LeftStore /\ LeftLoan \subseteq lines
      /\ \A i \in Items : Back(i) \subseteq LeftLoan
  BY DEF LeftStore, InLoan, LeftLoan, Back
<1>2. \A S \in SUBSET lines : /\ IsFiniteSet(S)
                              /\ Cardinality(S) \in Int
                              /\ \A i : Of(S, i) \in SUBSET lines
  BY FS_Subset, FS_CardinalityType DEF NotReturned, Of
<1> QED BY <1>1, <1>2

\* The records count the lines after the movement, too.
LEMMA RecordsMove ==
    ASSUME TypeInv, NotReturned, RecordsCount, NEW room \in BorrowRooms, NEW i \in Items, NEW a,
           NEW n, NEW loc, NEW l \in Lines, Effect(room, i, a, n, loc), Stage(l, room, i, a, n)
    PROVE  RecordsCount'
<1>1. \A k \in Keys : invtrans[k] \in Int /\ invtrans'[k] = invtrans[k] + (IF k = <<room, i>> THEN n ELSE 0)
  BY DEF Effect, TypeInv, TypeOK
<1>2. \A j \in Items : /\ <<"store", j>> \in Keys /\ <<"loan", j>> \in Keys
                       /\ <<"store", j>> # <<"loan", i>> /\ <<"loan", j>> # <<"store", i>>
                       /\ <<"store", j>> = <<"store", i>> <=> j = i
                       /\ <<"loan", j>> = <<"loan", i>> <=> j = i
  BY DEF Keys, BorrowRooms
<1> SUFFICES ASSUME NEW j \in Items
             PROVE  /\ invtrans'[<<"store", j>>]
                          = Cardinality(Back(j)') - Cardinality(Of(LeftStore', j))
                    /\ invtrans'[<<"loan", j>>]
                          = Cardinality(Of(InLoan', j)) - Cardinality(Of(LeftLoan', j))
  BY DEF RecordsCount, Of
<1>3. /\ invtrans[<<"store", j>>] = Cardinality(Back(j)) - Cardinality(Of(LeftStore, j))
      /\ invtrans[<<"loan", j>>] = Cardinality(Of(InLoan, j)) - Cardinality(Of(LeftLoan, j))
  BY DEF RecordsCount
<1>4. /\ Cardinality(Of(LeftStore, j)) \in Int /\ Cardinality(Of(InLoan, j)) \in Int
      /\ Cardinality(Of(LeftLoan, j)) \in Int /\ Cardinality(Back(j)) \in Int
  BY SetsFinite
<1>5. CASE /\ room = "store" /\ n = -1 /\ i = Item[l] /\ l \notin LeftStore
           /\ LeftStore' = LeftStore \cup {l}
           /\ InLoan' = InLoan /\ LeftLoan' = LeftLoan /\ Back(j)' = Back(j)
  <2>1. Cardinality(Of(LeftStore', j))
           = Cardinality(Of(LeftStore, j)) + (IF i = j THEN 1 ELSE 0)
    BY <1>5, SetsFinite, CountOne
  <2> QED BY <1>1, <1>2, <1>3, <1>4, <1>5, <2>1
<1>6. CASE /\ room = "loan" /\ n = 1 /\ i = Item[l] /\ l \notin InLoan
           /\ InLoan' = InLoan \cup {l}
           /\ LeftStore' = LeftStore /\ LeftLoan' = LeftLoan /\ Back(j)' = Back(j)
  <2>1. Cardinality(Of(InLoan', j)) = Cardinality(Of(InLoan, j)) + (IF i = j THEN 1 ELSE 0)
    BY <1>6, SetsFinite, CountOne
  <2> QED BY <1>1, <1>2, <1>3, <1>4, <1>6, <2>1
<1>7. CASE /\ room = "loan" /\ n = -1 /\ i = Item[l] /\ l \notin LeftLoan
           /\ LeftLoan' = LeftLoan \cup {l}
           /\ LeftStore' = LeftStore /\ InLoan' = InLoan /\ Back(j)' = Back(j)
  <2>1. Cardinality(Of(LeftLoan', j)) = Cardinality(Of(LeftLoan, j)) + (IF i = j THEN 1 ELSE 0)
    BY <1>7, SetsFinite, CountOne
  <2> QED BY <1>1, <1>2, <1>3, <1>4, <1>7, <2>1
<1>8. CASE /\ room = "store" /\ n = 1 /\ l \notin Back(i)
           /\ Back(j)' = (IF j = i THEN Back(j) \cup {l} ELSE Back(j))
           /\ LeftStore' = LeftStore /\ InLoan' = InLoan /\ LeftLoan' = LeftLoan
  <2>1. Cardinality(Back(j)') = Cardinality(Back(j)) + (IF i = j THEN 1 ELSE 0)
    <3>1. IsFiniteSet(Back(j))
      BY SetsFinite
    <3>2. l \notin Back(j) => Cardinality(Back(j) \cup {l}) = Cardinality(Back(j)) + 1
      BY <3>1, FS_AddElement
    <3>3. CASE i = j
      BY <1>8, <3>2, <3>3
    <3>4. CASE i # j
      BY <1>4, <1>8, <3>4
    <3> QED BY <3>3, <3>4
  <2> QED BY <1>1, <1>2, <1>3, <1>4, <1>8, <2>1
<1> QED BY <1>5, <1>6, <1>7, <1>8 DEF Stage

\* No exchange part is one of the slip's.
LEMMA OwnAssets ==
    ASSUME Stocked, NEW l \in Lines, Asset[l] # NoAsset
    PROVE  /\ Asset[l] \in Assets \ Serials
           /\ Kind[Item[l]] = "SQN"
           /\ \A m \in Lines \ {l} : Asset[m] # Asset[l]
<1>1. Asset[l] \in Assets /\ Kind[Item[l]] = "SQN"
  BY BorrowAssumption DEF BorrowAssumption
<1>2. InitStock.asset[Asset[l]].exists
  <2>1. InitStock.asset[Asset[l]] = [exists |-> TRUE, location |-> "store"]
    BY DEF Stocked
  <2> QED BY <2>1
<1>3. \A a \in Serials : ~ InitStock.asset[a].exists
  BY DEF Stocked
<1>4. \A m \in Lines \ {l} : Asset[m] # Asset[l]
  BY DEF Stocked
<1> QED BY <1>1, <1>2, <1>3, <1>4

\* The asset moves with its line; an exchange part is no line's.
LEMMA AssetsMove ==
    ASSUME Stocked, TypeInv, NotReturned, AssetsFollow, NEW room \in BorrowRooms, NEW i \in Items,
           NEW a, NEW n \in {-1, 1}, NEW l \in Lines,
           Effect(room, i, a, n, IF n = 1 THEN room ELSE Nowhere), Stage(l, room, i, a, n),
           Kind[i] = "SQN" => a = Asset[l] \/ a \in Serials
    PROVE  AssetsFollow'
<1>1. InLoan \subseteq LeftStore
  BY SetsFinite
<1> SUFFICES ASSUME NEW m \in Lines, Asset[m] # NoAsset
             PROVE  stock'.asset[Asset[m]].location = "loan" <=> m \in InLoan' \ LeftLoan'
  BY DEF AssetsFollow
<1>2. /\ Asset[m] \in Assets \ Serials /\ Kind[Item[m]] = "SQN"
      /\ \A k \in Lines \ {m} : Asset[k] # Asset[m]
  BY OwnAssets
<1>3. stock.asset[Asset[m]].location = "loan" <=> m \in InLoan \ LeftLoan
  BY DEF AssetsFollow
<1>4. stock'.asset[Asset[m]].location
         = IF Kind[i] = "SQN" /\ Asset[m] = a THEN (IF n = 1 THEN room ELSE Nowhere)
           ELSE stock.asset[Asset[m]].location
  BY <1>2 DEF Effect
<1>5. CASE m # l
  <2>1. ~ (Kind[i] = "SQN" /\ Asset[m] = a)
    BY <1>2, <1>5
  <2>2. m \in InLoan' \ LeftLoan' <=> m \in InLoan \ LeftLoan
    BY <1>5 DEF Stage
  <2> QED BY <1>3, <1>4, <2>1, <2>2
<1>6. CASE m = l
  BY <1>1, <1>2, <1>3, <1>4, <1>6 DEF Stage, Nowhere
<1> QED BY <1>5, <1>6

\* Together: after a movement that finds its row and its asset, the rows
\* exist, the ledger explains the balances and the records count the lines.
LEMMA GoodsMove ==
    ASSUME Stocked, TypeInv, NotReturned, RowsExist, LedgerExplainsBalance, RecordsCount, AssetsFollow,
           ~ cut, NEW room \in BorrowRooms, NEW i \in Items, NEW a, NEW n \in {-1, 1},
           NEW l \in Lines, Effect(room, i, a, n, IF n = 1 THEN room ELSE Nowhere),
           Stage(l, room, i, a, n), Kind[i] = "SQN" => a = Asset[l] \/ a \in Serials
    PROVE  RowsExist' /\ LedgerExplainsBalance' /\ RecordsCount' /\ AssetsFollow'
<1>1. RecordsCount' /\ AssetsFollow'
  BY RecordsMove, AssetsMove
<1>2. LedgerExplainsBalance'
  <2> SUFFICES ASSUME NEW k \in Keys
               PROVE  /\ stock'.inventory[k].curbal = InitStock.inventory[k].curbal + invtrans'[k]
                      /\ Kind[k[2]] = "LOT" =>
                            stock'.invblance[k].qty = InitStock.invblance[k].qty + invtrans'[k]
    BY DEF LedgerExplainsBalance
  <2> DEFINE d == IF k = <<room, i>> THEN n ELSE 0
  <2>1. /\ stock'.inventory[k].curbal = stock.inventory[k].curbal + d
        /\ Kind[k[2]] = "LOT" => stock'.invblance[k].qty = stock.invblance[k].qty + d
        /\ invtrans'[k] = invtrans[k] + d
    BY DEF Effect
  <2>2. /\ stock.inventory[k].curbal = InitStock.inventory[k].curbal + invtrans[k]
        /\ Kind[k[2]] = "LOT" => stock.invblance[k].qty = InitStock.invblance[k].qty + invtrans[k]
    BY DEF LedgerExplainsBalance
  <2>3. /\ InitStock.inventory[k].curbal \in Int /\ InitStock.invblance[k].qty \in Int
        /\ invtrans[k] \in Int /\ d \in Int
    <3>1. InitStock.inventory \in [Keys -> Row] /\ InitStock.invblance \in [Keys -> Amount]
      BY BorrowAssumption, StockTables DEF BorrowAssumption
    <3> QED BY <3>1 DEF TypeInv, TypeOK, Row, Amount
  <2> HIDE DEF d
  <2> QED BY <2>1, <2>2, <2>3
<1>3. RowsExist'
  <2>1. \A r \in BorrowRooms, j \in Items : HasRow(r, j) => HasRow(r, j)'
    BY DEF Effect, HasRow, Keys
  <2>2. \A m \in Lines : Item[m] \in Items /\ (Asset[m] # NoAsset => Asset[m] \in Assets)
    BY BorrowAssumption DEF BorrowAssumption
  <2>3. \A m \in InLoan' : m \in InLoan \/ HasRow("loan", Item[m])'
    BY DEF Stage, Effect
  <2>4. InLoan \subseteq Lines
    BY SetsFinite DEF TypeInv, TypeOK
  <2>5. \A m \in Lines : /\ HasRow("store", Item[m])'
                         /\ Asset[m] # NoAsset => stock'.asset[Asset[m]].exists
    BY <2>1, <2>2 DEF RowsExist, Effect, BorrowRooms
  <2>6. \A m \in InLoan' : HasRow("loan", Item[m])'
    BY <2>1, <2>2, <2>3, <2>4 DEF RowsExist, BorrowRooms
  <2> QED BY <2>5, <2>6 DEF RowsExist
<1> QED BY <1>1, <1>2, <1>3

----------------------------------------------------------------------------
(* The steps.  First what comes back, and what has not.                    *)

LEMMA EarlySetsNext == TypeInv' /\ Statuses' /\ NotReturned' => EarlySets'
BY EarlySetsHold, PTL

LEMMA NotReturnedInit == Init => NotReturned
BY FS_EmptySet DEF Init, NotReturned

LEMMA NotReturnedNext ==
    ASSUME OneWindow, OneRoute, TypeInv, Statuses, NotReturned, [Next]_vars
    PROVE  NotReturned'
<1> USE DEF slipvars, goods, reqvars
<1>1. ASSUME line' = line, lines' = lines, status' \in Early => status \in Early PROVE NotReturned'
  BY <1>1 DEF NotReturned
<1>2. ASSUME NEW s \in Sessions, EditLines(s) PROVE NotReturned'
  <2>1. PICK l \in Lines : lines' \in {lines \cup {l}, lines \ {l}}
    BY <1>2 DEF EditLines
  <2>2. IsFiniteSet(lines')
    BY <2>1, FS_AddElement, FS_RemoveElement DEF NotReturned
  <2> QED BY <1>2, <2>2 DEF EditLines, NotReturned
<1>3. ASSUME NEW s \in Sessions, Saved(s), lines' = lines PROVE NotReturned'
  <2>1. /\ \A l \in Lines \ page[s].dirty : line'[l] = line[l]
        /\ \A l \in page[s].dirty : line'[l].status = "returned"
        /\ page[s].hdirty => status' \in Returned
        /\ ~ page[s].hdirty => status' = status
        /\ page[s].dirty # {} => status \notin Early
    BY <1>3, SavedKeeps, WhoIsAtWork
  <2>2. \A l \in Lines : line'[l].status = "notReturned" =>
           line[l].status = "notReturned" /\ line'[l] = line[l]
    BY <2>1
  <2>3. status' \in Early => status \in Early /\ page[s].dirty = {}
    BY <2>1 DEF Early, Returned
  <2> QED BY <1>3, <2>1, <2>2, <2>3 DEF NotReturned
<1>4. ASSUME NEW s \in Sessions, NEW step \in Lending \cup Closing, NEW new, SaveStatus(s, step, new)
      PROVE  NotReturned'
  <2>1. status \in Early
    BY <1>4, WhoIsAtWork DEF SaveStatus, At, Early
  <2> QED BY <1>1, <1>4, <2>1 DEF SaveStatus
<1>5. ASSUME NEW s \in Sessions, Move(s) PROVE NotReturned'
  <2>1. CASE LendSave(s) \/ CloseSave(s)
    BY <1>4, <2>1 DEF LendSave, CloseSave, Lending, Closing
  <2>2. CASE LendOut(s) \/ LendIn(s) \/ CloseOut(s) \/ CloseIn(s)
    BY <1>1, <2>2 DEF LendOut, LendIn, CloseOut, CloseIn, MoveOut, MoveIn
  <2> QED BY <1>5, <2>1, <2>2 DEF Move
<1>6. ASSUME NEW s \in Sessions, Return(s) PROVE NotReturned'
  <2>1. CASE SavePage(s)
    BY <1>3, <2>1 DEF SavePage
  <2>2. CASE ChangeStatus(s) \/ ChangeFails(s) \/ AddAsset(s) \/ ReturnOut(s) \/ ReturnIn(s)
    BY <1>1, <2>2 DEF ChangeStatus, ChangeFails, AddAsset, ReturnOut, ReturnIn
  <2> QED BY <1>6, <2>1, <2>2 DEF Return
<1>7. ASSUME NEW s \in Sessions, User(s) PROVE NotReturned'
  <2>1. CASE Renew(s)
    BY <1>3, <2>1 DEF Renew
  <2>2. CASE Submit(s) \/ Close(s) \/ Open(s) \/ PressSave(s)
    BY <1>1, <2>2 DEF Submit, Close, Open, PressSave
  <2>3. CASE \E l \in Lines : \E r \in Returns : Confirm(s, l, r)
    BY <1>1, <2>3 DEF Confirm
  <2> QED BY <1>2, <1>7, <2>1, <2>2, <2>3 DEF User
<1>8. ASSUME NEW s \in Sessions, Throws(s) \/ Crash(s) \/ Query(s) PROVE NotReturned'
  BY <1>1, <1>8 DEF Throws, Crash, Query
<1>9. ASSUME Decide \/ Later \/ CronRead \/ CronSave PROVE NotReturned'
  BY <1>1, <1>9 DEF Decide, Later, CronRead, CronSave, Early
<1>10. CASE UNCHANGED vars
  BY <1>1, <1>10 DEF vars
<1> QED BY <1>5, <1>6, <1>7, <1>8, <1>9, <1>10 DEF Next

\* What a request works on does not change while another one is at work.
LEMMA OthersWork ==
    ASSUME NEW t \in Sessions, SameRequest(t), lines' = lines, Working(t), PartBack(t),
           \A a \in Serials : stock'.asset[a].exists <=> stock.asset[a].exists
    PROVE  Working(t)' /\ PartBack(t)'
<1>1. Working(t)'
  BY DEF SameRequest, Working
<1>2. PartBack(t)'
  BY DEF SameRequest, PartBack
<1> QED BY <1>1, <1>2

LEMMA IdleWorks ==
    ASSUME TypeInv', NEW t \in Sessions, pc'[t] \in {"idle", "save"}
    PROVE  Working(t)' /\ PartBack(t)' /\ seen'[t] = NotRead
BY DEF Working, PartBack, Lending, Closing, TypeInv, AtWork, Moving

\* No other request's rows are among those a movement changes: it is alone, or
\* it moves an item of the other sort.
LEMMA OthersSee ==
    ASSUME RowsApart, TypeInv, Statuses, GoodsNow, NEW s \in Sessions, NEW room \in BorrowRooms,
           NEW i \in Items, NEW a, NEW n, NEW loc, Effect(room, i, a, n, loc),
           \A t \in Sessions \ {s} : SameRequest(t),
           \/ pc[s] \in Lending \cup Closing
           \/ /\ pc[s] \in {"out", "in"}
              /\ Kind[i] = "SQN" <=> Kind[Item[cur[s]]] = "SQN"
    PROVE  \A t \in Sessions \ {s} : SeenNow(t)'
<1> SUFFICES ASSUME NEW t \in Sessions \ {s}, seen[t] # NotRead PROVE SeenNow(t)'
  BY DEF SameRequest, SeenNow
<1>1. pc[t] \in Moving
  BY DEF TypeInv, AtWork
<1>2. pc[s] \notin Lending \cup Closing /\ pc[t] \notin Lending \cup Closing
  BY <1>1, WhoIsAtWork DEF Moving, Lending, Closing
<1>3. pc[t] \in {"out", "in"} /\ pc[s] \in {"out", "in"}
  BY <1>1, <1>2 DEF Moving, Lending, Closing
<1>4. /\ cur[s] \in MayReturn[s] /\ cur[t] \in MayReturn[t]
      /\ Kind[ret[t].item] = "SQN" <=> Kind[Item[cur[t]]] = "SQN"
  BY <1>3 DEF GoodsNow, Working, PartBack
<1>5. Kind[i] = "SQN" <=> Kind[Item[cur[t]]] # "SQN"
  BY <1>2, <1>4 DEF RowsApart
<1>6. /\ Item[cur[t]] \in Items /\ ret[t].item \in Items
      /\ Item[cur[t]] # i /\ ret[t].item # i
      /\ Asset[cur[t]] \in Assets \cup {NoAsset} /\ ret[t].asset \in Assets \cup {NoAsset}
  BY <1>3, <1>4, <1>5, BorrowAssumption DEF BorrowAssumption, TypeInv, TypeOK, AtWork, Returns
<1>7. \A j \in Items \ {i} : \A r \in BorrowRooms :
         /\ stock'.inventory[<<r, j>>] = stock.inventory[<<r, j>>]
         /\ stock'.invblance[<<r, j>>] = stock.invblance[<<r, j>>]
  <2>1. \A j \in Items \ {i} : \A r \in BorrowRooms : <<r, j>> \in Keys \ {<<room, i>>}
    BY DEF Keys
  <2> QED BY <2>1 DEF Effect
<1>8. \A b \in Assets \cup {NoAsset} : Known(stock', b) <=> Known(stock, b)
  BY DEF Known, Effect
<1>9. /\ SeenNow(t)
      /\ pc'[t] = pc[t] /\ cur'[t] = cur[t] /\ ret'[t] = ret[t] /\ seen'[t] = seen[t]
  BY DEF GoodsNow, SameRequest
<1>10. CASE pc[t] = "out"
  <2>1. Current(t, "loan", Item[cur[t]], Asset[cur[t]])
    BY <1>9, <1>10 DEF SeenNow
  <2>2. /\ stock'.inventory[<<"loan", Item[cur[t]]>>] = stock.inventory[<<"loan", Item[cur[t]]>>]
        /\ stock'.invblance[<<"loan", Item[cur[t]]>>] = stock.invblance[<<"loan", Item[cur[t]]>>]
        /\ Known(stock', Asset[cur[t]]) <=> Known(stock, Asset[cur[t]])
    BY <1>6, <1>7, <1>8 DEF BorrowRooms
  <2>3. Kind[Item[cur[t]]] = "SQN" => (Known(seen[t], Asset[cur[t]]) <=> Known(stock', Asset[cur[t]]))
    BY <2>1, <2>2 DEF Current
  <2>4. Current(t, "loan", Item[cur[t]], Asset[cur[t]])'
    BY <1>9, <2>1, <2>2, <2>3 DEF Current
  <2> QED BY <1>9, <1>10, <2>4 DEF SeenNow, Lending, Closing
<1>11. CASE pc[t] = "in"
  <2>1. Current(t, "store", ret[t].item, ret[t].asset)
    BY <1>9, <1>11 DEF SeenNow
  <2>2. /\ stock'.inventory[<<"store", ret[t].item>>] = stock.inventory[<<"store", ret[t].item>>]
        /\ stock'.invblance[<<"store", ret[t].item>>] = stock.invblance[<<"store", ret[t].item>>]
        /\ Known(stock', ret[t].asset) <=> Known(stock, ret[t].asset)
    BY <1>6, <1>7, <1>8 DEF BorrowRooms
  <2>3. Kind[ret[t].item] = "SQN" => (Known(seen[t], ret[t].asset) <=> Known(stock', ret[t].asset))
    BY <2>1, <2>2 DEF Current
  <2>4. Current(t, "store", ret[t].item, ret[t].asset)'
    BY <1>9, <2>1, <2>2, <2>3 DEF Current
  <2> QED BY <1>9, <1>11, <2>4 DEF SeenNow, Lending, Closing
<1> QED BY <1>3, <1>10, <1>11

\* A step that moves no goods.
LEMMA StepAside ==
    ASSUME GoodsNow, ~ cut, SameSets, goods' = goods,
           \A t \in Sessions :
              \/ SameRequest(t) /\ lines' = lines
              \/ /\ pc[t] \notin {"out", "in"}
                 /\ Working(t)' /\ PartBack(t)' /\ seen'[t] = NotRead
    PROVE  GoodsNow'
<1>1. stock' = stock /\ invtrans' = invtrans
  BY DEF goods
<1>2. \A t \in Sessions : Working(t)' /\ PartBack(t)'
  BY <1>1, OthersWork DEF GoodsNow
<1>3. \A t \in Sessions : SeenNow(t)'
  <2> SUFFICES ASSUME NEW t \in Sessions, seen'[t] # NotRead PROVE SeenNow(t)'
    BY DEF SeenNow
  <2>1. SeenNow(t) /\ SameRequest(t)
    BY DEF GoodsNow
  <2> QED BY <1>1, <2>1 DEF SameRequest, SeenNow, Current
<1>4. SerialsKept'
  <2> SUFFICES ASSUME NEW a \in Serials, stock'.asset[a].exists, stock'.asset[a].location # "store"
               PROVE  \E t \in Sessions : pc'[t] \in {"out", "in"} /\ ret'[t].asset = a
    BY DEF SerialsKept
  <2>1. PICK t \in Sessions : pc[t] \in {"out", "in"} /\ ret[t].asset = a
    BY <1>1 DEF GoodsNow, SerialsKept
  <2> QED BY <2>1 DEF SameRequest
<1>5. RowsExist' /\ LedgerExplainsBalance'
  BY <1>1 DEF GoodsNow, SameSets, RowsExist, HasRow, LedgerExplainsBalance
<1>6. RecordsCount'
  BY <1>1 DEF GoodsNow, SameSets, RecordsCount, Of
<1>7. AssetsFollow'
  BY <1>1 DEF GoodsNow, SameSets, AssetsFollow
<1> QED BY <1>2, <1>4, <1>5, <1>6, <1>7, <1>3 DEF GoodsNow

\* One line is moved, with the piece that was lent.
LEMMA OwnMove ==
    ASSUME Stocked, RowsApart, TypeInv, Statuses, NotReturned, GoodsNow, ~ cut, ~ cut',
           NEW s \in Sessions, lines' = lines, \A t \in Sessions \ {s} : SameRequest(t),
           NEW room \in BorrowRooms, NEW n \in {-1, 1},
           NEW l \in Lines, Stage(l, room, Item[l], Asset[l], n),
           Current(s, room, Item[l], Asset[l]),
           n = -1 => HasRow(room, Item[l]) /\ Out(s, room, Item[l], Asset[l]),
           n = 1 => In(s, room, Item[l], Asset[l]),
           Working(s)',
           \/ pc[s] \in Lending \cup Closing /\ pc'[s] \in Lending \cup Closing
           \/ /\ pc[s] = "out" /\ pc'[s] = "in" /\ l = cur[s]
              /\ cur'[s] = cur[s] /\ ret'[s] = ret[s]
    PROVE  GoodsNow'
<1>1. Item[l] \in Items /\ Asset[l] \in Assets \cup {NoAsset}
  BY BorrowAssumption DEF BorrowAssumption
<1>2. Kind[Item[l]] = "SQN" => Known(stock, Asset[l])
  BY BorrowAssumption DEF BorrowAssumption, GoodsNow, RowsExist, Known
<1>3. Effect(room, Item[l], Asset[l], n, IF n = 1 THEN room ELSE Nowhere)
  <2>1. CASE n = -1
    BY <1>1, <1>2, <2>1, OutEffect
  <2>2. CASE n = 1
    BY <1>1, <1>2, <2>2, InEffect
  <2> QED BY <2>1, <2>2
<1>4. RowsExist' /\ LedgerExplainsBalance' /\ RecordsCount' /\ AssetsFollow'
  BY <1>1, <1>3, GoodsMove DEF GoodsNow
<1>5. \A a \in Serials : /\ stock'.asset[a].exists <=> stock.asset[a].exists
                        /\ stock'.asset[a].location = stock.asset[a].location
  <2>1. \A a \in Serials : a \in Assets /\ a # Asset[l]
    BY BorrowAssumption, OwnAssets DEF BorrowAssumption
  <2> QED BY <1>3, <2>1 DEF Effect
<1>6. \A t \in Sessions : Working(t)' /\ PartBack(t)'
  <2>1. \A t \in Sessions \ {s} : Working(t)' /\ PartBack(t)'
    BY <1>5, OthersWork DEF GoodsNow
  <2>2. PartBack(s)'
    <3>1. CASE pc'[s] \in Lending \cup Closing
      BY <3>1 DEF PartBack, Lending, Closing
    <3>2. CASE pc[s] = "out" /\ pc'[s] = "in" /\ cur'[s] = cur[s] /\ ret'[s] = ret[s]
      BY <1>5, <3>2 DEF GoodsNow, PartBack
    <3> QED BY <3>1, <3>2
  <2> QED BY <2>1, <2>2
<1>7. SerialsKept'
  <2> SUFFICES ASSUME NEW a \in Serials, stock'.asset[a].exists, stock'.asset[a].location # "store"
               PROVE  \E t \in Sessions : pc'[t] \in {"out", "in"} /\ ret'[t].asset = a
    BY DEF SerialsKept
  <2>1. PICK t \in Sessions : pc[t] \in {"out", "in"} /\ ret[t].asset = a
    BY <1>5 DEF GoodsNow, SerialsKept
  <2>2. t = s => pc'[t] = "in" /\ ret'[t] = ret[t]
    BY <2>1 DEF Lending, Closing
  <2> QED BY <2>1, <2>2 DEF SameRequest
<1>8. \A t \in Sessions : SeenNow(t)'
  <2>1. seen'[s] = NotRead
    <3>1. Out(s, room, Item[l], Asset[l]) \/ In(s, room, Item[l], Asset[l])
      OBVIOUS
    <3> QED BY <1>1, <3>1, GoodsType DEF TypeInv, TypeOK
  <2>2. \A t \in Sessions \ {s} : SeenNow(t)'
    BY <1>1, <1>3, OthersSee
  <2> QED BY <2>1, <2>2 DEF SeenNow
<1> QED BY <1>4, <1>6, <1>7, <1>8 DEF GoodsNow

----------------------------------------------------------------------------
(* Lending and closing, line by line.                                      *)

LEMMA LendStep ==
    ASSUME Stocked, RowsApart, TypeInv, Statuses, NotReturned, GoodsNow, ~ cut, ~ cut',
           EarlySets, EarlySets',
           NEW s \in Sessions, LendOut(s) \/ LendIn(s)
    PROVE  GoodsNow'
<1> USE DEF slipvars, reqvars
<1>1. lines' = lines /\ \A t \in Sessions \ {s} : SameRequest(t)
  BY DEF LendOut, LendIn, MoveOut, MoveIn, Out, In, Moved, Goto, SameRequest, TypeInv, TypeOK
<1>2. lines \subseteq Lines /\ todo[s] \subseteq Lines
  BY DEF TypeInv, TypeOK
<1>3. pc[s] \in Lending /\ pc'[s] \in Lending /\ status = "new" /\ status' = "new"
  <2>1. pc[s] \in Lending /\ pc'[s] \in Lending /\ status' = status
    BY DEF LendOut, LendIn, MoveOut, MoveIn, At, Goto, Lending, TypeInv, TypeOK
  <2> QED BY <2>1, WhoIsAtWork
<1>4. /\ LeftStore = lines \ todo[s] /\ InLoan = LeftStore \ {l \in Lines : AtLine(s, {"lendIn"}, l)}
      /\ LeftLoan = {} /\ \A i \in Items : Back(i) = {}
      /\ LeftStore' = lines \ todo'[s]
      /\ InLoan' = LeftStore' \ {l \in Lines : pc'[s] = "lendIn" /\ cur'[s] = l}
      /\ LeftLoan' = {} /\ \A i \in Items : Back(i)' = {}
  BY <1>1, <1>3 DEF EarlySets, AtLine
<1>5. \A l \in Lines, room \in BorrowRooms :
         Out(s, room, Item[l], Asset[l]) \/ In(s, room, Item[l], Asset[l])
            => Current(s, room, Item[l], Asset[l])
  <2>1. seen[s] # NotRead => seen[s] = stock
    BY <1>3 DEF GoodsNow, SeenNow
  <2> QED BY <2>1 DEF Out, In, Current
<1>6. CASE LendOut(s)
  <2>1. PICK l \in todo[s] : /\ Out(s, "store", Item[l], Asset[l])
                             /\ cur' = [cur EXCEPT ![s] = l]
                             /\ todo' = [todo EXCEPT ![s] = @ \ {l}]
    BY <1>6 DEF LendOut, MoveOut
  <2>2. pc[s] = "lendOut" /\ pc'[s] = "lendIn" /\ cur'[s] = l /\ todo'[s] = todo[s] \ {l}
    BY <1>6, <2>1 DEF LendOut, MoveOut, At, TypeInv, TypeOK
  <2>3. l \in Lines /\ l \in lines /\ todo[s] \subseteq lines
    BY <1>2, <1>3 DEF GoodsNow, Working
  <2>4. Stage(l, "store", Item[l], Asset[l], -1)
    BY <1>2, <1>4, <2>2, <2>3 DEF Stage, AtLine
  <2>5. Working(s)'
    BY <1>1, <2>2, <2>3 DEF Working, Lending
  <2>6. HasRow("store", Item[l])
    BY <2>3 DEF GoodsNow, RowsExist
  <2> QED BY <1>1, <1>3, <1>5, <2>1, <2>2, <2>3, <2>4, <2>5, <2>6, OwnMove DEF BorrowRooms
<1>7. CASE LendIn(s)
  <2> DEFINE l == cur[s]
  <2>1. /\ In(s, "loan", Item[l], Asset[l])
        /\ pc[s] = "lendIn" /\ pc'[s] = (IF todo[s] = {} THEN "lendSave" ELSE "lendOut")
        /\ cur'[s] = l /\ todo'[s] = todo[s]
    BY <1>7 DEF LendIn, MoveIn, At, Goto, TypeInv, TypeOK
  <2>2. l \in Lines /\ l \in lines \ todo[s] /\ todo[s] \subseteq lines
    BY <1>2, <1>3, <2>1 DEF GoodsNow, Working
  <2>3. Stage(l, "loan", Item[l], Asset[l], 1)
    BY <1>2, <1>4, <2>1, <2>2 DEF Stage, AtLine
  <2>4. Working(s)'
    BY <1>1, <2>1, <2>2 DEF Working, Lending
  <2> QED BY <1>1, <1>3, <1>5, <2>1, <2>2, <2>3, <2>4, OwnMove DEF BorrowRooms
<1> QED BY <1>6, <1>7

LEMMA CloseStep ==
    ASSUME Stocked, RowsApart, TypeInv, Statuses, NotReturned, GoodsNow, ~ cut, ~ cut',
           EarlySets, EarlySets',
           NEW s \in Sessions, CloseOut(s) \/ CloseIn(s)
    PROVE  GoodsNow'
<1> USE DEF slipvars, reqvars
<1>1. lines' = lines /\ \A t \in Sessions \ {s} : SameRequest(t)
  BY DEF CloseOut, CloseIn, MoveOut, MoveIn, Out, In, Moved, Goto, SameRequest, TypeInv, TypeOK
<1>2. lines \subseteq Lines /\ todo[s] \subseteq Lines
  BY DEF TypeInv, TypeOK
<1>3. pc[s] \in Closing /\ pc'[s] \in Closing /\ status = "rejected" /\ status' = "rejected"
  <2>1. pc[s] \in Closing /\ pc'[s] \in Closing /\ status' = status
    BY DEF CloseOut, CloseIn, MoveOut, MoveIn, At, Goto, Closing, TypeInv, TypeOK
  <2> QED BY <2>1, WhoIsAtWork
<1>4. /\ LeftStore = lines /\ InLoan = lines /\ LeftLoan = lines \ todo[s]
      /\ \A i \in Items : Back(i) = Of(LeftLoan \ {l \in Lines : AtLine(s, {"closeIn"}, l)}, i)
      /\ LeftStore' = lines /\ InLoan' = lines /\ LeftLoan' = lines \ todo'[s]
      /\ \A i \in Items :
            Back(i)' = Of(LeftLoan' \ {l \in Lines : pc'[s] = "closeIn" /\ cur'[s] = l}, i)
  <2>1. status \in Early \ {"new"} /\ status' \in Early \ {"new"}
    BY <1>3 DEF Early
  <2> QED BY <1>1, <1>3, <2>1 DEF EarlySets, AtLine, Of
<1>5. \A l \in Lines, room \in BorrowRooms :
         Out(s, room, Item[l], Asset[l]) \/ In(s, room, Item[l], Asset[l])
            => Current(s, room, Item[l], Asset[l])
  <2>1. seen[s] # NotRead => seen[s] = stock
    BY <1>3 DEF GoodsNow, SeenNow
  <2> QED BY <2>1 DEF Out, In, Current
<1>6. CASE CloseOut(s)
  <2>1. PICK l \in todo[s] : /\ Out(s, "loan", Item[l], Asset[l])
                             /\ cur' = [cur EXCEPT ![s] = l]
                             /\ todo' = [todo EXCEPT ![s] = @ \ {l}]
    BY <1>6 DEF CloseOut, MoveOut
  <2>2. pc[s] = "closeOut" /\ pc'[s] = "closeIn" /\ cur'[s] = l /\ todo'[s] = todo[s] \ {l}
    BY <1>6, <2>1 DEF CloseOut, MoveOut, At, TypeInv, TypeOK
  <2>3. l \in Lines /\ l \in lines /\ todo[s] \subseteq lines
    BY <1>2, <1>3 DEF GoodsNow, Working
  <2>4. \A i \in Items : Back(i)' = Back(i)
    BY <1>2, <1>4, <2>2, <2>3 DEF Of, AtLine
  <2>5. Stage(l, "loan", Item[l], Asset[l], -1)
    BY <1>2, <1>4, <2>2, <2>3, <2>4 DEF Stage
  <2>6. Working(s)'
    BY <1>1, <2>2, <2>3 DEF Working, Closing
  <2>7. HasRow("loan", Item[l])
    BY <1>4, <2>3 DEF GoodsNow, RowsExist
  <2> QED BY <1>1, <1>3, <1>5, <2>1, <2>2, <2>3, <2>5, <2>6, <2>7, OwnMove DEF BorrowRooms
<1>7. CASE CloseIn(s)
  <2> DEFINE l == cur[s]
  <2>1. /\ In(s, "store", Item[l], Asset[l])
        /\ pc[s] = "closeIn" /\ pc'[s] = (IF todo[s] = {} THEN "closeSave" ELSE "closeOut")
        /\ cur'[s] = l /\ todo'[s] = todo[s]
    BY <1>7 DEF CloseIn, MoveIn, At, Goto, TypeInv, TypeOK
  <2>2. l \in Lines /\ l \in lines \ todo[s] /\ todo[s] \subseteq lines
    BY <1>2, <1>3, <2>1 DEF GoodsNow, Working
  <2>3. \A i \in Items : /\ Back(i) = Of(LeftLoan \ {l}, i)
                         /\ Back(i)' = Of(LeftLoan, i)
    BY <1>2, <1>4, <2>1, <2>2 DEF Of, AtLine
  <2>4. Item[l] \in Items
    BY <2>2, BorrowAssumption DEF BorrowAssumption
  <2>5. Stage(l, "store", Item[l], Asset[l], 1)
    <3>1. LeftStore' = LeftStore /\ InLoan' = InLoan /\ LeftLoan' = LeftLoan /\ l \in LeftLoan
      BY <1>4, <2>1, <2>2
    <3>2. \A i \in Items : i = Item[l] => l \notin Back(i) /\ Back(i)' = Back(i) \cup {l}
      BY <2>3, <3>1 DEF Of
    <3>3. l \notin Back(Item[l]) /\ Back(Item[l])' = Back(Item[l]) \cup {l}
      BY <2>1, <2>4, <3>2
    <3>4. \A j \in Items \ {Item[l]} : Back(j)' = Back(j)
      BY <2>3 DEF Of
    <3> QED BY <3>1, <3>3, <3>4 DEF Stage
  <2>6. Working(s)'
    BY <1>1, <2>1, <2>2 DEF Working, Closing
  <2> QED BY <1>1, <1>3, <1>5, <2>1, <2>2, <2>5, <2>6, OwnMove DEF BorrowRooms
<1> QED BY <1>6, <1>7

----------------------------------------------------------------------------
(* The return of a line.                                                   *)

\* Nobody else works on the line, or has it on a modified page.
LEMMA Alone ==
    ASSUME OneWindow, Statuses, GoodsNow, NEW s \in Sessions,
           pc[s] \in {"change", "asset", "out", "in"}
    PROVE  /\ status \notin Early
           /\ cur[s] \in lines \cap MayReturn[s]
           /\ \A t \in Sessions \ {s} :
                /\ cur[s] \notin page[t].dirty
                /\ ~ (pc[t] \in {"change", "asset", "out", "in"} /\ cur[t] = cur[s])
           /\ \A t \in Sessions : pc[t] \notin Lending \cup Closing
<1>1. status \notin Early
  BY WhoIsAtWork
<1>2. \A t \in Sessions : pc[t] \in {"change", "asset", "out", "in"} => cur[t] \in lines \cap MayReturn[t]
  BY DEF GoodsNow, Working
<1>3. \A t \in Sessions : page[t].dirty \subseteq MayReturn[t]
  BY DEF Statuses, PageMine
<1>4. \A t \in Sessions : pc[t] \notin Lending \cup Closing
  BY <1>1, WhoIsAtWork DEF Early
<1> QED BY <1>1, <1>2, <1>3, <1>4 DEF OneWindow

\* The sets while parts can come back.
LEMMA LateSets ==
    ASSUME status \notin Early
    PROVE  /\ LeftStore = lines
           /\ InLoan = {l \in lines : \A t \in Sessions : ~ AtLine(t, {"lendIn"}, l)}
           /\ LeftLoan = {l \in lines : /\ Marked(l)
                                       /\ \A t \in Sessions : ~ AtLine(t, {"asset", "out"}, l)}
BY DEF LeftStore, InLoan, LeftLoan, Early

LEMMA ReturnOutStep ==
    ASSUME OneWindow, Stocked, RowsApart, TypeInv, Statuses, NotReturned, GoodsNow, ~ cut, ~ cut',
           NEW s \in Sessions, ReturnOut(s)
    PROVE  GoodsNow'
<1> USE DEF slipvars, reqvars
<1> DEFINE l == cur[s]
<1>1. /\ lines' = lines /\ page' = page /\ line' = line /\ status' = status /\ cur' = cur
      /\ \A t \in Sessions \ {s} : SameRequest(t)
      /\ Out(s, "loan", Item[l], Asset[l])
      /\ pc[s] = "out" /\ pc'[s] = "in" /\ ret'[s] = ret[s]
  BY DEF ReturnOut, Out, Moved, At, Goto, SameRequest, TypeInv, TypeOK
<1>2. /\ status \notin Early /\ l \in lines \cap MayReturn[s]
      /\ \A t \in Sessions \ {s} : ~ (pc[t] \in {"asset", "out", "in"} /\ cur[t] = l)
      /\ \A t \in Sessions : pc[t] \notin Lending \cup Closing
  BY <1>1, Alone
<1>3. l \in Lines /\ lines \subseteq Lines
  BY <1>2 DEF TypeInv, TypeOK
<1>4. l \in page[s].dirty
  BY <1>1 DEF GoodsNow, Working
<1>5. \A m \in Lines : Marked(m)' = Marked(m) /\ \A i \in Items : CameAs(m, i)' = CameAs(m, i)
  BY <1>1 DEF Marked, CameAs
<1>6. \A t \in Sessions : \A m \in Lines :
         /\ AtLine(t, {"lendIn"}, m)' <=> AtLine(t, {"lendIn"}, m)
         /\ AtLine(t, {"asset", "out"}, m)' <=> t # s /\ AtLine(t, {"asset", "out"}, m)
         /\ AtLine(s, {"asset", "out"}, m) <=> m = l
         /\ AtLine(t, {"closeIn", "in"}, m)' <=> (t = s /\ m = l) \/ AtLine(t, {"closeIn", "in"}, m)
  BY <1>1 DEF AtLine, SameRequest
<1>7. \A t \in Sessions \ {s} : ~ AtLine(t, {"asset", "out"}, l)
  BY <1>2 DEF AtLine
<1>8. LeftStore' = LeftStore /\ InLoan' = InLoan /\ InLoan = lines
  BY <1>1, <1>2, <1>3, <1>6 DEF LeftStore, InLoan, Early, AtLine, Lending
<1>9. l \notin LeftLoan /\ LeftLoan' = LeftLoan \cup {l}
  <2>1. Marked(l)
    BY <1>4 DEF Marked
  <2>2. LeftLoan = {m \in lines : Marked(m) /\ \A t \in Sessions : ~ AtLine(t, {"asset", "out"}, m)}
    BY <1>2, LateSets
  <2>3. LeftLoan' = {m \in lines : Marked(m) /\ \A t \in Sessions \ {s} : ~ AtLine(t, {"asset", "out"}, m)}
    BY <1>1, <1>2, <1>3, <1>5, <1>6 DEF LeftLoan, Early
  <2> QED BY <1>2, <1>3, <1>6, <1>7, <2>1, <2>2, <2>3
<1>10. \A i \in Items : Back(i)' = Back(i)
  <2> SUFFICES ASSUME NEW i \in Items PROVE Back(i)' = Back(i)
    OBVIOUS
  <2>1. Back(i)' = {m \in LeftLoan' : CameAs(m, i)' /\ \A t \in Sessions : ~ AtLine(t, {"closeIn", "in"}, m)'}
    BY DEF Back
  <2>2. LeftLoan' \subseteq Lines
    BY <1>1, <1>3 DEF LeftLoan
  <2> QED BY <1>3, <1>5, <1>6, <1>9, <2>1, <2>2 DEF Back
<1>11. Stage(l, "loan", Item[l], Asset[l], -1)
  BY <1>8, <1>9, <1>10 DEF Stage
<1>12. Working(s)'
  BY <1>1 DEF GoodsNow, Working, Lending, Closing
<1>13. HasRow("loan", Item[l])
  BY <1>2, <1>8 DEF GoodsNow, RowsExist
<1>14. Current(s, "loan", Item[l], Asset[l])
  BY <1>1 DEF GoodsNow, SeenNow, Out
<1>15. cur'[s] = cur[s] /\ l = cur[s]
  BY <1>1
<1> HIDE DEF l
<1> QED BY <1>1, <1>3, <1>11, <1>12, <1>13, <1>15, <1>14, OwnMove DEF BorrowRooms

LEMMA ReturnInStep ==
    ASSUME OneWindow, Stocked, RowsApart, TypeInv, TypeInv', Statuses, NotReturned, GoodsNow,
           ~ cut, ~ cut',
           NEW s \in Sessions, ReturnIn(s)
    PROVE  GoodsNow'
<1> USE DEF slipvars, reqvars
<1> DEFINE l == cur[s]
           a == ret[s].asset
<1>1. PICK i \in Items : i = ret[s].item
  BY DEF TypeInv, TypeOK, Returns
<1>2. /\ lines' = lines /\ page' = page /\ line' = line /\ status' = status /\ cur' = cur
      /\ \A t \in Sessions \ {s} : SameRequest(t)
      /\ In(s, "store", i, a)
      /\ pc[s] = "in" /\ pc'[s] = "save"
  BY <1>1 DEF ReturnIn, In, Moved, At, Goto, SameRequest, TypeInv, TypeOK
<1>3. /\ status \notin Early /\ l \in lines
      /\ \A t \in Sessions \ {s} : /\ l \notin page[t].dirty
                                   /\ ~ (pc[t] \in {"asset", "out", "in"} /\ cur[t] = l)
      /\ \A t \in Sessions : pc[t] \notin Lending \cup Closing
  BY <1>2, Alone
<1>4. l \in Lines /\ lines \subseteq Lines /\ i \in Items /\ a \in Assets \cup {NoAsset}
  BY <1>3 DEF TypeInv, TypeOK, Returns
<1>5. l \in page[s].dirty /\ page[s].line[l].newitem = i
  BY <1>1, <1>2 DEF GoodsNow, Working
<1>6. /\ Kind[i] = "SQN" <=> Kind[Item[l]] = "SQN"
      /\ Kind[Item[l]] = "SQN" => a = Asset[l] \/ a \in Serials
      /\ a \in Serials => stock.asset[a].exists
  BY <1>1, <1>2 DEF GoodsNow, PartBack
<1>7. Kind[i] = "SQN" => Known(stock, a)
  <2>1. Kind[Item[l]] = "SQN" => Asset[l] # NoAsset /\ stock.asset[Asset[l]].exists
    BY <1>4, BorrowAssumption DEF BorrowAssumption, GoodsNow, RowsExist
  <2>2. NoAsset \notin Serials
    BY BorrowAssumption DEF BorrowAssumption
  <2> QED BY <1>6, <2>1, <2>2 DEF Known
<1>8. Effect("store", i, a, 1, "store")
  <2>1. Current(s, "store", i, a)
    BY <1>1, <1>2 DEF GoodsNow, SeenNow, In
  <2> HIDE DEF a
  <2> QED BY <1>2, <1>4, <1>7, <2>1, InEffect DEF BorrowRooms
<1>9. \A m \in Lines : Marked(m)' = Marked(m) /\ \A j \in Items : CameAs(m, j)' = CameAs(m, j)
  BY <1>2 DEF Marked, CameAs
<1>10. \A t \in Sessions : \A m \in Lines :
         /\ AtLine(t, {"lendIn"}, m)' <=> AtLine(t, {"lendIn"}, m)
         /\ AtLine(t, {"asset", "out"}, m)' <=> AtLine(t, {"asset", "out"}, m)
         /\ AtLine(t, {"closeIn", "in"}, m)' <=> t # s /\ AtLine(t, {"closeIn", "in"}, m)
         /\ AtLine(s, {"closeIn", "in"}, m) <=> m = l
  BY <1>2 DEF AtLine, SameRequest
<1>11. /\ \A t \in Sessions : ~ AtLine(t, {"asset", "out"}, l)
       /\ \A t \in Sessions \ {s} : ~ AtLine(t, {"closeIn", "in"}, l)
  BY <1>2, <1>3 DEF AtLine, Closing
<1>12. LeftStore' = LeftStore /\ InLoan' = InLoan
  BY <1>2, <1>3, <1>4, <1>10 DEF LeftStore, InLoan, Early, AtLine, Lending
<1>13. LeftLoan' = LeftLoan /\ l \in LeftLoan
  <2>1. LeftLoan = {m \in lines : Marked(m) /\ \A t \in Sessions : ~ AtLine(t, {"asset", "out"}, m)}
    BY <1>3, LateSets
  <2>2. LeftLoan' = LeftLoan
    BY <1>2, <1>3, <1>4, <1>9, <1>10, <2>1 DEF LeftLoan, Early
  <2>3. Marked(l)
    BY <1>5 DEF Marked
  <2> QED BY <1>3, <1>11, <2>1, <2>2, <2>3
<1>14. \A j \in Items : CameAs(l, j) <=> j = i
  BY <1>3, <1>5 DEF CameAs
<1>15. /\ l \notin Back(i) /\ Back(i)' = Back(i) \cup {l}
       /\ \A j \in Items \ {i} : Back(j)' = Back(j)
  <2>1. LeftLoan \subseteq Lines
    BY <1>4 DEF LeftLoan
  <2>2. \A j \in Items : Back(j)' = {m \in LeftLoan : CameAs(m, j) /\
                              \A t \in Sessions \ {s} : ~ AtLine(t, {"closeIn", "in"}, m)}
    <3> SUFFICES ASSUME NEW j \in Items
                 PROVE  Back(j)' = {m \in LeftLoan : CameAs(m, j) /\
                              \A t \in Sessions \ {s} : ~ AtLine(t, {"closeIn", "in"}, m)}
      OBVIOUS
    <3>1. Back(j)' = {m \in LeftLoan' : CameAs(m, j)' /\
                              \A t \in Sessions : ~ AtLine(t, {"closeIn", "in"}, m)'}
      BY DEF Back
    <3> HIDE DEF l, a
    <3> QED BY <1>9, <1>10, <1>13, <2>1, <3>1
  <2>3. \A j \in Items : Back(j) = {m \in LeftLoan : CameAs(m, j) /\ m # l /\
                              \A t \in Sessions \ {s} : ~ AtLine(t, {"closeIn", "in"}, m)}
    <3> HIDE DEF l, a
    <3> QED BY <1>10, <2>1 DEF Back
  <2>4. l \notin Back(i)
    BY <1>4, <2>3
  <2>5. Back(i)' = Back(i) \cup {l}
    <3> HIDE DEF l, a
    <3> QED BY <1>4, <1>11, <1>13, <1>14, <2>2, <2>3
  <2>6. \A j \in Items \ {i} : Back(j)' = Back(j)
    <3> HIDE DEF l, a
    <3> QED BY <1>4, <1>14, <2>2, <2>3
  <2> QED BY <2>4, <2>5, <2>6
<1>16. Stage(l, "store", i, a, 1)
  BY <1>12, <1>13, <1>15 DEF Stage
<1>17. RowsExist' /\ LedgerExplainsBalance' /\ RecordsCount' /\ AssetsFollow'
  <2> HIDE DEF l, a
  <2> QED BY <1>4, <1>6, <1>8, <1>16, GoodsMove DEF GoodsNow, BorrowRooms
<1>18. /\ \A b \in Serials : stock'.asset[b].exists <=> stock.asset[b].exists
       /\ \A b \in Serials : stock'.asset[b].location = IF b = a THEN "store"
                                                       ELSE stock.asset[b].location
  <2>1. Serials \subseteq Assets
    BY BorrowAssumption DEF BorrowAssumption
  <2>2. a \in Serials => Kind[i] = "SQN"
    <3>1. Kind[Item[l]] # "SQN" => a = NoAsset
      BY <1>1, <1>2 DEF GoodsNow, PartBack
    <3> QED BY <1>6, <2>1, <3>1, BorrowAssumption DEF BorrowAssumption
  <2> HIDE DEF l, a
  <2> QED BY <1>8, <2>1, <2>2 DEF Effect
<1>19. \A t \in Sessions : Working(t)' /\ PartBack(t)' /\ SeenNow(t)'
  <2>1. Working(s)' /\ PartBack(s)' /\ SeenNow(s)'
    BY <1>2, IdleWorks DEF SeenNow
  <2>2. \A t \in Sessions \ {s} : Working(t)' /\ PartBack(t)'
    <3> HIDE DEF l, a
    <3> QED BY <1>2, <1>18, OthersWork DEF GoodsNow
  <2>3. \A t \in Sessions \ {s} : SeenNow(t)'
    <3>1. pc[s] \in {"out", "in"} /\ (Kind[i] = "SQN" <=> Kind[Item[cur[s]]] = "SQN")
      BY <1>2, <1>6
    <3> HIDE DEF l, a
    <3> QED BY <1>2, <1>8, <3>1, OthersSee DEF BorrowRooms
  <2> QED BY <2>1, <2>2, <2>3
<1>20. SerialsKept'
  <2> SUFFICES ASSUME NEW b \in Serials, stock'.asset[b].exists, stock'.asset[b].location # "store"
               PROVE  \E t \in Sessions : pc'[t] \in {"out", "in"} /\ ret'[t].asset = b
    BY DEF SerialsKept
  <2>1. b # a /\ stock.asset[b].exists /\ stock.asset[b].location # "store"
    BY <1>18
  <2>2. PICK t \in Sessions : pc[t] \in {"out", "in"} /\ ret[t].asset = b
    BY <2>1 DEF GoodsNow, SerialsKept
  <2>3. t # s
    BY <2>1, <2>2
  <2> QED BY <1>2, <2>2, <2>3 DEF SameRequest
<1> QED BY <1>17, <1>19, <1>20 DEF GoodsNow

LEMMA ChangeStep ==
    ASSUME OneWindow, TypeInv, Statuses, NotReturned, GoodsNow, ~ cut,
           NEW s \in Sessions, ChangeStatus(s)
    PROVE  GoodsNow'
<1> USE DEF slipvars, reqvars
<1> DEFINE l == cur[s]
           n == IF ret[s].asset = Asset[l] \/ ret[s].asset = NoAsset THEN "out" ELSE "asset"
<1>1. /\ lines' = lines /\ line' = line /\ status' = status /\ cur' = cur /\ goods' = goods
      /\ \A t \in Sessions \ {s} : SameRequest(t) /\ page'[t] = page[t]
      /\ pc[s] = "change" /\ pc'[s] = n /\ ret' = ret /\ todo' = todo
  BY DEF ChangeStatus, Marking, At, Goto, SameRequest, TypeInv, TypeOK
<1>2. /\ status \notin Early /\ l \in lines \cap MayReturn[s]
      /\ \A t \in Sessions \ {s} : /\ l \notin page[t].dirty
                                   /\ ~ (pc[t] \in {"asset", "out", "in"} /\ cur[t] = l)
      /\ \A t \in Sessions : pc[t] \notin Lending \cup Closing
  BY <1>1, Alone
<1>3. l \in Lines /\ lines \subseteq Lines
  BY <1>2 DEF TypeInv, TypeOK
<1>4. l \notin page[s].dirty /\ line[l].status # "returned"
  BY <1>1 DEF Statuses, ToChange
<1>5. /\ page'[s].dirty = page[s].dirty \cup {l}
      /\ page'[s].line = [page[s].line EXCEPT ![l] = [status |-> "returned", newitem |-> ret[s].item]]
  BY DEF ChangeStatus, Marking, TypeInv, TypeOK
<1>6. /\ page'[s].line[l].newitem = ret[s].item
      /\ \A m \in Lines \ {l} : page'[s].line[m] = page[s].line[m]
  BY <1>3, <1>5 DEF TypeInv, TypeOK
<1>7. n \in {"out", "asset"}
  OBVIOUS
<1>8. \A m \in Lines \ {l} : /\ Marked(m)' = Marked(m)
                            /\ \A j \in Items : CameAs(m, j)' <=> CameAs(m, j)
  <2> SUFFICES ASSUME NEW m \in Lines \ {l}
               PROVE  /\ Marked(m)' = Marked(m)
                      /\ \A j \in Items : CameAs(m, j)' <=> CameAs(m, j)
    OBVIOUS
  <2>1. \A t \in Sessions : /\ m \in page'[t].dirty <=> m \in page[t].dirty
                           /\ page'[t].line[m] = page[t].line[m]
    BY <1>1, <1>5, <1>6
  <2> HIDE DEF l, n
  <2> QED BY <1>1, <2>1 DEF Marked, CameAs
<1>9. \A t \in Sessions : \A m \in Lines :
         /\ AtLine(t, {"lendIn"}, m)' <=> AtLine(t, {"lendIn"}, m)
         /\ AtLine(t, {"asset", "out"}, m)' <=> (t = s /\ m = l) \/ AtLine(t, {"asset", "out"}, m)
         /\ AtLine(t, {"closeIn", "in"}, m)' <=> AtLine(t, {"closeIn", "in"}, m)
  BY <1>1, <1>7 DEF AtLine, SameRequest
<1> HIDE DEF n
<1>10. LeftStore' = LeftStore /\ InLoan' = InLoan
  BY <1>1, <1>2, <1>3, <1>9 DEF LeftStore, InLoan, Early, AtLine, Lending
<1>11. LeftLoan' = LeftLoan /\ l \notin LeftLoan
  <2>1. ~ Marked(l)
    BY <1>2, <1>4 DEF Marked
  <2>2. LeftLoan = {m \in lines : Marked(m) /\ \A t \in Sessions : ~ AtLine(t, {"asset", "out"}, m)}
    BY <1>2, LateSets
  <2>3. LeftLoan' = {m \in lines : Marked(m)' /\ \A t \in Sessions : ~ AtLine(t, {"asset", "out"}, m)'}
    BY <1>1, <1>2 DEF LeftLoan, Early
  <2> HIDE DEF l
  <2> QED BY <1>3, <1>8, <1>9, <2>1, <2>2, <2>3
<1>12. \A j \in Items : Back(j)' = Back(j)
  <2> SUFFICES ASSUME NEW j \in Items PROVE Back(j)' = Back(j)
    OBVIOUS
  <2>1. Back(j)' = {m \in LeftLoan' : CameAs(m, j)' /\ \A t \in Sessions : ~ AtLine(t, {"closeIn", "in"}, m)'}
    BY DEF Back
  <2>2. LeftLoan \subseteq Lines
    BY <1>3 DEF LeftLoan
  <2> HIDE DEF l
  <2> QED BY <1>8, <1>9, <1>11, <2>1, <2>2 DEF Back
<1>13. Working(s)'
  BY <1>1, <1>2, <1>5, <1>6, <1>7 DEF Working, Lending, Closing
<1>14. PartBack(s)'
  <2>1. /\ Kind[ret[s].item] = "SQN" <=> Kind[Item[l]] = "SQN"
        /\ Kind[Item[l]] = "SQN" => ret[s].asset = Asset[l] \/ ret[s].asset \in Serials
        /\ Kind[Item[l]] # "SQN" => ret[s].asset = NoAsset
        /\ ret[s].asset \in Serials => ~ stock.asset[ret[s].asset].exists
    BY <1>1 DEF GoodsNow, PartBack
  <2>2. Kind[Item[l]] = "SQN" => Asset[l] # NoAsset /\ stock.asset[Asset[l]].exists
    BY <1>3, BorrowAssumption DEF BorrowAssumption, GoodsNow, RowsExist
  <2>3. ret[s].asset \in Serials => n = "asset"
    BY <2>1, <2>2, BorrowAssumption DEF n, BorrowAssumption
  <2>4. n = "asset" => ret[s].asset \in Serials
    BY <2>1, <2>2 DEF n
  <2>5. stock' = stock
    BY <1>1 DEF goods
  <2>6. pc'[s] = n /\ cur'[s] = l /\ ret'[s] = ret[s]
    BY <1>1
  <2> HIDE DEF l
  <2>7. CASE n = "asset"
    BY <2>1, <2>4, <2>5, <2>6, <2>7 DEF PartBack
  <2>8. CASE n = "out"
    BY <2>1, <2>3, <2>5, <2>6, <2>8 DEF PartBack
  <2> QED BY <1>7, <2>7, <2>8
<1>15. SameSets
  BY <1>10, <1>11, <1>12 DEF SameSets
<1>16. \A t \in Sessions : \/ SameRequest(t) /\ lines' = lines
                           \/ /\ pc[t] \notin {"out", "in"}
                              /\ Working(t)' /\ PartBack(t)' /\ seen'[t] = NotRead
  <2>1. \A t \in Sessions \ {s} : SameRequest(t) /\ lines' = lines
    BY <1>1
  <2>2. pc[s] \notin {"out", "in"} /\ seen'[s] = NotRead
    BY <1>1 DEF ChangeStatus, TypeInv, AtWork, Moving
  <2> QED BY <1>13, <1>14, <2>1, <2>2
<1> QED BY <1>1, <1>15, <1>16, StepAside

LEMMA AddAssetStep ==
    ASSUME Stocked, RowsApart, OneWindow, TypeInv, Statuses, NotReturned, GoodsNow, ~ cut,
           NEW s \in Sessions, AddAsset(s)
    PROVE  GoodsNow'
<1> USE DEF slipvars, reqvars
<1>1. /\ lines' = lines /\ line' = line /\ status' = status /\ cur' = cur
      /\ page' = page /\ todo' = todo /\ invtrans' = invtrans
      /\ \A t \in Sessions \ {s} : SameRequest(t)
      /\ pc[s] = "asset" /\ pc'[s] = "out"
  BY DEF AddAsset, At, SameRequest, TypeInv, TypeOK
<1>2. /\ ret[s].asset \in Serials /\ ~ stock.asset[ret[s].asset].exists
      /\ Kind[ret[s].item] = "SQN" <=> Kind[Item[cur[s]]] = "SQN"
      /\ Kind[Item[cur[s]]] # "SQN" => ret[s].asset = NoAsset
  BY <1>1 DEF GoodsNow, PartBack
<1>3. Serials \subseteq Assets /\ NoAsset \notin Assets
  BY BorrowAssumption DEF BorrowAssumption
<1>4. Kind[Item[cur[s]]] = "SQN" /\ Kind[ret[s].item] = "SQN" /\ ret[s].asset \in Assets
  BY <1>2, <1>3
<1>5. ret' = ret
  BY <1>2, <1>4 DEF AddAsset, TypeInv, TypeOK, Returns
<1>6. PICK a \in Serials : a = ret[s].asset
  BY <1>2
<1>7. /\ stock'.inventory = stock.inventory /\ stock'.invblance = stock.invblance
      /\ stock'.asset[a].exists /\ stock'.asset[a].location = Nowhere
      /\ \A b \in Assets \ {a} : stock'.asset[b] = stock.asset[b]
  <2> DEFINE part == [exists |-> TRUE, location |-> Nowhere]
  <2>1. stock' = [stock EXCEPT !.asset = [stock.asset EXCEPT ![a] = part]]
    BY <1>6 DEF AddAsset
  <2>2. stock \in BorrowStock /\ stock.asset \in [Assets -> Part]
    BY StockTables DEF TypeInv, TypeOK
  <2>3. /\ stock'.inventory = stock.inventory /\ stock'.invblance = stock.invblance
        /\ stock'.asset = [stock.asset EXCEPT ![a] = part]
    <3> HIDE DEF part
    <3> QED BY <2>1, <2>2 DEF BorrowStock
  <2>4. stock'.asset[a] = part
    BY <1>3, <2>2, <2>3
  <2> QED BY <2>2, <2>3, <2>4
<1>8. SameSets
  <2>1. \A m \in Lines : Marked(m)' = Marked(m) /\ \A j \in Items : CameAs(m, j)' = CameAs(m, j)
    BY <1>1 DEF Marked, CameAs
  <2>2. \A t \in Sessions : \A m \in Lines :
           /\ (pc'[t] \in Lending /\ m \notin todo'[t]) <=> (pc[t] \in Lending /\ m \notin todo[t])
           /\ (pc'[t] \in Closing /\ m \notin todo'[t]) <=> (pc[t] \in Closing /\ m \notin todo[t])
           /\ AtLine(t, {"lendIn"}, m)' <=> AtLine(t, {"lendIn"}, m)
           /\ AtLine(t, {"asset", "out"}, m)' <=> AtLine(t, {"asset", "out"}, m)
           /\ AtLine(t, {"closeIn", "in"}, m)' <=> AtLine(t, {"closeIn", "in"}, m)
    BY <1>1 DEF AtLine, SameRequest, Lending, Closing
  <2>3. lines \subseteq Lines
    BY DEF TypeInv, TypeOK
  <2>4. LeftStore' = LeftStore
    BY <1>1, <2>2, <2>3 DEF LeftStore
  <2>5. InLoan' = InLoan
    BY <2>2, <2>3, <2>4 DEF InLoan, LeftStore
  <2>6. LeftLoan' = LeftLoan
    BY <1>1, <2>1, <2>2, <2>3 DEF LeftLoan
  <2>7. \A j \in Items : Back(j)' = Back(j)
    BY <2>1, <2>2, <2>3, <2>6 DEF Back, LeftLoan
  <2> QED BY <2>4, <2>5, <2>6, <2>7 DEF SameSets
<1>9. \A l \in Lines : Asset[l] # NoAsset => Asset[l] \in Assets \ {a}
  BY OwnAssets
<1>10. RowsExist'
  BY <1>7, <1>8, <1>9 DEF GoodsNow, RowsExist, HasRow, SameSets
<1>11. LedgerExplainsBalance'
  BY <1>1, <1>7 DEF GoodsNow, LedgerExplainsBalance
<1>12. RecordsCount'
  BY <1>1, <1>8 DEF GoodsNow, RecordsCount, SameSets, Of
<1>13. AssetsFollow'
  BY <1>7, <1>8, <1>9 DEF GoodsNow, AssetsFollow, SameSets
<1>14. SerialsKept'
  <2> SUFFICES ASSUME NEW b \in Serials, stock'.asset[b].exists, stock'.asset[b].location # "store"
               PROVE  \E t \in Sessions : pc'[t] \in {"out", "in"} /\ ret'[t].asset = b
    BY DEF SerialsKept
  <2>1. CASE b = a
    BY <1>1, <1>5, <1>6, <2>1
  <2>2. CASE b # a
    <3>1. stock.asset[b].exists /\ stock.asset[b].location # "store"
      BY <1>3, <1>7, <2>2
    <3>2. PICK t \in Sessions : pc[t] \in {"out", "in"} /\ ret[t].asset = b
      BY <3>1 DEF GoodsNow, SerialsKept
    <3> QED BY <1>1, <1>5, <3>2 DEF SameRequest
  <2> QED BY <2>1, <2>2
<1>15. \A t \in Sessions : Working(t)' /\ PartBack(t)'
  <2> SUFFICES ASSUME NEW t \in Sessions PROVE Working(t)' /\ PartBack(t)'
    OBVIOUS
  <2>1. Working(t) /\ PartBack(t)
    BY DEF GoodsNow
  <2>2. CASE t = s
    <3>1. Working(t)'
      BY <1>1, <1>5, <2>1, <2>2 DEF Working, Lending, Closing
    <3>2. PartBack(t)'
      BY <1>1, <1>2, <1>4, <1>5, <1>6, <1>7, <2>1, <2>2 DEF PartBack
    <3> QED BY <3>1, <3>2
  <2>3. CASE t # s
    <3>1. Working(t)'
      BY <1>1, <2>1, <2>3 DEF SameRequest, Working
    <3>2. ASSUME pc[t] \in {"change", "asset", "out", "in"} PROVE ret[t].asset # a
      <4>1. Kind[Item[cur[t]]] = "SQN" => s = t
        <5>1. cur[t] \in MayReturn[t] /\ cur[s] \in MayReturn[s]
          BY <1>1, <3>2 DEF GoodsNow, Working
        <5> QED BY <1>4, <5>1 DEF RowsApart
      <4>2. ret[t].asset = NoAsset
        BY <2>1, <2>3, <3>2, <4>1 DEF PartBack
      <4> QED BY <1>3, <4>2
    <3>3. \A b \in Serials \ {a} : stock'.asset[b].exists <=> stock.asset[b].exists
      BY <1>3, <1>7
    <3>4. PartBack(t)'
      BY <1>1, <2>1, <2>3, <3>2, <3>3 DEF SameRequest, PartBack
    <3> QED BY <3>1, <3>4
  <2> QED BY <2>2, <2>3
<1>16. \A t \in Sessions : SeenNow(t)'
  <2> SUFFICES ASSUME NEW t \in Sessions, seen'[t] # NotRead PROVE SeenNow(t)'
    BY DEF SeenNow
  <2>1. seen' = seen
    BY DEF AddAsset
  <2>2. pc[t] \in Moving /\ SeenNow(t)
    BY <2>1 DEF TypeInv, AtWork, GoodsNow
  <2>3. t # s
    BY <1>1, <2>2 DEF Moving
  <2>4. pc[t] \in {"out", "in"}
    <3>1. pc[t] \notin Lending \cup Closing
      BY <1>1, <2>3, WhoIsAtWork
    <3> QED BY <2>2, <3>1 DEF Moving, Lending, Closing
  <2>5. Kind[Item[cur[t]]] # "SQN" /\ Kind[ret[t].item] # "SQN"
    <3>1. cur[t] \in MayReturn[t] /\ cur[s] \in MayReturn[s] /\ PartBack(t)
      BY <1>1, <2>4 DEF GoodsNow, Working
    <3>2. Kind[Item[cur[t]]] # "SQN"
      BY <1>4, <2>3, <3>1 DEF RowsApart
    <3> QED BY <2>4, <3>1, <3>2 DEF PartBack
  <2> QED BY <1>1, <1>7, <2>1, <2>2, <2>3, <2>4, <2>5
          DEF SeenNow, Current, SameRequest, Lending, Closing
<1> QED BY <1>10, <1>11, <1>12, <1>13, <1>14, <1>15, <1>16 DEF GoodsNow

----------------------------------------------------------------------------
(* The other steps, and the theorems.                                      *)

\* A new request that moves goods begins with all lines before it.
LEMMA StartStep ==
    ASSUME OneRoute, TypeInv, Statuses, GoodsNow, ~ cut, EarlySets, EarlySets',
           NEW s \in Sessions, Submit(s) \/ Close(s)
    PROVE  GoodsNow'
<1> USE DEF slipvars, reqvars
<1>1. /\ goods' = goods /\ lines' = lines /\ status' = status /\ page' = page
      /\ \A t \in Sessions : pc[t] = "idle"
      /\ \A t \in Sessions \ {s} : SameRequest(t)
      /\ todo'[s] = lines /\ seen' = seen
      /\ \/ status = "new" /\ pc'[s] = "lendOut"
         \/ status = "rejected" /\ pc'[s] = "closeOut"
         \/ status = "rejected" /\ pc'[s] = "closeSave" /\ lines = {}
  BY DEF Submit, Close, Routed, OneRoute, At, SameRequest, TypeInv, TypeOK
<1>2. SameSets
  <2>1. CASE status = "new" /\ pc'[s] = "lendOut"
    BY <1>1, <2>1 DEF EarlySets, SameSets, Lending, AtLine
  <2>2. CASE status = "rejected" /\ pc'[s] \in {"closeOut", "closeSave"}
    BY <1>1, <2>2 DEF EarlySets, SameSets, Closing, Early
  <2> QED BY <1>1, <2>1, <2>2
<1>3. Working(s)' /\ PartBack(s)'
  BY <1>1 DEF Working, PartBack, Lending, Closing
<1>4. \A t \in Sessions \ {s} : SameRequest(t) /\ lines' = lines
  BY <1>1
<1>5. pc[s] \notin {"out", "in"} /\ seen'[s] = NotRead
  BY <1>1 DEF TypeInv, AtWork, Moving
<1> QED BY <1>1, <1>2, <1>3, <1>4, <1>5, StepAside

\* With the last line the status changes, and the sets are the same.
LEMMA EndStep ==
    ASSUME TypeInv, TypeInv', Statuses, GoodsNow, ~ cut, EarlySets, EarlySets',
           NEW s \in Sessions, LendSave(s) \/ CloseSave(s)
    PROVE  GoodsNow'
<1> USE DEF slipvars, reqvars
<1>1. /\ goods' = goods /\ lines' = lines /\ pc'[s] = "idle"
      /\ \A t \in Sessions \ {s} : pc'[t] = pc[t]
      /\ \/ pc[s] = "lendSave" /\ status' = "pending"
         \/ pc[s] = "closeSave" /\ status' = "closed"
  BY DEF LendSave, CloseSave, SaveStatus, Finish, At, TypeInv, TypeOK
<1>2. /\ pc[s] = "lendSave" => status = "new"
      /\ pc[s] = "closeSave" => status = "rejected"
      /\ \A t \in Sessions \ {s} : pc[t] = "idle"
  BY <1>1, WhoIsAtWork DEF Lending, Closing
<1>3. todo[s] = {}
  BY <1>1 DEF GoodsNow, Working
<1>4. SameSets
  <2>1. CASE pc[s] = "lendSave" /\ status' = "pending"
    <3>1. {l \in Lines : AtLine(s, {"lendIn"}, l)} = {}
      BY <2>1 DEF AtLine
    <3>2. /\ LeftStore = lines \ {} /\ InLoan = LeftStore \ {} /\ LeftLoan = {}
          /\ \A i \in Items : Back(i) = {}
      BY <1>2, <1>3, <2>1, <3>1 DEF EarlySets, Lending
    <3>3. /\ LeftStore' = lines /\ InLoan' = lines /\ LeftLoan' = {}
          /\ \A i \in Items : Back(i)' = {}
      BY <1>1, <2>1 DEF EarlySets, Early
    <3> QED BY <3>2, <3>3 DEF SameSets
  <2>2. CASE pc[s] = "closeSave" /\ status' = "closed"
    <3>1. {l \in Lines : AtLine(s, {"closeIn"}, l)} = {}
      BY <2>2 DEF AtLine
    <3>2. /\ LeftStore = lines /\ InLoan = lines /\ LeftLoan = lines \ {}
          /\ \A i \in Items : Back(i) = Of(LeftLoan \ {}, i)
      BY <1>2, <1>3, <2>2, <3>1 DEF EarlySets, Closing, Early
    <3>3. /\ LeftStore' = lines /\ InLoan' = lines /\ LeftLoan' = lines
          /\ \A i \in Items : Back(i)' = Of(lines, i)
      BY <1>1, <2>2 DEF EarlySets, Early, Of
    <3> QED BY <3>2, <3>3 DEF SameSets
  <2> QED BY <1>1, <2>1, <2>2
<1>5. \A t \in Sessions : Working(t)' /\ PartBack(t)' /\ seen'[t] = NotRead
  BY <1>1, <1>2, IdleWorks
<1>6. \A t \in Sessions : pc[t] \notin {"out", "in"}
  BY <1>1, <1>2
<1> QED BY <1>1, <1>4, <1>5, <1>6, StepAside

\* A return is confirmed: what comes back is the line's own part, or a part
\* nobody has seen before.
LEMMA ConfirmStep ==
    ASSUME Stocked, RowsApart, OneWindow, TypeInv, Statuses, GoodsNow, ~ cut,
           NEW s \in Sessions, NEW l \in Lines, NEW r \in Returns, Confirm(s, l, r)
    PROVE  GoodsNow'
<1> USE DEF slipvars, reqvars
<1> DEFINE n == IF r.item = Item[l] /\ Kind[r.item] = "OTHER" THEN "save" ELSE "change"
<1>1. /\ goods' = goods /\ lines' = lines /\ line' = line /\ status' = status /\ page' = page
      /\ \A t \in Sessions \ {s} : SameRequest(t)
      /\ pc[s] = "idle" /\ pc'[s] = n /\ cur'[s] = l /\ ret'[s] = r
      /\ l \in lines \cap MayReturn[s] /\ r \in Returnable(l)
  BY DEF Confirm, Returning, At, SameRequest, TypeInv, TypeOK
<1>2. n \in {"save", "change"}
  OBVIOUS
<1> HIDE DEF n
<1>3. SameSets
  <2>1. \A m \in Lines : Marked(m)' = Marked(m) /\ \A j \in Items : CameAs(m, j)' = CameAs(m, j)
    BY <1>1 DEF Marked, CameAs
  <2>2. \A t \in Sessions : SameRequest(t) \/ {pc[t], pc'[t]} \subseteq Aside
    BY <1>1, <1>2 DEF Aside
  <2> QED BY <1>1, <2>1, <2>2, SetsStay
<1>4. Working(s)'
  BY <1>1, <1>2 DEF Working, Lending, Closing
<1>5. PartBack(s)'
  <2>1. /\ Kind[Item[l]] = "SQN" <=> Asset[l] # NoAsset
        /\ Serials \subseteq Assets /\ NoAsset \notin Assets
    BY BorrowAssumption DEF BorrowAssumption
  <2>2. stock' = stock
    BY <1>1 DEF goods
  <2>3. CASE Kind[Item[l]] # "SQN"
    <3>1. r.asset = NoAsset /\ Kind[r.item] # "SQN"
      BY <1>1, <2>3 DEF Returnable, RowsApart
    <3> QED BY <1>1, <1>2, <2>1, <2>3, <3>1 DEF PartBack
  <2>4. CASE Kind[Item[l]] = "SQN" /\ r = [item |-> Item[l], asset |-> Asset[l]]
    <3>1. r.item = Item[l] /\ r.asset = Asset[l] /\ Asset[l] \notin Serials
      BY <2>1, <2>4, OwnAssets
    <3> QED BY <1>1, <1>2, <2>4, <3>1 DEF PartBack
  <2>5. CASE /\ Kind[Item[l]] = "SQN" /\ r.asset \in Serials
             /\ r.item = ItemOf[r.asset] /\ stock.asset[r.asset].location = Nowhere
    <3>1. Kind[r.item] = "SQN"
      BY <2>5 DEF Stocked
    <3>2. ~ stock.asset[r.asset].exists
      <4> SUFFICES ASSUME stock.asset[r.asset].exists PROVE FALSE
        OBVIOUS
      <4>1. PICK t \in Sessions : pc[t] \in {"out", "in"} /\ ret[t].asset = r.asset
        BY <2>5 DEF GoodsNow, SerialsKept, Nowhere
      <4>2. Kind[Item[cur[t]]] = "SQN" /\ cur[t] \in MayReturn[t]
        BY <2>1, <2>5, <4>1 DEF GoodsNow, PartBack, Working
      <4>3. t = s
        BY <1>1, <2>5, <4>2 DEF RowsApart
      <4> QED BY <1>1, <4>1, <4>3
    <3> QED BY <1>1, <1>2, <2>2, <2>5, <3>1, <3>2 DEF PartBack
  <2> QED BY <1>1, <2>3, <2>4, <2>5 DEF Returnable, RowsApart
<1>6. \A t \in Sessions \ {s} : SameRequest(t) /\ lines' = lines
  BY <1>1
<1>7. pc[s] \notin {"out", "in"} /\ seen'[s] = NotRead
  BY <1>1 DEF Confirm, TypeInv, AtWork, Moving
<1> QED BY <1>1, <1>3, <1>4, <1>5, <1>6, <1>7, StepAside

LEMMA GoodsNowNext ==
    ASSUME OneWindow, OneRoute, Stocked, RowsApart, TypeInv, Statuses, NotReturned, GoodsNow, ~ cut,
           TypeInv', Statuses', NotReturned', ~ cut', [Next]_vars
    PROVE  GoodsNow'
<1> USE DEF slipvars, reqvars
<1>1. EarlySets /\ EarlySets'
  BY EarlySetsHold, EarlySetsNext
<1>2. ASSUME lines' = lines, goods' = goods,
             status' = status \/ {status, status'} \cap {"new", "rejected", "closed"} = {},
             \A t \in Sessions : SameRequest(t) \/ (pc[t] \in Aside /\ pc'[t] \in {"idle", "save"}),
             \A l \in Lines : /\ Marked(l)' <=> Marked(l)
                              /\ \A i \in Items : CameAs(l, i)' <=> CameAs(l, i)
      PROVE  GoodsNow'
  <2>1. SameSets
    BY <1>2, SetsStay DEF Aside
  <2>2. \A t \in Sessions : \/ SameRequest(t) /\ lines' = lines
                            \/ /\ pc[t] \notin {"out", "in"}
                               /\ Working(t)' /\ PartBack(t)' /\ seen'[t] = NotRead
    BY <1>2, IdleWorks DEF Aside
  <2> QED BY <1>2, <2>1, <2>2, StepAside
<1>3. ASSUME NEW s \in Sessions, lines' = lines, goods' = goods, line' = line, status' = status,
             \A t \in Sessions \ {s} : SameRequest(t),
             pc[s] \in Aside, pc'[s] \in {"idle", "save"},
             page'[s].dirty = page[s].dirty,
             \A l \in page[s].dirty : page'[s].line[l] = page[s].line[l]
      PROVE  GoodsNow'
  <2>1. \A t \in Sessions : /\ page'[t].dirty = page[t].dirty
                           /\ \A l \in page[t].dirty : page'[t].line[l] = page[t].line[l]
    BY <1>3 DEF SameRequest
  <2>2. \A l \in Lines : /\ Marked(l)' <=> Marked(l)
                        /\ \A i \in Items : CameAs(l, i)' <=> CameAs(l, i)
    BY <1>3, <2>1 DEF Marked, CameAs
  <2> QED BY <1>2, <1>3, <2>2
<1>4. ASSUME NEW s \in Sessions, EditLines(s) PROVE GoodsNow'
  <2>1. /\ status = "new" /\ status' = "new" /\ goods' = goods
        /\ \A t \in Sessions : pc[t] = "idle" /\ pc'[t] = "idle"
    BY <1>4 DEF EditLines, OneWindow, At
  <2>2. SameSets
    BY <1>1, <2>1 DEF EarlySets, SameSets, Lending
  <2>3. \A t \in Sessions : Working(t)' /\ PartBack(t)' /\ seen'[t] = NotRead
    BY <2>1, IdleWorks
  <2> QED BY <2>1, <2>2, <2>3, StepAside
<1>5. ASSUME NEW s \in Sessions, Saved(s), lines' = lines, goods' = goods,
             pc[s] \in Aside, pc'[s] = "idle", page'[s].dirty = {},
             \A t \in Sessions \ {s} : SameRequest(t)
      PROVE  GoodsNow'
  <2>1. \A l \in Lines : /\ Marked(l)' <=> Marked(l)
                        /\ \A i \in Items : CameAs(l, i)' <=> CameAs(l, i)
    BY <1>5, SaveMarks DEF SameRequest
  <2>2. /\ ~ page[s].hdirty => status' = status
        /\ page[s].hdirty => status' \in Returned /\ page[s].dirty # {}
        /\ page[s].dirty # {} => status \notin Early
    BY <1>5, SavedKeeps, WhoIsAtWork
  <2>3. status' = status \/ {status, status'} \cap {"new", "rejected", "closed"} = {}
    BY <2>2 DEF Early, Returned
  <2> QED BY <1>2, <1>5, <2>1, <2>3
<1>6. ASSUME NEW s \in Sessions, Open(s) PROVE GoodsNow'
  <2>1. page[s].dirty = {} /\ Fresh.dirty = {}
    BY <1>6 DEF Open, Fresh
  <2>2. /\ page'[s].dirty = {} /\ pc[s] = "idle" /\ pc'[s] = "idle"
        /\ \A t \in Sessions \ {s} : SameRequest(t)
    BY <1>6, <2>1 DEF Open, At, SameRequest, TypeInv, TypeOK
  <2> QED BY <1>3, <1>6, <2>1, <2>2 DEF Open, Aside
<1>7. ASSUME NEW s \in Sessions, Renew(s) PROVE GoodsNow'
  <2>1. /\ pc[s] = "idle" /\ pc'[s] = "idle" /\ page'[s].dirty = {}
        /\ \A t \in Sessions \ {s} : SameRequest(t)
    BY <1>7 DEF Renew, At, SameRequest, TypeInv, TypeOK
  <2> QED BY <1>5, <1>7, <2>1 DEF Renew, Aside
<1>8. ASSUME NEW s \in Sessions, PressSave(s) PROVE GoodsNow'
  <2>1. /\ pc[s] = "idle" /\ pc'[s] = "save" /\ page' = page
        /\ \A t \in Sessions \ {s} : SameRequest(t)
    BY <1>8 DEF PressSave, At, Goto, SameRequest, TypeInv, TypeOK
  <2> QED BY <1>3, <1>8, <2>1 DEF PressSave, Aside
<1>9. ASSUME NEW s \in Sessions, SavePage(s) PROVE GoodsNow'
  <2>1. /\ pc[s] = "save" /\ pc'[s] = "idle" /\ page'[s].dirty = {}
        /\ \A t \in Sessions \ {s} : SameRequest(t)
    BY <1>9 DEF SavePage, At, Finish, SameRequest, TypeInv, TypeOK
  <2> QED BY <1>5, <1>9, <2>1 DEF SavePage, Aside
<1>10. ASSUME Decide PROVE GoodsNow'
  <2>1. /\ status = "pending" /\ status' \in {"lent", "rejected"}
        /\ UNCHANGED <<line, lines, goods, pc, cur, ret, todo, seen, page>>
    BY <1>10 DEF Decide
  <2>2. \A t \in Sessions : pc[t] = "idle" /\ pc'[t] = "idle" /\ SameRequest(t)
    BY <2>1, WhoIsAtWork DEF Statuses, EarlyIsQuiet, Early, SameRequest
  <2>3. CASE status' = "lent"
    BY <1>2, <2>1, <2>2, <2>3 DEF Marked, CameAs
  <2>4. CASE status' = "rejected"
    <3>1. SameSets
      BY <1>1, <2>1, <2>2, <2>4 DEF EarlySets, SameSets, Early, Closing
    <3> QED BY <2>1, <2>2, <3>1, StepAside
  <2> QED BY <2>1, <2>3, <2>4
<1>11. ASSUME Later \/ CronRead \/ CronSave \/ UNCHANGED vars PROVE GoodsNow'
  <2>1. UNCHANGED <<line, lines, goods, pc, cur, ret, todo, seen, page>>
    BY <1>11 DEF Later, CronRead, CronSave, vars
  <2>2. status' = status \/ (status \notin Early /\ status' = "overdue")
    <3>1. CASE Later \/ CronRead \/ UNCHANGED vars
      BY <3>1 DEF Later, CronRead, vars
    <3>2. CASE CronSave
      <4>1. status \notin Early
        BY <3>2 DEF CronSave, Statuses, EarlyIsQuiet
      <4> QED BY <3>2, <4>1 DEF CronSave
    <3> QED BY <1>11, <3>1, <3>2
  <2>3. status' = status \/ {status, status'} \cap {"new", "rejected", "closed"} = {}
    BY <2>2 DEF Early
  <2>4. \A t \in Sessions : SameRequest(t)
    BY <2>1 DEF SameRequest
  <2> QED BY <1>2, <2>1, <2>3, <2>4 DEF Marked, CameAs
<1>12. ASSUME NEW s \in Sessions, Throws(s) PROVE GoodsNow'
  <2>1. /\ pc[s] = "save" /\ pc'[s] = "idle" /\ page' = page
        /\ \A t \in Sessions \ {s} : SameRequest(t)
    BY <1>12 DEF Throws, At, Finish, SameRequest, TypeInv, TypeOK
  <2> QED BY <1>3, <1>12, <2>1 DEF Throws, Aside
<1>13. ASSUME NEW s \in Sessions, Crash(s) PROVE GoodsNow'
  <2>1. pc[s] = "change" /\ page[s].dirty = {} /\ Fresh.dirty = {}
    BY <1>13 DEF Crash, Fresh
  <2>2. page' = [page EXCEPT ![s] = Fresh]
    BY <1>13 DEF Crash
  <2>3. pc'[s] = "idle" /\ \A t \in Sessions \ {s} : SameRequest(t)
    BY <1>13, <2>2 DEF Crash, Finish, SameRequest, TypeInv, TypeOK
  <2>4. page'[s].dirty = {}
    BY <2>1, <2>2 DEF TypeInv, TypeOK
  <2> QED BY <1>3, <1>13, <2>1, <2>3, <2>4 DEF Crash, Aside
<1>14. ASSUME NEW s \in Sessions, Move(s) PROVE GoodsNow'
  BY <1>1, <1>14, LendStep, CloseStep, EndStep DEF Move
<1>15. ASSUME NEW s \in Sessions, Return(s) PROVE GoodsNow'
  <2>1. ~ ChangeFails(s)
    BY DEF ChangeFails
  <2> QED BY <1>9, <1>15, <2>1, ChangeStep, AddAssetStep, ReturnOutStep, ReturnInStep DEF Return
<1>16. ASSUME NEW s \in Sessions, User(s) PROVE GoodsNow'
  BY <1>1, <1>4, <1>6, <1>7, <1>8, <1>16, StartStep, ConfirmStep DEF User
<1>17. ASSUME NEW s \in Sessions, Query(s) PROVE GoodsNow'
  <2>1. /\ seen' = [seen EXCEPT ![s] = stock]
        /\ UNCHANGED <<status, line, lines, goods, pc, cur, ret, todo, page>>
    BY <1>17 DEF Query
  <2>2. stock' = stock /\ invtrans' = invtrans
    BY <2>1 DEF goods
  <2>3. \A t \in Sessions : SeenNow(t)'
    <3>1. \A t \in Sessions : SeenNow(t) /\ seen'[t] = (IF t = s THEN stock ELSE seen[t])
      BY <2>1 DEF GoodsNow, TypeInv, TypeOK
    <3> QED BY <2>1, <2>2, <3>1 DEF SeenNow, Current
  <2>4. \A t \in Sessions : Working(t)' /\ PartBack(t)'
    BY <2>1, <2>2 DEF GoodsNow, Working, PartBack
  <2>5. SameSets
    BY <2>1 DEF SameSets, LeftStore, InLoan, LeftLoan, Back, Marked, CameAs, AtLine
  <2>6. SerialsKept' /\ LedgerExplainsBalance'
    BY <2>1, <2>2 DEF GoodsNow, SerialsKept, LedgerExplainsBalance
  <2>7. RowsExist' /\ RecordsCount' /\ AssetsFollow'
    BY <2>2, <2>5 DEF GoodsNow, SameSets, RowsExist, HasRow, RecordsCount, Of, AssetsFollow
  <2> QED BY <2>3, <2>4, <2>6, <2>7 DEF GoodsNow
<1> QED BY <1>10, <1>11, <1>12, <1>13, <1>14, <1>15, <1>16, <1>17 DEF Next

LEMMA GoodsInit ==
    ASSUME Stocked, Init
    PROVE  Goods
<1>1. /\ status = "new" /\ lines = {} /\ stock = InitStock /\ invtrans = [k \in Keys |-> 0]
      /\ \A s \in Sessions : pc[s] = "idle"
  BY DEF Init
<1>2. /\ LeftStore = {} /\ InLoan = {} /\ LeftLoan = {}
      /\ \A i \in Items : Back(i) = {} /\ Of({}, i) = {}
  BY <1>1 DEF LeftStore, InLoan, LeftLoan, Back, Of
<1>3. \A s \in Sessions : Working(s) /\ PartBack(s) /\ SeenNow(s)
  BY <1>1 DEF Working, PartBack, SeenNow, Init, Lending, Closing
<1>4. SerialsKept
  BY <1>1 DEF SerialsKept, Stocked
<1>5. RowsExist
  <2> SUFFICES ASSUME NEW l \in Lines
               PROVE  HasRow("store", Item[l]) /\ (Asset[l] # NoAsset => stock.asset[Asset[l]].exists)
    BY <1>2 DEF RowsExist
  <2>1. HasRow("store", Item[l])
    BY <1>1 DEF Stocked, HasRow
  <2>2. Asset[l] # NoAsset => InitStock.asset[Asset[l]] = [exists |-> TRUE, location |-> "store"]
    BY DEF Stocked
  <2> QED BY <1>1, <2>1, <2>2
<1>6. LedgerExplainsBalance
  <2>1. InitStock.inventory \in [Keys -> Row] /\ InitStock.invblance \in [Keys -> Amount]
    BY BorrowAssumption, StockTables DEF BorrowAssumption
  <2> QED BY <1>1, <2>1 DEF LedgerExplainsBalance, Row, Amount
<1>7. RecordsCount
  <2>1. \A i \in Items : <<"store", i>> \in Keys /\ <<"loan", i>> \in Keys
    BY DEF Keys, BorrowRooms
  <2>2. \A i \in Items : invtrans[<<"store", i>>] = 0 /\ invtrans[<<"loan", i>>] = 0
    BY <1>1, <2>1
  <2>3. Cardinality({}) = 0
    BY FS_EmptySet
  <2> SUFFICES ASSUME NEW i \in Items
               PROVE  /\ invtrans[<<"store", i>>] = Cardinality(Back(i)) - Cardinality(Of(LeftStore, i))
                      /\ invtrans[<<"loan", i>>] = Cardinality(Of(InLoan, i)) - Cardinality(Of(LeftLoan, i))
    BY DEF RecordsCount
  <2>4. Back(i) = {} /\ Of(LeftStore, i) = {} /\ Of(InLoan, i) = {} /\ Of(LeftLoan, i) = {}
    BY <1>2 DEF Of
  <2> QED BY <2>2, <2>3, <2>4
<1>8. AssetsFollow
  <2> SUFFICES ASSUME NEW l \in Lines, Asset[l] # NoAsset
               PROVE  stock.asset[Asset[l]].location # "loan"
    BY <1>2 DEF AssetsFollow
  <2>1. InitStock.asset[Asset[l]] = [exists |-> TRUE, location |-> "store"]
    BY DEF Stocked
  <2> QED BY <1>1, <2>1
<1> QED BY NotReturnedInit, <1>3, <1>4, <1>5, <1>6, <1>7, <1>8 DEF Goods, GoodsNow

LEMMA GoodsNext ==
    ASSUME OneWindow, OneRoute, Stocked, RowsApart, TypeInv, Statuses, Goods, [Next]_vars
    PROVE  TypeInv' /\ Statuses' /\ Goods'
<1>1. TypeInv' /\ Statuses' /\ NotReturned'
  BY TypeNext, StatusesNext, NotReturnedNext DEF Goods
<1>2. ~ cut' => ~ cut
  <2>1. ASSUME NEW s \in Sessions, User(s) \/ Query(s) \/ Throws(s) \/ Crash(s), ~ cut' PROVE ~ cut
    BY <2>1 DEF User, Query, Throws, Crash, EditLines, Submit, Close, Open, Renew, PressSave, Confirm
  <2>2. ASSUME NEW s \in Sessions, Return(s), ~ cut' PROVE ~ cut
    BY <2>2 DEF Return, ChangeStatus, ChangeFails, AddAsset, ReturnOut, ReturnIn, SavePage,
                Out, In, Moved
  <2>3. ASSUME NEW s \in Sessions, Move(s), ~ cut' PROVE ~ cut
    BY <2>3 DEF Move, LendOut, LendIn, LendSave, CloseOut, CloseIn, CloseSave, MoveOut, MoveIn,
                SaveStatus, Out, In, Moved
  <2>4. Decide \/ Later \/ CronRead \/ CronSave \/ UNCHANGED vars => (~ cut' => ~ cut)
    BY DEF Decide, Later, CronRead, CronSave, vars
  <2> QED BY <2>1, <2>4, <2>2, <2>3 DEF Next
<1>3. ~ cut' => GoodsNow'
  BY <1>1, <1>2, GoodsNowNext DEF Goods
<1> QED BY <1>1, <1>3 DEF Goods

\* The goods are where the invariant says, in every reachable state.
LEMMA GoodsHold ==
    ASSUME OneWindow, OneRoute, Stocked, RowsApart
    PROVE  Spec => [](TypeInv /\ Statuses /\ Goods)
<1>1. Init => TypeInv /\ Statuses /\ Goods
  BY TypeInit, StatusesInit, GoodsInit
<1>2. TypeInv /\ Statuses /\ Goods /\ [Next]_vars => (TypeInv /\ Statuses /\ Goods)'
  BY GoodsNext
<1> QED BY <1>1, <1>2, PTL DEF Spec

\* The transaction records CommonInventory writes explain every balance of the
\* two storerooms, and every lot's, between any two steps, as long as no request
\* and no movement was cut short and no two windows move the same row.
THEOREM LedgerExplained ==
    ASSUME OneWindow, OneRoute, Stocked, RowsApart
    PROVE  Spec => []LedgerExplainsBalance
<1>1. Spec => [](TypeInv /\ Statuses /\ Goods)
  BY GoodsHold
<1>2. TypeInv /\ Statuses /\ Goods => LedgerExplainsBalance
  BY DEF Goods, GoodsNow, LedgerExplainsBalance
<1> QED BY <1>1, <1>2, PTL

\* When no request is running and none was cut short, the four sets are what
\* the slip says.
LEMMA QuietSets ==
    ASSUME TypeInv, Statuses, Goods, Quiet
    PROVE  /\ LeftStore = Lent /\ InLoan = Lent /\ Lent \subseteq lines
           /\ status = "closed" => LeftLoan = Lent /\ \A i \in Items : Back(i) = Of(Lent, i)
           /\ status # "closed" =>
                 /\ LeftLoan = {l \in Lent : line[l].status = "returned"}
                 /\ \A i \in Items :
                       Back(i) = {l \in Lent : line[l].status = "returned" /\ line[l].newitem = i}
<1>1. /\ \A s \in Sessions : pc[s] = "idle" /\ page[s].dirty = {}
      /\ \A l \in Lines : /\ Marked(l) <=> line[l].status = "returned"
                           /\ \A i \in Items : CameAs(l, i) <=> line[l].newitem = i
  BY DEF Quiet, At, Marked, CameAs
<1>2. LeftStore = Lent /\ InLoan = Lent
  BY <1>1 DEF LeftStore, InLoan, Lent, AtLine, Lending
<1>3. lines \subseteq Lines /\ Lent \subseteq lines /\ (status # "new" => Lent = lines)
  BY DEF TypeInv, TypeOK, Lent
<1>4. status \in Early => \A l \in lines : line[l].status = "notReturned" /\ line[l].newitem = Item[l]
  BY <1>3 DEF Goods, NotReturned
<1>5. CASE status = "closed"
  <2>1. EarlySets
    BY EarlySetsHold DEF Goods
  <2> QED BY <1>2, <1>3, <1>5, <2>1 DEF EarlySets
<1>6. CASE status # "closed"
  <2>1. LeftLoan = {l \in Lent : line[l].status = "returned"}
    <3>1. CASE status \in {"new", "rejected"}
      <4>1. LeftLoan = {}
        BY <1>1, <1>3, <1>4, <3>1 DEF LeftLoan, Early, Closing
      <4> QED BY <1>3, <1>4, <3>1, <4>1 DEF Early
    <3>2. CASE status \notin {"new", "rejected"}
      <4>1. \A l \in lines : /\ Marked(l) <=> line[l].status = "returned"
                             /\ \A s \in Sessions : ~ AtLine(s, {"asset", "out"}, l)
        <5>1. \A l \in lines : Marked(l) <=> line[l].status = "returned"
          BY <1>1 DEF Marked
        <5>2. \A l \in lines : \A s \in Sessions : ~ AtLine(s, {"asset", "out"}, l)
          BY <1>1 DEF AtLine
        <5> QED BY <5>1, <5>2
      <4>2. LeftLoan = {l \in lines : /\ Marked(l)
                                     /\ \A s \in Sessions : ~ AtLine(s, {"asset", "out"}, l)}
        BY <1>6, <3>2 DEF LeftLoan
      <4> QED BY <1>3, <3>2, <4>1, <4>2
    <3> QED BY <3>1, <3>2
  <2>2. \A i \in Items : Back(i) = {l \in LeftLoan : line[l].newitem = i}
    <3>1. \A l \in LeftLoan : /\ \A i \in Items : CameAs(l, i) <=> line[l].newitem = i
                              /\ \A s \in Sessions : ~ AtLine(s, {"closeIn", "in"}, l)
      <4>1. \A l \in LeftLoan : \A i \in Items : CameAs(l, i) <=> line[l].newitem = i
        BY <1>1 DEF CameAs
      <4>2. \A l \in LeftLoan : \A s \in Sessions : ~ AtLine(s, {"closeIn", "in"}, l)
        BY <1>1 DEF AtLine
      <4> QED BY <4>1, <4>2
    <3> QED BY <3>1 DEF Back
  <2> QED BY <1>2, <1>3, <1>6, <2>1, <2>2
<1> QED BY <1>2, <1>3, <1>5, <1>6

\* When no request is running, none was cut short and none of its movements
\* was, what is lent and not returned is in the borrowing storeroom, what came
\* back is in the storeroom as the item it came back as, and a closed slip has
\* brought everything back: StatusOk, StatusClose and BORROWRETURN move one
\* piece for each line, in any order of requests and of windows that move rows
\* of their own.
THEOREM GoodsAreAccounted ==
    ASSUME OneWindow, OneRoute, Stocked, RowsApart
    PROVE  Spec => []GoodsAccounted
<1>1. Spec => [](TypeInv /\ Statuses /\ Goods)
  BY GoodsHold
<1>2. ASSUME TypeInv, Statuses, Goods, Quiet, ~ cut, NEW i \in Items
      PROVE  LET store == <<"store", i>>
                 loan  == <<"loan", i>>
                 gone  == IF status = "closed" THEN 0 ELSE Taken(i) - Given(i)
                 out   == IF status = "closed" THEN 0 ELSE Out_of(i)
             IN  /\ stock.inventory[store].curbal = InitStock.inventory[store].curbal - gone
                 /\ stock.inventory[loan].curbal = InitStock.inventory[loan].curbal + out
                 /\ Kind[i] = "LOT" =>
                        /\ stock.invblance[store].qty = InitStock.invblance[store].qty - gone
                        /\ stock.invblance[loan].qty = InitStock.invblance[loan].qty + out
                 /\ \A l \in Lent : Item[l] = i /\ Kind[i] = "SQN" =>
                        (stock.asset[Asset[l]].location = "loan"
                             <=> status # "closed" /\ line[l].status = "notReturned")
  <2> DEFINE store == <<"store", i>>
             loan  == <<"loan", i>>
             gone  == IF status = "closed" THEN 0 ELSE Taken(i) - Given(i)
             out   == IF status = "closed" THEN 0 ELSE Out_of(i)
  <2>1. GoodsNow
    BY <1>2 DEF Goods
  <2>2. store \in Keys /\ loan \in Keys /\ Kind[store[2]] = Kind[i] /\ Kind[loan[2]] = Kind[i]
    BY DEF Keys, BorrowRooms
  <2>3. invtrans[store] = - gone /\ invtrans[loan] = out
    <3>1. /\ invtrans[store] = Cardinality(Back(i)) - Cardinality(Of(LeftStore, i))
          /\ invtrans[loan] = Cardinality(Of(InLoan, i)) - Cardinality(Of(LeftLoan, i))
      BY <2>1 DEF GoodsNow, RecordsCount
    <3>2. /\ Cardinality(Of(LeftStore, i)) \in Int /\ Cardinality(Of(InLoan, i)) \in Int
          /\ Cardinality(Of(LeftLoan, i)) \in Int /\ Cardinality(Back(i)) \in Int
      BY <1>2, SetsFinite DEF Goods
    <3>3. CASE status = "closed"
      BY <1>2, <3>1, <3>2, <3>3, QuietSets
    <3>4. CASE status # "closed"
      <4>1. Cardinality(Of(LeftStore, i)) = Taken(i) /\ Cardinality(Of(InLoan, i)) = Taken(i)
        BY <1>2, QuietSets DEF Of, Taken
      <4>2. Cardinality(Back(i)) = Given(i)
        BY <1>2, <3>4, QuietSets DEF Given
      <4>3. Out_of(i) = Cardinality(Of(InLoan, i)) - Cardinality(Of(LeftLoan, i))
        <5> DEFINE S == Of(Lent, i)
                   R == Of(LeftLoan, i)
        <5>1. IsFiniteSet(S)
          BY <1>2, QuietSets, FS_Subset DEF Goods, NotReturned, Of
        <5>2. Cardinality(S \ R) = Cardinality(S) - Cardinality(S \cap R)
          BY <5>1, FS_Difference
        <5>3. \A l \in Lent : line[l].status = "notReturned" <=> line[l].status # "returned"
          BY <1>2, QuietSets DEF TypeInv, TypeOK, LineStatus
        <5>4. LeftLoan = {l \in Lent : line[l].status = "returned"} /\ InLoan = Lent
          BY <1>2, <3>4, QuietSets
        <5>5. S \cap R = R
          BY <5>4 DEF Of
        <5>6. S \ R = {l \in Lent : Item[l] = i /\ line[l].status = "notReturned"}
          BY <5>3, <5>4 DEF Of
        <5> QED BY <5>2, <5>4, <5>5, <5>6 DEF Out_of
      <4> QED BY <3>1, <3>2, <3>4, <4>1, <4>2, <4>3
    <3> QED BY <3>3, <3>4
  <2>4. \A k \in Keys : /\ stock.inventory[k].curbal = InitStock.inventory[k].curbal + invtrans[k]
                        /\ Kind[k[2]] = "LOT" =>
                              stock.invblance[k].qty = InitStock.invblance[k].qty + invtrans[k]
    BY <1>2, <2>1 DEF GoodsNow, LedgerExplainsBalance
  <2>5. ASSUME NEW l \in Lent, Item[l] = i, Kind[i] = "SQN"
        PROVE  stock.asset[Asset[l]].location = "loan"
                    <=> status # "closed" /\ line[l].status = "notReturned"
    <3>1. l \in Lines /\ Asset[l] # NoAsset
      BY <1>2, <2>5, BorrowAssumption DEF Lent, TypeInv, TypeOK, BorrowAssumption
    <3>2. stock.asset[Asset[l]].location = "loan" <=> l \in InLoan \ LeftLoan
      BY <2>1, <3>1 DEF GoodsNow, AssetsFollow
    <3>3. line[l].status = "notReturned" <=> line[l].status # "returned"
      BY <1>2, <3>1 DEF TypeInv, TypeOK, LineStatus
    <3> QED BY <1>2, <3>2, <3>3, QuietSets
  <2>6. /\ InitStock.inventory[store].curbal \in Int /\ InitStock.inventory[loan].curbal \in Int
        /\ InitStock.invblance[store].qty \in Int /\ InitStock.invblance[loan].qty \in Int
        /\ invtrans[store] \in Int /\ invtrans[loan] \in Int
    <3>1. InitStock.inventory \in [Keys -> Row] /\ InitStock.invblance \in [Keys -> Amount]
      BY BorrowAssumption, StockTables DEF BorrowAssumption
    <3> QED BY <1>2, <2>2, <3>1 DEF TypeInv, TypeOK, Row, Amount
  <2>7. gone \in Int
    <3>1. Cardinality(Of(LeftStore, i)) \in Int /\ Cardinality(Back(i)) \in Int
      BY <1>2, SetsFinite DEF Goods
    <3>2. CASE status = "closed"
      BY <3>2
    <3>3. CASE status # "closed"
      <4>1. Of(LeftStore, i) = {l \in Lent : Item[l] = i}
        BY <1>2, QuietSets DEF Of
      <4>2. Back(i) = {l \in Lent : line[l].status = "returned" /\ line[l].newitem = i}
        BY <1>2, <3>3, QuietSets
      <4> QED BY <3>1, <3>3, <4>1, <4>2 DEF Taken, Given
    <3> QED BY <3>2, <3>3
  <2> HIDE DEF store, loan, gone, out
  <2>8. /\ stock.inventory[store].curbal = InitStock.inventory[store].curbal - gone
        /\ stock.inventory[loan].curbal = InitStock.inventory[loan].curbal + out
        /\ Kind[i] = "LOT" =>
              /\ stock.invblance[store].qty = InitStock.invblance[store].qty - gone
              /\ stock.invblance[loan].qty = InitStock.invblance[loan].qty + out
    BY <2>2, <2>3, <2>4, <2>6, <2>7
  <2> QED BY <2>5, <2>8 DEF store, loan, gone, out
<1>3. TypeInv /\ Statuses /\ Goods => GoodsAccounted
  BY <1>2 DEF GoodsAccounted
<1> QED BY <1>1, <1>3, PTL
=============================================================================
