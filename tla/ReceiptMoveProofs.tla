------------------------- MODULE ReceiptMoveProofs -------------------------
(***************************************************************************)
(* Theorems about what Receipt moves, for every slip and any number of     *)
(* sessions, when the lines of different sessions are on different         *)
(* inventory rows and no exception is swallowed by the movement: each      *)
(* receipt moves its goods as StockMove promises, and what is saved of a   *)
(* line is what was moved, recorded and posted.                            *)
(***************************************************************************)
EXTENDS ReceiptProofs

----------------------------------------------------------------------------
(* What a request has moved so far.                                        *)

\* The rows that the movement out of the storeroom updates exist.
Stocked(st) ==
    \A l \in Lines :
        /\ st.inventory[FromRow(l)].exists
        /\ Data[l].kind = "SQN" => st.asset[Data[l].asset].exists

\* What is done of a receipt is done for its whole quantity, and the row a
\* movement is about to save is still as it was read.
Moving(s) ==
    pc[s] \in BeforeInLedger =>
        /\ pc[s] \notin BeforeErp /\ Data[cur[s]].route = "erp" => erp[cur[s]] = qty[s]
        /\ pc[s] \notin BeforeOut => moved[cur[s]].out = qty[s]
        /\ pc[s] \notin BeforeOutLedger => invtrans[cur[s]].out = qty[s]
        /\ pc[s] \notin BeforeIn => moved[cur[s]].in = qty[s]
        /\ pc[s] = "out" =>
             seen[s].inventory[FromRow(cur[s])] = stock.inventory[FromRow(cur[s])]
        /\ pc[s] = "in" =>
             seen[s].inventory[ToRow(cur[s])] = stock.inventory[ToRow(cur[s])]

\* The inductive invariant, on top of Once.
Underway ==
    /\ Stocked(stock)
    /\ \A s \in Sessions : Stocked(seen[s]) /\ Moving(s)

----------------------------------------------------------------------------

LEMMA LinesApart == RowsApart => DisjointLines
BY DEF RowsApart, DisjointLines

LEMMA StockedInit == Stocked(InitStock)
BY ReceiptAssumption DEF ReceiptAssumption, Stocked, FromRow

LEMMA MovesInit == Init => Underway
BY StockedInit DEF Init, Underway, Moving, BeforeInLedger, BeforeIn, BeforeOutLedger,
   BeforeOut, BeforeErp

LEMMA OtherTables ==
    ASSUME NEW st \in Stock, NEW rows
    PROVE  /\ [st EXCEPT !.inventory = rows].inventory = rows
           /\ [st EXCEPT !.inventory = rows].asset = st.asset
BY DEF Stock

\* A movement whose saves all succeed writes one inventory row, and leaves
\* each asset in existence.
LEMMA OutWrites ==
    ASSUME NEW st \in Stock, NEW was \in Stock, Stocked(was), NEW l \in Lines, NEW q \in Nat
    PROVE  LET new == OutStoroom(st, was, Slip, Data[l], q, AllSaves) IN
           /\ new.inventory = [st.inventory EXCEPT
                ![FromRow(l)] = OutRow(was.inventory[FromRow(l)], Slip, q)]
           /\ \A a \in Assets : new.asset[a].exists = st.asset[a].exists
           /\ Takes(was, Data[l], AllSaves)
<1> DEFINE a0 == Data[l].asset
<1>1. was.inventory[FromRow(l)].exists /\ (Data[l].kind = "SQN" => was.asset[a0].exists)
  BY DEF Stocked
<1>2. Data[l].kind \in Kinds /\ a0 \in Assets /\ FromRow(l) = <<Data[l].from, Data[l].item>>
  BY LineKeys DEF LineData, FromRow
<1>3. CASE Data[l].kind = "SQN"
  <2> DEFINE new == [st.asset[a0] EXCEPT !.location = Nowhere]
  <2>1. st.asset \in [Assets -> Asset]
    BY StockTables
  <2>2. new.exists = st.asset[a0].exists
    BY <1>2, <2>1 DEF Asset
  <2> HIDE DEF new
  <2>3. \A a \in Assets : [st.asset EXCEPT ![a0] = new][a].exists = st.asset[a].exists
    BY <1>2, <2>1, <2>2
  <2>4. /\ OutSqn(st, was, Slip, Data[l], q, AllSaves).inventory = [st.inventory EXCEPT
             ![FromRow(l)] = OutRow(was.inventory[FromRow(l)], Slip, q)]
        /\ OutSqn(st, was, Slip, Data[l], q, AllSaves).asset = [st.asset EXCEPT ![a0] = new]
    BY <1>1, <1>2, <1>3 DEF OutSqn, Put, AllSaves, new
  <2>5. OutStoroom(st, was, Slip, Data[l], q, AllSaves)
          = OutSqn(st, was, Slip, Data[l], q, AllSaves)
    BY <1>3 DEF OutStoroom
  <2>6. Takes(was, Data[l], AllSaves)
    BY <1>1, <1>2 DEF Takes, AllSaves
  <2> QED BY <2>3, <2>4, <2>5, <2>6
<1>4. CASE Data[l].kind = "LOT"
  BY <1>1, <1>2, <1>4 DEF OutStoroom, OutLot, Put, AllSaves, Takes
<1>5. CASE Data[l].kind = "OTHER"
  <2>1. OutStoroom(st, was, Slip, Data[l], q, AllSaves) =
          [st EXCEPT !.inventory = [st.inventory EXCEPT
             ![FromRow(l)] = OutRow(was.inventory[FromRow(l)], Slip, q)]]
    BY <1>1, <1>2, <1>5 DEF OutStoroom, OutOther, Put, AllSaves
  <2>2. Takes(was, Data[l], AllSaves)
    BY <1>1, <1>2, <1>5 DEF Takes, AllSaves, FromRow, ToRow
  <2> QED BY <2>1, <2>2, OtherTables
<1> QED BY <1>2, <1>3, <1>4, <1>5 DEF Kinds

LEMMA InWrites ==
    ASSUME NEW st \in Stock, NEW was \in Stock, Stocked(was), NEW l \in Lines, NEW q \in Nat
    PROVE  LET new == InStoroom(st, was, Slip, Data[l], q, RoomType[Data[l].to], AllSaves) IN
           /\ new.inventory = [st.inventory EXCEPT
                ![ToRow(l)] = InRow(was.inventory[ToRow(l)], Slip, Data[l], q)]
           /\ \A a \in Assets : st.asset[a].exists => new.asset[a].exists
           /\ Adds(was, Data[l], AllSaves)
<1> DEFINE a0 == Data[l].asset
           room == RoomType[Data[l].to]
<1>1. Data[l].kind = "SQN" => was.asset[a0].exists
  BY DEF Stocked
<1>2. Data[l].kind \in Kinds /\ a0 \in Assets /\ ToRow(l) = <<Data[l].to, Data[l].item>>
  BY LineKeys DEF LineData, ToRow
<1>3. CASE Data[l].kind = "SQN"
  <2> DEFINE new == [exists   |-> TRUE,
                     location |-> Data[l].to,
                     status   |-> InStatus(room, Data[l], st.asset[a0].status,
                                           ~ was.inventory[ToRow(l)].exists)]
  <2>1. st.asset \in [Assets -> Asset]
    BY StockTables
  <2>2. new.exists
    OBVIOUS
  <2>3. /\ InSqn(st, was, Slip, Data[l], q, room, AllSaves).inventory = [st.inventory EXCEPT
             ![ToRow(l)] = InRow(was.inventory[ToRow(l)], Slip, Data[l], q)]
        /\ InSqn(st, was, Slip, Data[l], q, room, AllSaves).asset =
             [st.asset EXCEPT ![a0] = new]
    BY <1>1, <1>2, <1>3 DEF InSqn, Put, AllSaves
  <2> HIDE DEF new, room
  <2>4. \A a \in Assets : st.asset[a].exists => [st.asset EXCEPT ![a0] = new][a].exists
    BY <1>2, <2>1, <2>2
  <2>5. InStoroom(st, was, Slip, Data[l], q, room, AllSaves)
          = InSqn(st, was, Slip, Data[l], q, room, AllSaves)
    BY <1>3 DEF InStoroom
  <2>6. Adds(was, Data[l], AllSaves)
    BY <1>1, <1>3 DEF Adds, AllSaves
  <2> QED BY <2>3, <2>4, <2>5, <2>6 DEF room
<1>4. CASE Data[l].kind = "LOT"
  BY <1>1, <1>2, <1>4 DEF InStoroom, InLot, Put, AllSaves, Adds
<1>5. CASE Data[l].kind = "OTHER"
  <2>1. InStoroom(st, was, Slip, Data[l], q, room, AllSaves) =
          [st EXCEPT !.inventory = [st.inventory EXCEPT
             ![ToRow(l)] = InRow(was.inventory[ToRow(l)], Slip, Data[l], q)]]
    BY <1>1, <1>2, <1>5 DEF InStoroom, InOther, Put, AllSaves
  <2>2. Adds(was, Data[l], AllSaves)
    BY <1>1, <1>2, <1>5 DEF Adds, AllSaves, FromRow, ToRow
  <2> QED BY <2>1, <2>2, OtherTables
<1> QED BY <1>2, <1>3, <1>4, <1>5 DEF Kinds

----------------------------------------------------------------------------
(* The steps.                                                              *)

\* A step that moves, records and posts nothing.
LEMMA MovesQuiet ==
    ASSUME TypeOK, Underway, UNCHANGED <<erp, bookvars>>,
           \A t \in Sessions : seen'[t] \in {seen[t], InitStock},
           \A t \in Sessions :
             \/ pc'[t] \notin BeforeInLedger \/ pc'[t] \in BeforeErp
             \/ /\ pc'[t] = pc[t] /\ cur'[t] = cur[t] /\ qty'[t] = qty[t]
                /\ seen'[t] = seen[t]
             \/ /\ pc'[t] \in {"status", "readOut"} /\ cur'[t] = cur[t] /\ qty'[t] = qty[t]
                /\ Data[cur[t]].route = "erp" => erp[cur[t]] = qty[t]
    PROVE  Underway'
<1> USE DEF BeforeInLedger, BeforeIn, BeforeOutLedger, BeforeOut, BeforeErp
<1>1. stock' = stock /\ moved' = moved /\ invtrans' = invtrans /\ erp' = erp
  BY DEF bookvars
<1>2. Stocked(stock)'
  BY <1>1 DEF Underway, Stocked
<1>3. ASSUME NEW t \in Sessions PROVE Stocked(seen[t])'
  BY StockedInit DEF Underway, Stocked
<1>4. ASSUME NEW t \in Sessions PROVE Moving(t)'
  BY <1>1 DEF Underway, Moving
<1> QED BY <1>2, <1>3, <1>4 DEF Underway

\* A step of session s that moves, records or posts something of its line.
LEMMA MovesOne ==
    ASSUME RowsApart, TypeOK, Once, Underway, NEW s \in Sessions,
           pc[s] \in BeforeInLedger,
           \A t \in Sessions \ {s} :
             pc'[t] = pc[t] /\ cur'[t] = cur[t] /\ qty'[t] = qty[t] /\ seen'[t] = seen[t],
           \A l \in Lines \ {cur[s]} :
             erp'[l] = erp[l] /\ moved'[l] = moved[l] /\ invtrans'[l] = invtrans[l],
           \A k \in Keys \ {FromRow(cur[s]), ToRow(cur[s])} :
             stock'.inventory[k] = stock.inventory[k],
           Stocked(stock)', Stocked(seen[s])', Moving(s)'
    PROVE  Underway'
<1> SUFFICES ASSUME NEW t \in Sessions \ {s} PROVE Stocked(seen[t])' /\ Moving(t)'
  BY DEF Underway
<1>1. Stocked(seen[t])'
  BY DEF Underway, Stocked
<1>2. CASE pc[t] \notin BeforeInLedger
  BY <1>1, <1>2 DEF Moving
<1>3. CASE pc[t] \in BeforeInLedger
  <2>1. pc[s] \in Receiving /\ pc[t] \in Receiving /\ Request(s) /\ Request(t)
    BY <1>3 DEF Once, Receiving
  <2>2. cur[t] # cur[s] /\ cur[t] \in Lines
    BY <2>1, LinesApart, OneReceiver, RequestLine
  <2>3. FromRow(cur[t]) \in Keys /\ ToRow(cur[t]) \in Keys
    BY <2>2, LineKeys DEF FromRow, ToRow
  <2>4. {FromRow(cur[s]), ToRow(cur[s])} \cap {FromRow(cur[t]), ToRow(cur[t])} = {}
    BY <2>1 DEF RowsApart, Request
  <2>5. /\ stock'.inventory[FromRow(cur[t])] = stock.inventory[FromRow(cur[t])]
        /\ stock'.inventory[ToRow(cur[t])] = stock.inventory[ToRow(cur[t])]
    BY <2>3, <2>4
  <2>6. Moving(t)
    BY DEF Underway
  <2> QED BY <1>1, <2>2, <2>5, <2>6 DEF Moving
<1> QED BY <1>2, <1>3

\* A request that moves something has a line and a quantity.
LEMMA AtWork ==
    ASSUME TypeOK, Once, NEW s \in Sessions, pc[s] \in BeforeInLedger
    PROVE  /\ cur[s] \in Lines /\ qty[s] \in Nat \ {0} /\ Data[cur[s]].orderqty \in Nat
           /\ qty[s] <= Data[cur[s]].orderqty
           /\ FromRow(cur[s]) \in Keys /\ ToRow(cur[s]) \in Keys
           /\ Request(s) /\ pc[s] \in Receiving
<1>1. pc[s] \in Receiving /\ Request(s)
  BY DEF Once, Receiving
<1>2. cur[s] \in Lines /\ Data[cur[s]].orderqty \in Nat /\ qty[s] \in Nat
  BY <1>1, RequestLine
<1>3. qty[s] # 0 /\ qty[s] <= Data[cur[s]].orderqty
  BY <1>1, <1>2 DEF Request
<1> QED BY <1>1, <1>2, <1>3, LineKeys DEF FromRow, ToRow

\* The movements of a request take its whole quantity at once, and bring it
\* when nothing of it has arrived.
LEMMA OutExact ==
    ASSUME NothingSwallowed, TypeOK, Once, Underway, NEW s \in Sessions, OutStock(s)
    PROVE  /\ moved' = AddOut(moved, cur[s], qty[s])
           /\ moved[cur[s]].out = 0 /\ moved[cur[s]].in = 0
           /\ stock' = OutStoroom(stock, seen[s], Slip, Data[cur[s]], qty[s], AllSaves)
           /\ stock'.inventory = [stock.inventory EXCEPT
                ![FromRow(cur[s])] = OutRow(seen[s].inventory[FromRow(cur[s])], Slip, qty[s])]
           /\ \A a \in Assets : stock'.asset[a].exists = stock.asset[a].exists
<1> USE DEF BeforeInLedger, BeforeIn, BeforeOutLedger, BeforeOut, BeforeErp
<1>1. pc[s] = "out"
  BY DEF OutStock, At
<1>2. /\ cur[s] \in Lines /\ qty[s] \in Nat /\ Request(s) /\ pc[s] \in Receiving
  BY <1>1, AtWork
<1>3. moved[cur[s]].out = 0 /\ moved[cur[s]].in = 0
  BY <1>1, <1>2 DEF Request
<1>4. Saves(s, <<Line(s).from, Line(s).item>>) = {AllSaves}
  <2>1. Moving(s)
    BY DEF Underway
  <2>2. seen[s].inventory[FromRow(cur[s])] = stock.inventory[FromRow(cur[s])]
    BY <1>1, <2>1 DEF Moving
  <2>3. <<Line(s).from, Line(s).item>> = FromRow(cur[s])
    BY DEF FromRow, Line
  <2> QED BY <2>2, <2>3 DEF NothingSwallowed, Saves
<1>5. /\ stock' = OutStoroom(stock, seen[s], Slip, Data[cur[s]], qty[s], AllSaves)
      /\ moved' = IF Takes(seen[s], Data[cur[s]], AllSaves)
                  THEN AddOut(moved, cur[s], qty[s]) ELSE moved
  BY <1>4 DEF OutStock, Line
<1>6. stock \in Stock /\ seen[s] \in Stock /\ Stocked(seen[s])
  BY DEF TypeOK, Underway
<1>7. PICK l \in Lines : l = cur[s]
  BY <1>2
<1>8. /\ stock'.inventory = [stock.inventory EXCEPT
           ![FromRow(l)] = OutRow(seen[s].inventory[FromRow(l)], Slip, qty[s])]
      /\ \A a \in Assets : stock'.asset[a].exists = stock.asset[a].exists
      /\ Takes(seen[s], Data[l], AllSaves)
  BY <1>2, <1>5, <1>6, <1>7, OutWrites
<1> QED BY <1>3, <1>5, <1>7, <1>8

LEMMA InExact ==
    ASSUME NothingSwallowed, TypeOK, Once, Underway, NEW s \in Sessions, InStock(s)
    PROVE  /\ moved' = AddIn(moved, cur[s], qty[s])
           /\ moved[cur[s]].out = qty[s] /\ moved[cur[s]].in = 0
           /\ stock' = InStoroom(stock, seen[s], Slip, Data[cur[s]], qty[s],
                               RoomType[Data[cur[s]].to], AllSaves)
           /\ stock'.inventory = [stock.inventory EXCEPT
                ![ToRow(cur[s])] =
                  InRow(seen[s].inventory[ToRow(cur[s])], Slip, Data[cur[s]], qty[s])]
           /\ \A a \in Assets : stock.asset[a].exists => stock'.asset[a].exists
<1> USE DEF BeforeInLedger, BeforeIn, BeforeOutLedger, BeforeOut, BeforeErp
<1>1. pc[s] = "in"
  BY DEF InStock, At
<1>2. /\ cur[s] \in Lines /\ qty[s] \in Nat /\ Request(s) /\ pc[s] \in Receiving
  BY <1>1, AtWork
<1>3. moved[cur[s]].out = qty[s] /\ moved[cur[s]].in = 0
  BY <1>1, <1>2 DEF Request, Underway, Moving
<1>4. Saves(s, <<Line(s).to, Line(s).item>>) = {AllSaves}
  <2>1. Moving(s)
    BY DEF Underway
  <2>2. seen[s].inventory[ToRow(cur[s])] = stock.inventory[ToRow(cur[s])]
    BY <1>1, <2>1 DEF Moving
  <2>3. <<Line(s).to, Line(s).item>> = ToRow(cur[s])
    BY DEF ToRow, Line
  <2> QED BY <2>2, <2>3 DEF NothingSwallowed, Saves
<1>5. /\ stock' = InStoroom(stock, seen[s], Slip, Data[cur[s]], qty[s],
                            RoomType[Data[cur[s]].to], AllSaves)
      /\ moved' = IF Adds(seen[s], Data[cur[s]], AllSaves)
                  THEN AddIn(moved, cur[s], qty[s]) ELSE moved
  BY <1>4 DEF InStock, Line
<1>6. stock \in Stock /\ seen[s] \in Stock /\ Stocked(seen[s])
  BY DEF TypeOK, Underway
<1>7. PICK l \in Lines : l = cur[s]
  BY <1>2
<1>8. /\ stock'.inventory = [stock.inventory EXCEPT
           ![ToRow(l)] = InRow(seen[s].inventory[ToRow(l)], Slip, Data[l], qty[s])]
      /\ \A a \in Assets : stock.asset[a].exists => stock'.asset[a].exists
      /\ Adds(seen[s], Data[l], AllSaves)
  BY <1>2, <1>5, <1>6, <1>7, InWrites
<1> QED BY <1>3, <1>5, <1>7, <1>8

\* The actions that move, record and post nothing.
Still(s) ==
    \/ Open(s) \/ (\E l \in Lines : \E q \in 1 .. Data[l].orderqty : Confirm(s, l, q))
    \/ SavePage(s) \/ InsertIface(s) \/ ErpRefuses(s) \/ SetReceived(s) \/ EndPay(s)
    \/ AddTrade(s) \/ CreateTk(s) \/ Save(s) \/ RollUpMr(s) \/ CloseMr(s)
    \/ SumInv(s) \/ RecalcInv(s) \/ QueryThrows(s) \/ Throws(s) \/ Crash(s)

LEMMA UnderwayStill ==
    ASSUME TypeOK, Underway, NEW s \in Sessions, Still(s)
    PROVE  Underway' /\ moved' = moved
<1> DEFINE Kept(t) ==
             \/ pc'[t] \notin BeforeInLedger \/ pc'[t] \in BeforeErp
             \/ /\ pc'[t] = pc[t] /\ cur'[t] = cur[t] /\ qty'[t] = qty[t]
                /\ seen'[t] = seen[t]
             \/ /\ pc'[t] \in {"status", "readOut"} /\ cur'[t] = cur[t] /\ qty'[t] = qty[t]
                /\ Data[cur[t]].route = "erp" => erp[cur[t]] = qty[t]
           Goal == /\ UNCHANGED <<erp, bookvars>>
                   /\ \A t \in Sessions : seen'[t] \in {seen[t], InitStock}
                   /\ \A t \in Sessions : Kept(t)
<1> SUFFICES Goal
  BY MovesQuiet DEF bookvars
<1>0. Moving(s)
  BY DEF Underway
<1> USE DEF TypeOK, BeforeInLedger, BeforeIn, BeforeOutLedger, BeforeOut, BeforeErp,
            bookvars, reqvars
<1>1. ASSUME NEW l \in Lines, NEW q \in 1 .. Data[l].orderqty, Confirm(s, l, q) PROVE Goal
  BY <1>1 DEF Confirm
<1>2. CASE Open(s)
  BY <1>2 DEF Open, At
<1>3. CASE SavePage(s)
  BY <1>3 DEF SavePage, At, Goto
<1>4. CASE InsertIface(s)
  BY <1>4 DEF InsertIface, At, Goto, Line
<1>5. CASE ErpRefuses(s)
  BY <1>5 DEF ErpRefuses, At, Finish
<1>6. CASE SetReceived(s)
  BY <1>0, <1>6 DEF SetReceived, At, Goto, Moving
<1>7. CASE EndPay(s)
  BY <1>7 DEF EndPay, At, Goto
<1>8. CASE AddTrade(s)
  BY <1>8 DEF AddTrade, At, Goto, Line
<1>9. CASE CreateTk(s)
  BY <1>9 DEF CreateTk, At, Goto
<1>10. CASE Save(s)
  BY <1>10 DEF Save, At, Goto
<1>11. CASE RollUpMr(s)
  BY <1>11 DEF RollUpMr, At, Goto
<1>12. CASE CloseMr(s)
  BY <1>12 DEF CloseMr, At, Goto
<1>13. CASE RecalcInv(s)
  BY <1>13 DEF RecalcInv, At, Finish
<1>14. CASE QueryThrows(s)
  BY <1>14 DEF QueryThrows, At, Finish
<1>15. CASE Throws(s)
  BY <1>15 DEF Throws, At, Finish
<1>16. CASE Crash(s)
  BY <1>16 DEF Crash, At, Finish
<1>17. CASE SumInv(s)
  BY <1>17 DEF SumInv, At
<1> QED BY <1>1, <1>2, <1>3, <1>4, <1>5, <1>6, <1>7, <1>8, <1>9, <1>10, <1>11, <1>12, <1>13, <1>14, <1>15, <1>16, <1>17 DEF Still

\* The actions that do.
LEMMA UnderwayErp ==
    ASSUME RowsApart, TypeOK, Once, Underway, NEW s \in Sessions, ErpPosts(s) \/ ErpIsLost(s)
    PROVE  Underway' /\ moved' = moved
<1> USE DEF BeforeInLedger, BeforeIn, BeforeOutLedger, BeforeOut, BeforeErp
<1>1. pc[s] = "erp" /\ stock' = stock /\ moved' = moved /\ invtrans' = invtrans
  BY DEF ErpPosts, ErpIsLost, At, bookvars
<1>2. /\ cur[s] \in Lines /\ qty[s] \in Nat /\ Request(s) /\ pc[s] \in Receiving
  BY <1>1, AtWork
<1>3. erp[cur[s]] = 0
  BY <1>1, <1>2 DEF Request
<1>4. \A l \in Lines \ {cur[s]} : erp'[l] = erp[l]
  BY DEF ErpPosts, ErpIsLost, TypeOK
<1>5. /\ \A t \in Sessions \ {s} :
           pc'[t] = pc[t] /\ cur'[t] = cur[t] /\ qty'[t] = qty[t] /\ seen'[t] = seen[t]
      /\ seen'[s] \in {seen[s], InitStock}
  BY DEF ErpPosts, ErpIsLost, Goto, Finish, TypeOK
<1>6. Stocked(stock)' /\ Stocked(seen[s])'
  BY <1>1, <1>5, StockedInit DEF Underway, Stocked
<1>7. Moving(s)'
  <2>1. CASE ErpPosts(s)
    BY <1>1, <1>2, <1>3, <2>1 DEF ErpPosts, Goto, TypeOK, Moving
  <2>2. CASE ErpIsLost(s)
    BY <2>2 DEF ErpIsLost, Finish, TypeOK, Moving
  <2> QED BY <2>1, <2>2
<1> QED BY <1>1, <1>4, <1>5, <1>6, <1>7, MovesOne

LEMMA UnderwayRead ==
    ASSUME RowsApart, TypeOK, Once, Underway, NEW s \in Sessions, ReadOut(s) \/ ReadIn(s)
    PROVE  Underway' /\ moved' = moved
<1> USE DEF BeforeInLedger, BeforeIn, BeforeOutLedger, BeforeOut, BeforeErp
<1>1. /\ pc[s] \in {"readOut", "readIn"}
      /\ stock' = stock /\ moved' = moved /\ invtrans' = invtrans /\ erp' = erp
  BY DEF ReadOut, ReadIn, Read, At, bookvars
<1>2. /\ \A t \in Sessions \ {s} :
           pc'[t] = pc[t] /\ cur'[t] = cur[t] /\ qty'[t] = qty[t] /\ seen'[t] = seen[t]
      /\ seen'[s] = stock /\ cur'[s] = cur[s] /\ qty'[s] = qty[s]
      /\ \/ pc[s] = "readOut" /\ pc'[s] = "out"
         \/ pc[s] = "readIn" /\ pc'[s] = "in"
  BY DEF ReadOut, ReadIn, Read, At, TypeOK
<1>3. Stocked(stock)' /\ Stocked(seen[s])'
  BY <1>1, <1>2 DEF Underway, Stocked
<1>4. Moving(s)'
  <2>1. Moving(s)
    BY DEF Underway
  <2> QED BY <1>1, <1>2, <2>1 DEF Moving
<1> QED BY <1>1, <1>2, <1>3, <1>4, MovesOne

LEMMA UnderwayLedger ==
    ASSUME RowsApart, NothingSwallowed, TypeOK, Once, Underway, NEW s \in Sessions,
           OutLedger(s) \/ InLedger(s)
    PROVE  Underway' /\ moved' = moved
<1> USE DEF BeforeInLedger, BeforeIn, BeforeOutLedger, BeforeOut, BeforeErp
<1>1. /\ pc[s] \in {"outLedger", "inLedger"}
      /\ stock' = stock /\ moved' = moved /\ erp' = erp
      /\ \A t \in Sessions \ {s} : pc'[t] = pc[t]
      /\ cur' = cur /\ qty' = qty /\ seen' = seen
  BY DEF OutLedger, InLedger, Goto, At, TypeOK
<1>2. /\ cur[s] \in Lines /\ qty[s] \in Nat /\ Request(s) /\ pc[s] \in Receiving
  BY <1>1, AtWork
<1>3. \A l \in Lines \ {cur[s]} : invtrans'[l] = invtrans[l]
  BY <1>2 DEF OutLedger, InLedger, AddOut, AddIn, TypeOK
<1>4. Stocked(stock)' /\ Stocked(seen[s])'
  BY <1>1 DEF Underway, Stocked
<1>5. Moving(s)'
  <2>1. CASE OutLedger(s)
    <3>1. pc[s] = "outLedger" /\ pc'[s] = "readIn"
      BY <2>1 DEF OutLedger, At, Goto, TypeOK
    <3>2. invtrans' = AddOut(invtrans, cur[s], qty[s])
      BY <2>1 DEF OutLedger, Recorded, NothingSwallowed
    <3>3. invtrans[cur[s]].out = 0
      BY <1>2, <3>1 DEF Request
    <3>4. invtrans'[cur[s]].out = qty[s]
      BY <1>2, <3>2, <3>3 DEF AddOut, TypeOK
    <3>5. Moving(s)
      BY DEF Underway
    <3> QED BY <1>1, <3>1, <3>4, <3>5 DEF Moving
  <2>2. CASE InLedger(s)
    BY <2>2 DEF InLedger, Goto, TypeOK, Moving
  <2> QED BY <2>1, <2>2
<1> QED BY <1>1, <1>3, <1>4, <1>5, MovesOne

LEMMA UnderwayStock ==
    ASSUME RowsApart, NothingSwallowed, TypeOK, Once, Underway, NEW s \in Sessions,
           OutStock(s) \/ InStock(s)
    PROVE  Underway'
<1> USE DEF BeforeInLedger, BeforeIn, BeforeOutLedger, BeforeOut, BeforeErp
<1>1. /\ pc[s] \in {"out", "in"}
      /\ invtrans' = invtrans /\ erp' = erp
      /\ \A t \in Sessions \ {s} : pc'[t] = pc[t]
      /\ cur' = cur /\ qty' = qty /\ seen' = seen
  BY DEF OutStock, InStock, Goto, At, TypeOK
<1>2. /\ cur[s] \in Lines /\ qty[s] \in Nat /\ FromRow(cur[s]) \in Keys /\ ToRow(cur[s]) \in Keys
  BY <1>1, AtWork
<1>3. Moving(s) /\ Stocked(stock) /\ Stocked(seen[s]) /\ seen[s] \in Stock /\ stock \in Stock
  BY DEF Underway, TypeOK
<1>4. stock.inventory \in [Keys -> Row]
  BY <1>3, StockTables
<1>5. CASE OutStock(s)
  <2> DEFINE row == OutRow(seen[s].inventory[FromRow(cur[s])], Slip, qty[s])
  <2>1. row.exists
    BY <1>2, <1>3 DEF OutRow, Stocked
  <2>2. /\ moved' = AddOut(moved, cur[s], qty[s])
        /\ moved[cur[s]].out = 0
        /\ stock'.inventory = [stock.inventory EXCEPT ![FromRow(cur[s])] = row]
        /\ \A a \in Assets : stock'.asset[a].exists = stock.asset[a].exists
    BY <1>5, OutExact
  <2>3. pc[s] = "out" /\ pc'[s] = "outLedger"
    BY <1>5 DEF OutStock, At, Goto, TypeOK
  <2> HIDE DEF row
  <2>4. /\ \A k \in Keys \ {FromRow(cur[s])} : stock'.inventory[k] = stock.inventory[k]
        /\ stock'.inventory[FromRow(cur[s])] = row
    BY <1>2, <1>4, <2>2
  <2>5. /\ moved'[cur[s]].out = qty[s]
        /\ \A l \in Lines \ {cur[s]} : moved'[l] = moved[l]
    BY <1>2, <2>2 DEF AddOut, TypeOK
  <2>6. Stocked(stock)'
    <3> SUFFICES ASSUME NEW l \in Lines
                 PROVE  /\ stock'.inventory[FromRow(l)].exists
                        /\ Data[l].kind = "SQN" => stock'.asset[Data[l].asset].exists
      BY DEF Stocked
    <3>1. FromRow(l) \in Keys /\ Data[l].asset \in Assets
      BY LineKeys DEF FromRow
    <3> QED BY <1>3, <2>1, <2>2, <2>4, <3>1 DEF Stocked
  <2>7. Stocked(seen[s])'
    BY <1>1, <1>3 DEF Stocked
  <2>8. Moving(s)'
    BY <1>1, <1>3, <2>3, <2>5 DEF Moving
  <2> QED BY <1>1, <2>4, <2>5, <2>6, <2>7, <2>8, MovesOne
<1>6. CASE InStock(s)
  <2> DEFINE row == InRow(seen[s].inventory[ToRow(cur[s])], Slip, Data[cur[s]], qty[s])
  <2>1. row.exists
    BY DEF InRow
  <2>2. /\ moved' = AddIn(moved, cur[s], qty[s])
        /\ moved[cur[s]].in = 0
        /\ stock'.inventory = [stock.inventory EXCEPT ![ToRow(cur[s])] = row]
        /\ \A a \in Assets : stock.asset[a].exists => stock'.asset[a].exists
    BY <1>6, InExact
  <2>3. pc[s] = "in" /\ pc'[s] = "inLedger"
    BY <1>6 DEF InStock, At, Goto, TypeOK
  <2> HIDE DEF row
  <2>4. /\ \A k \in Keys \ {ToRow(cur[s])} : stock'.inventory[k] = stock.inventory[k]
        /\ stock'.inventory[ToRow(cur[s])] = row
    BY <1>2, <1>4, <2>2
  <2>5. /\ moved'[cur[s]].in = qty[s] /\ moved'[cur[s]].out = moved[cur[s]].out
        /\ \A l \in Lines \ {cur[s]} : moved'[l] = moved[l]
    BY <1>2, <2>2 DEF AddIn, TypeOK
  <2>6. Stocked(stock)'
    <3> SUFFICES ASSUME NEW l \in Lines
                 PROVE  /\ stock'.inventory[FromRow(l)].exists
                        /\ Data[l].kind = "SQN" => stock'.asset[Data[l].asset].exists
      BY DEF Stocked
    <3>1. FromRow(l) \in Keys /\ Data[l].asset \in Assets
      BY LineKeys DEF FromRow
    <3> QED BY <1>3, <2>1, <2>2, <2>4, <3>1 DEF Stocked
  <2>7. Stocked(seen[s])'
    BY <1>1, <1>3 DEF Stocked
  <2>8. Moving(s)'
    BY <1>1, <1>3, <2>3, <2>5 DEF Moving
  <2> QED BY <1>1, <2>4, <2>5, <2>6, <2>7, <2>8, MovesOne
<1> QED BY <1>5, <1>6

LEMMA UnderwayNext ==
    ASSUME RowsApart, NothingSwallowed
    PROVE  TypeOK /\ Once /\ Underway /\ [Next]_vars => Underway'
<1> SUFFICES ASSUME TypeOK, Once, Underway, [Next]_vars PROVE Underway'
  OBVIOUS
<1>1. CASE UNCHANGED vars
  BY <1>1, MovesQuiet DEF vars, reqvars, bookvars
<1>2. ASSUME NEW s \in Sessions, Still(s) PROVE Underway'
  BY <1>2, UnderwayStill
<1>3. ASSUME NEW s \in Sessions, ErpPosts(s) \/ ErpIsLost(s) PROVE Underway'
  BY <1>3, UnderwayErp
<1>4. ASSUME NEW s \in Sessions, ReadOut(s) \/ ReadIn(s) PROVE Underway'
  BY <1>4, UnderwayRead
<1>5. ASSUME NEW s \in Sessions, OutLedger(s) \/ InLedger(s) PROVE Underway'
  BY <1>5, UnderwayLedger
<1>6. ASSUME NEW s \in Sessions, OutStock(s) \/ InStock(s) PROVE Underway'
  BY <1>6, UnderwayStock
<1> QED BY <1>1, <1>2, <1>3, <1>4, <1>5, <1>6 DEF Next, User, Serve, Fault, Still

LEMMA UnderwayInvariant ==
    ASSUME RowsApart, NothingSwallowed
    PROVE  Spec => [](TypeOK /\ Once /\ Underway)
<1>1. DisjointLines
  BY LinesApart
<1>2. Init => TypeOK /\ Once /\ Underway
  BY TypeInit, OnceInit, MovesInit
<1>3. TypeOK /\ Once /\ Underway /\ [Next]_vars => (TypeOK /\ Once /\ Underway)'
  <2>1. TypeOK /\ Once => LineAtWork
    BY RequestLine DEF Once, LineAtWork
  <2> QED BY <1>1, <2>1, TypeNext, OnceNext, UnderwayNext
<1> QED BY <1>2, <1>3, PTL DEF Spec

\* A movement out of the storeroom is a step of the promise.
LEMMA OutIsTake ==
    ASSUME NothingSwallowed, TypeOK, Once, Underway, NEW s \in Sessions, OutStock(s),
           NEW l \in Lines, l = cur[s]
    PROVE  Promise!Take(l)
<1>1. l \in Lines /\ qty[s] \in Nat \ {0} /\ qty[s] <= Data[l].orderqty /\ Data[l].orderqty \in Nat
  BY AtWork DEF OutStock, At, BeforeInLedger, BeforeIn, BeforeOutLedger, BeforeOut
<1>2. moved' = AddOut(moved, l, qty[s]) /\ moved[l].out = 0 /\ moved[l].in = 0
  BY OutExact
<1>3. /\ moved'[l].out = moved[l].out + qty[s] /\ moved'[l].in = moved[l].in
      /\ \A m \in Lines \ {l} : moved'[m] = moved[m]
  BY <1>1, <1>2 DEF AddOut, TypeOK
<1> DEFINE taken == [m \in Lines |-> moved[m].out]
<1>4. [m \in Lines |-> moved'[m].out] = [taken EXCEPT ![l] = @ + qty[s]]
  BY <1>1, <1>3
<1>5. [m \in Lines |-> moved'[m].in] = [m \in Lines |-> moved[m].in]
  BY <1>1, <1>3
<1>6. qty[s] \in 1 .. [m \in Lines |-> Data[m].orderqty][l] - taken[l]
  BY <1>1, <1>2
<1>7. taken[l] = [m \in Lines |-> moved[m].in][l]
  BY <1>1, <1>2
<1> QED BY <1>1, <1>4, <1>5, <1>6, <1>7 DEF Promise!Take

\* A movement into the other storeroom is one as well.
LEMMA InIsArrive ==
    ASSUME NothingSwallowed, TypeOK, Once, Underway, NEW s \in Sessions, InStock(s),
           NEW l \in Lines, l = cur[s]
    PROVE  Promise!Arrive(l)
<1> DEFINE arrived == [m \in Lines |-> moved[m].in]
<1>1. l \in Lines /\ qty[s] \in Nat
  BY AtWork DEF InStock, At, BeforeInLedger, BeforeIn
<1>2. moved' = AddIn(moved, l, qty[s]) /\ moved[l].out = qty[s] /\ moved[l].in = 0
  BY InExact
<1>3. /\ moved'[l].in = moved[l].out /\ moved'[l].out = moved[l].out
      /\ \A m \in Lines \ {l} : moved'[m] = moved[m]
  BY <1>1, <1>2 DEF AddIn, TypeOK
<1>4. [m \in Lines |-> moved'[m].in]
        = [arrived EXCEPT ![l] = [m \in Lines |-> moved[m].out][l]]
  BY <1>1, <1>3
<1>5. [m \in Lines |-> moved'[m].out] = [m \in Lines |-> moved[m].out]
  BY <1>1, <1>3
<1> QED BY <1>1, <1>4, <1>5 DEF Promise!Arrive

LEMMA StepIsPromised ==
    ASSUME RowsApart, NothingSwallowed, TypeOK, Once, Underway, [Next]_vars
    PROVE  [Promise!Next]_(Promise!vars)
<1>1. ASSUME moved' = moved PROVE UNCHANGED Promise!vars
  BY <1>1 DEF Promise!vars
<1>2. CASE UNCHANGED vars
  BY <1>1, <1>2 DEF vars, bookvars
<1>3. ASSUME NEW s \in Sessions, OutStock(s) PROVE Promise!Next
  <2>1. cur[s] \in Lines
    BY <1>3, AtWork DEF OutStock, At, BeforeInLedger, BeforeIn, BeforeOutLedger, BeforeOut
  <2>2. PICK l \in Lines : l = cur[s]
    BY <2>1
  <2> QED BY <1>3, <2>2, OutIsTake DEF Promise!Next
<1>4. ASSUME NEW s \in Sessions, InStock(s) PROVE Promise!Next
  <2>1. cur[s] \in Lines
    BY <1>4, AtWork DEF InStock, At, BeforeInLedger, BeforeIn, BeforeOutLedger, BeforeOut
  <2>2. PICK l \in Lines : l = cur[s]
    BY <2>1
  <2> QED BY <1>4, <2>2, InIsArrive DEF Promise!Next
<1>5. ASSUME NEW s \in Sessions,
             \/ Still(s) \/ ErpPosts(s) \/ ErpIsLost(s) \/ ReadOut(s) \/ ReadIn(s)
             \/ OutLedger(s) \/ InLedger(s)
      PROVE  moved' = moved
  BY <1>5, UnderwayStill, UnderwayErp, UnderwayRead, UnderwayLedger
<1> QED BY <1>1, <1>2, <1>3, <1>4, <1>5 DEF Next, User, Serve, Fault, Still

\* The receipt implements StockMove: the goods of each line leave and then
\* arrive, in the same quantity, at most the packed one, for any lines and
\* sessions, whatever dies, is refused, lost or thrown, when the lines of
\* different sessions are on different inventory rows and the movement
\* procedures (out_storoom, in_storoom) swallow no exception.
THEOREM PromiseKept ==
    ASSUME RowsApart, NothingSwallowed
    PROVE  Spec => MovesAsPromised
<1>1. Init => Promise!Init
  BY DEF Init, Promise!Init, Zero
<1>2. TypeOK /\ Once /\ Underway /\ [Next]_vars => [Promise!Next]_(Promise!vars)
  BY StepIsPromised
<1> QED BY <1>1, <1>2, UnderwayInvariant, PTL DEF Spec, MovesAsPromised, Promise!Spec

----------------------------------------------------------------------------
(* What a page says of its lines.                                          *)

\* The steps between setting the line on the page and the end of the movement.
Movement == BeforeInLedger \ (BeforeErp \cup {"status"})

Blank == [status |-> "notReceived", yjsqty |-> 0]

\* The row of a line says what was moved, recorded and posted of it.
Told(l, row) == LET n == row.yjsqty IN
    /\ moved[l] = [out |-> n, in |-> n]
    /\ invtrans[l] = [out |-> n, in |-> n]
    /\ Data[l].route = "erp" => erp[l] = n
    /\ row.status = "received" <=> n = Data[l].orderqty

\* A page has modified lines of its own session only; what it says of them is
\* what was done, except of the line its request is moving.  That line has not
\* been received, and is not saved before the movement is over.
Shown(s) ==
    /\ page[s].dirty \subseteq MayOpen[s]
    /\ \A l \in Lines \ erpiface : page[s].line[l] = Blank
    /\ \A l \in page[s].dirty :
         \/ pc[s] \in Movement /\ cur[s] = l
         \/ page[s].line[l].status # "notReceived" /\ Told(l, page[s].line[l])
    /\ pc[s] \in BeforeInLedger =>
         /\ transferline[cur[s]].status = "notReceived"
         /\ page[s].line[cur[s]] =
              IF pc[s] \in Movement
              THEN [status |-> IF qty[s] = Data[cur[s]].orderqty
                               THEN "received" ELSE "partReceived",
                    yjsqty |-> qty[s]]
              ELSE Blank

\* The inductive invariant, on top of Once and Underway.
Saved ==
    /\ SavedIsMoved
    /\ \A l \in Lines \ erpiface : transferline[l] = Blank
    /\ \A s \in Sessions : Shown(s)

LEMMA SavedInit == Init => Saved
<1> SUFFICES ASSUME Init PROVE Saved
  OBVIOUS
<1>1. SavedIsMoved /\ \A l \in Lines \ erpiface : transferline[l] = Blank
  BY DEF Init, SavedIsMoved, Blank
<1>2. ASSUME NEW s \in Sessions PROVE Shown(s)
  BY DEF Init, Shown, Fresh, Blank, BeforeInLedger, BeforeIn, BeforeOutLedger, BeforeOut,
     BeforeErp
<1> QED BY <1>1, <1>2 DEF Saved

\* A step of session s, other than the save, that moves, records or posts at
\* most something of its own line.
LEMMA SavedStep ==
    ASSUME RowsApart, TypeOK, Once, Saved, NEW s \in Sessions,
           transferline' = transferline, erpiface \subseteq erpiface',
           \A t \in Sessions \ {s} :
             pc'[t] = pc[t] /\ cur'[t] = cur[t] /\ qty'[t] = qty[t] /\ page'[t] = page[t],
           \A l \in Lines :
             \/ l = cur[s] /\ pc[s] \in BeforeInLedger
             \/ erp'[l] = erp[l] /\ moved'[l] = moved[l] /\ invtrans'[l] = invtrans[l],
           Shown(s)'
    PROVE  Saved'
<1>1. \A l \in Lines \ erpiface' : transferline'[l] = Blank
  BY DEF Saved
<1>2. SavedIsMoved'
  <2> SUFFICES ASSUME NEW l \in Lines, transferline[l].status # "notReceived"
               PROVE  Told(l, transferline[l])'
    BY DEF SavedIsMoved, Told
  <2>1. l # cur[s] \/ pc[s] \notin BeforeInLedger
    BY DEF Saved, Shown
  <2>2. erp'[l] = erp[l] /\ moved'[l] = moved[l] /\ invtrans'[l] = invtrans[l]
    BY <2>1
  <2> QED BY <2>2 DEF Saved, SavedIsMoved, Told
<1>3. ASSUME NEW t \in Sessions \ {s} PROVE Shown(t)'
  <2>1. Shown(t) /\ MayOpen[t] \subseteq Lines
    BY ReceiptAssumption DEF Saved, ReceiptAssumption
  <2>2. \A l \in MayOpen[t] : l # cur[s] \/ pc[s] \notin BeforeInLedger
    <3>1. pc[s] \in BeforeInLedger => cur[s] \in MayOpen[s]
      BY AtWork DEF Request
    <3> QED BY <3>1, LinesApart DEF DisjointLines
  <2>3. \A l \in MayOpen[t] :
          erp'[l] = erp[l] /\ moved'[l] = moved[l] /\ invtrans'[l] = invtrans[l]
    BY <2>1, <2>2
  <2>4. ASSUME NEW l \in page[t].dirty
        PROVE  \/ pc'[t] \in Movement /\ cur'[t] = l
               \/ page'[t].line[l].status # "notReceived" /\ Told(l, page[t].line[l])'
    <3>1. l \in MayOpen[t]
      BY <2>1 DEF Shown
    <3>2. erp'[l] = erp[l] /\ moved'[l] = moved[l] /\ invtrans'[l] = invtrans[l]
      BY <2>3, <3>1
    <3>3. pc'[t] = pc[t] /\ cur'[t] = cur[t] /\ page'[t] = page[t]
      OBVIOUS
    <3>4. Told(l, page[t].line[l]) => Told(l, page[t].line[l])'
      BY <3>2, <3>3 DEF Told
    <3> QED BY <2>1, <3>3, <3>4 DEF Shown
  <2> QED BY <2>1, <2>4 DEF Shown
<1> QED BY <1>1, <1>2, <1>3 DEF Saved

\* The page is reloaded.
LEMMA SavedReload ==
    ASSUME RowsApart, TypeOK, Once, Saved, NEW s \in Sessions, Open(s) \/ Crash(s)
    PROVE  Saved'
<1>1. /\ transferline' = transferline /\ erpiface' = erpiface
      /\ erp' = erp /\ moved' = moved /\ invtrans' = invtrans
  BY DEF Open, Crash, slipvars, bookvars
<1>2. /\ \A t \in Sessions \ {s} :
           pc'[t] = pc[t] /\ cur'[t] = cur[t] /\ qty'[t] = qty[t] /\ page'[t] = page[t]
      /\ page'[s] = Fresh /\ pc'[s] = "idle"
  BY DEF Open, Crash, Finish, At, reqvars, TypeOK
<1>3. Shown(s)'
  BY <1>1, <1>2 DEF Saved, Shown, Fresh, BeforeInLedger, BeforeIn, BeforeOutLedger,
     BeforeOut, BeforeErp
<1> QED BY <1>1, <1>2, <1>3, SavedStep

LEMMA SavedConfirm ==
    ASSUME RowsApart, TypeOK, Once, Saved, NEW s \in Sessions, NEW l \in Lines,
           NEW q \in 1 .. Data[l].orderqty, Confirm(s, l, q)
    PROVE  Saved'
<1> USE DEF Movement, BeforeInLedger, BeforeIn, BeforeOutLedger, BeforeOut, BeforeErp
<1>1. /\ transferline' = transferline /\ erpiface' = erpiface /\ page' = page
      /\ erp' = erp /\ moved' = moved /\ invtrans' = invtrans
  BY DEF Confirm, slipvars, bookvars
<1>2. /\ \A t \in Sessions \ {s} : pc'[t] = pc[t] /\ cur'[t] = cur[t] /\ qty'[t] = qty[t]
      /\ pc[s] = "idle" /\ pc'[s] = "iface" /\ cur'[s] = l /\ l \notin erpiface
  BY DEF Confirm, At, TypeOK
<1>3. Shown(s) /\ transferline[l] = Blank
  BY <1>2 DEF Saved
<1>4. Shown(s)'
  <2>1. \A m \in page[s].dirty :
          page[s].line[m].status # "notReceived" /\ Told(m, page[s].line[m])
    BY <1>2, <1>3 DEF Shown
  <2>2. \A m \in page[s].dirty : Told(m, page[s].line[m])'
    BY <1>1, <2>1 DEF Told
  <2> QED BY <1>1, <1>2, <1>3, <2>1, <2>2 DEF Shown, Blank
<1> QED BY <1>1, <1>2, <1>4, SavedStep

\* The actions outside the movement that leave the page alone.
Aside(s) ==
    \/ SavePage(s) \/ ErpRefuses(s) \/ EndPay(s) \/ AddTrade(s) \/ CreateTk(s)
    \/ RollUpMr(s) \/ CloseMr(s) \/ SumInv(s) \/ RecalcInv(s) \/ Throws(s)

LEMMA SavedAside ==
    ASSUME RowsApart, TypeOK, Once, Saved, NEW s \in Sessions, Aside(s)
    PROVE  Saved'
<1> USE DEF Movement, BeforeInLedger, BeforeIn, BeforeOutLedger, BeforeOut, BeforeErp
<1> DEFINE Goal == /\ transferline' = transferline /\ erpiface' = erpiface /\ page' = page
                   /\ erp' = erp /\ moved' = moved /\ invtrans' = invtrans
                   /\ \A t \in Sessions \ {s} :
                        pc'[t] = pc[t] /\ cur'[t] = cur[t] /\ qty'[t] = qty[t]
                   /\ pc[s] \notin Movement /\ pc'[s] \notin BeforeInLedger
<1>1. Goal
  <2> USE DEF TypeOK, bookvars, slipvars, At
  <2>1. CASE SavePage(s)
    BY <2>1 DEF SavePage, Goto
  <2>2. CASE ErpRefuses(s)
    BY <2>2 DEF ErpRefuses, Finish
  <2>3. CASE EndPay(s)
    BY <2>3 DEF EndPay, Goto
  <2>4. CASE AddTrade(s)
    BY <2>4 DEF AddTrade, Goto, Line
  <2>5. CASE CreateTk(s)
    BY <2>5 DEF CreateTk, Goto
  <2>6. CASE RollUpMr(s)
    BY <2>6 DEF RollUpMr, Goto
  <2>7. CASE CloseMr(s)
    BY <2>7 DEF CloseMr, Goto
  <2>8. CASE RecalcInv(s)
    BY <2>8 DEF RecalcInv, Finish
  <2>9. CASE Throws(s)
    BY <2>9 DEF Throws, Finish
  <2>10. CASE SumInv(s)
    BY <2>10 DEF SumInv
  <2> QED BY <2>1, <2>2, <2>3, <2>4, <2>5, <2>6, <2>7, <2>8, <2>9, <2>10 DEF Aside
<1>2. Shown(s)'
  <2>1. \A m \in page[s].dirty :
          page[s].line[m].status # "notReceived" /\ Told(m, page[s].line[m])
    BY <1>1 DEF Saved, Shown
  <2>2. \A m \in page[s].dirty : Told(m, page[s].line[m])'
    BY <1>1, <2>1 DEF Told
  <2> QED BY <1>1, <2>1, <2>2 DEF Saved, Shown
<1> QED BY <1>1, <1>2, SavedStep

\* Before the line is set, it is blank on the page.
LEMMA SavedBefore ==
    ASSUME RowsApart, TypeOK, Once, Saved, NEW s \in Sessions,
           InsertIface(s) \/ ErpPosts(s) \/ ErpIsLost(s)
    PROVE  Saved'
<1> USE DEF Movement, BeforeInLedger, BeforeIn, BeforeOutLedger, BeforeOut, BeforeErp
<1>1. /\ transferline' = transferline /\ page' = page
      /\ moved' = moved /\ invtrans' = invtrans
      /\ \A t \in Sessions \ {s} : pc'[t] = pc[t] /\ cur'[t] = cur[t] /\ qty'[t] = qty[t]
      /\ pc[s] \in {"iface", "erp"} /\ pc'[s] \in {"erp", "status", "idle"}
      /\ pc'[s] # "idle" => cur'[s] = cur[s]
  BY DEF InsertIface, ErpPosts, ErpIsLost, Goto, Finish, At, TypeOK, slipvars, bookvars
<1>2. cur[s] \in Lines
  BY <1>1, AtWork
<1>3. /\ erpiface \subseteq erpiface'
      /\ \A l \in Lines \ {cur[s]} : erp'[l] = erp[l]
  BY <1>2 DEF InsertIface, ErpPosts, ErpIsLost, TypeOK
<1>4. Shown(s) /\ page[s].line[cur[s]] = Blank
  BY <1>1 DEF Saved, Shown
<1>5. Shown(s)'
  <2>1. \A m \in page[s].dirty :
          /\ m # cur[s] /\ m \in Lines
          /\ page[s].line[m].status # "notReceived" /\ Told(m, page[s].line[m])
    BY <1>1, <1>4 DEF Shown, Blank, TypeOK
  <2>2. \A m \in page[s].dirty : Told(m, page[s].line[m])'
    BY <1>1, <1>3, <2>1 DEF Told
  <2> QED BY <1>1, <1>3, <1>4, <2>1, <2>2 DEF Shown
<1> QED BY <1>1, <1>3, <1>5, SavedStep

\* The line is set on the page.
LEMMA SavedSet ==
    ASSUME RowsApart, TypeOK, Once, Saved, NEW s \in Sessions, SetReceived(s)
    PROVE  Saved'
<1> USE DEF Movement, BeforeInLedger, BeforeIn, BeforeOutLedger, BeforeOut, BeforeErp
<1> DEFINE l == cur[s]
<1>1. /\ transferline' = transferline /\ erpiface' = erpiface
      /\ erp' = erp /\ moved' = moved /\ invtrans' = invtrans
      /\ \A t \in Sessions \ {s} : pc'[t] = pc[t] /\ page'[t] = page[t]
      /\ cur' = cur /\ qty' = qty
      /\ pc[s] = "status" /\ pc'[s] = "readOut"
  BY DEF SetReceived, Goto, At, TypeOK, slipvars, bookvars
<1>2. l \in Lines /\ l \in MayOpen[s] /\ l \in erpiface /\ qty[s] \in Nat
      /\ Data[l].orderqty \in Nat
  BY <1>1, AtWork DEF Request
<1>3. Shown(s) /\ page[s].line[l] = Blank
  BY <1>1 DEF Saved, Shown
<1>4. /\ page'[s].line = [page[s].line EXCEPT ![l] = LineAfter(s, l)]
      /\ page'[s].dirty = page[s].dirty \cup {l}
      /\ page[s].line \in [Lines -> [status : Statuses, yjsqty : Nat]]
  BY DEF SetReceived, TypeOK
<1>5. page'[s].line[l] = [status |-> IF qty[s] = Data[l].orderqty
                                     THEN "received" ELSE "partReceived",
                          yjsqty |-> qty[s]]
  <2>1. LineAfter(s, l) = [status |-> IF qty[s] = Data[l].orderqty
                                      THEN "received" ELSE "partReceived",
                           yjsqty |-> qty[s]]
    BY <1>2, <1>3 DEF LineAfter, Wjsqty, Blank
  <2> QED BY <1>2, <1>4, <2>1
<1>6. \A m \in Lines \ {l} : page'[s].line[m] = page[s].line[m]
  BY <1>4
<1>7. Shown(s)'
  <2>1. page'[s].dirty \subseteq MayOpen[s]
    BY <1>2, <1>3, <1>4 DEF Shown
  <2>2. \A m \in Lines \ erpiface' : page'[s].line[m] = Blank
    BY <1>1, <1>2, <1>3, <1>6 DEF Shown
  <2>3. ASSUME NEW m \in page'[s].dirty, m # l
        PROVE  page'[s].line[m].status # "notReceived" /\ Told(m, page[s].line[m])'
    <3>1. m \in Lines /\ m \in page[s].dirty /\ page'[s].line[m] = page[s].line[m]
      BY <1>4, <1>6, <2>3 DEF TypeOK
    <3>2. page[s].line[m].status # "notReceived" /\ Told(m, page[s].line[m])
      BY <1>1, <1>3, <3>1 DEF Shown
    <3> QED BY <1>1, <3>1, <3>2 DEF Told
  <2>4. transferline'[l].status = "notReceived"
    BY <1>1 DEF Saved, Shown
  <2> QED BY <1>1, <1>5, <2>1, <2>2, <2>3, <2>4 DEF Shown
<1> QED BY <1>1, <1>7, SavedStep

\* During the movement the page is left alone.
LEMMA SavedMoving ==
    ASSUME RowsApart, TypeOK, Once, Saved, NEW s \in Sessions,
           ReadOut(s) \/ OutStock(s) \/ OutLedger(s) \/ ReadIn(s) \/ InStock(s)
    PROVE  Saved'
<1> USE DEF Movement, BeforeInLedger, BeforeIn, BeforeOutLedger, BeforeOut, BeforeErp
<1>1. /\ transferline' = transferline /\ page' = page /\ erpiface' = erpiface
      /\ erp' = erp
      /\ \A t \in Sessions \ {s} : pc'[t] = pc[t]
      /\ cur' = cur /\ qty' = qty
      /\ pc[s] \in Movement /\ pc'[s] \in Movement
  BY DEF ReadOut, OutStock, OutLedger, ReadIn, InStock, Read, Goto, At, TypeOK, slipvars,
     bookvars
<1>2. cur[s] \in Lines
  BY <1>1, AtWork
<1>3. \A l \in Lines \ {cur[s]} : moved'[l] = moved[l] /\ invtrans'[l] = invtrans[l]
  BY <1>2 DEF ReadOut, OutStock, OutLedger, ReadIn, InStock, Read, TypeOK, bookvars,
     AddOut, AddIn
<1>4. Shown(s)'
  <2>1. Shown(s)
    BY DEF Saved
  <2>2. ASSUME NEW m \in page[s].dirty, m # cur[s] PROVE Told(m, page[s].line[m])'
    <3>1. m \in Lines
      BY DEF TypeOK
    <3>2. Told(m, page[s].line[m])
      BY <2>1, <2>2 DEF Shown
    <3> QED BY <1>1, <1>3, <2>2, <3>1, <3>2 DEF Told
  <2> QED BY <1>1, <2>1, <2>2 DEF Shown
<1> QED BY <1>1, <1>3, <1>4, SavedStep

\* The movement ends with the record of what arrived.
LEMMA SavedMoved ==
    ASSUME RowsApart, NothingSwallowed, TypeOK, Once, Underway, Saved, NEW s \in Sessions,
           InLedger(s)
    PROVE  Saved'
<1> USE DEF Movement, BeforeInLedger, BeforeIn, BeforeOutLedger, BeforeOut, BeforeErp
<1> DEFINE l == cur[s]
<1>1. /\ transferline' = transferline /\ page' = page /\ erpiface' = erpiface
      /\ erp' = erp /\ moved' = moved
      /\ \A t \in Sessions \ {s} : pc'[t] = pc[t]
      /\ cur' = cur /\ qty' = qty
      /\ pc[s] = "inLedger" /\ pc'[s] = "endpay"
      /\ invtrans' = AddIn(invtrans, l, qty[s])
  BY DEF InLedger, Goto, At, TypeOK, slipvars, Recorded, NothingSwallowed
<1>2. l \in Lines /\ Request(s) /\ pc[s] \in Receiving /\ qty[s] \in Nat
  BY <1>1, AtWork
<1>3. invtrans[l].in = 0
  BY <1>1, <1>2 DEF Request
<1>4. /\ invtrans'[l] = [out |-> invtrans[l].out, in |-> qty[s]]
      /\ \A m \in Lines \ {l} : invtrans'[m] = invtrans[m]
  BY <1>1, <1>2, <1>3 DEF AddIn, TypeOK
<1>5. /\ moved[l].out = qty[s] /\ moved[l].in = qty[s] /\ invtrans[l].out = qty[s]
      /\ Data[l].route = "erp" => erp[l] = qty[s]
  BY <1>1 DEF Underway, Moving
<1>6. /\ moved[l] = [out |-> qty[s], in |-> qty[s]]
      /\ invtrans'[l] = [out |-> qty[s], in |-> qty[s]]
  BY <1>2, <1>4, <1>5 DEF TypeOK, Both
<1>7. Shown(s)
  BY DEF Saved
<1>8. /\ page[s].line[l].yjsqty = qty[s] /\ page[s].line[l].status # "notReceived"
      /\ page[s].line[l].status = "received" <=> qty[s] = Data[l].orderqty
  BY <1>1, <1>7 DEF Shown
<1>9. Shown(s)'
  <2>1. page[s].line[l].status # "notReceived" /\ Told(l, page[s].line[l])'
    BY <1>1, <1>5, <1>6, <1>8 DEF Told
  <2>2. ASSUME NEW m \in page[s].dirty, m # l
        PROVE  page[s].line[m].status # "notReceived" /\ Told(m, page[s].line[m])'
    <3>1. m \in Lines
      BY DEF TypeOK
    <3>2. page[s].line[m].status # "notReceived" /\ Told(m, page[s].line[m])
      BY <1>7, <2>2 DEF Shown
    <3> QED BY <1>1, <1>4, <2>2, <3>1, <3>2 DEF Told
  <2> QED BY <1>1, <1>7, <2>1, <2>2 DEF Shown
<1> QED BY <1>1, <1>4, <1>9, SavedStep

\* The save writes lines that say what was done.
LEMMA SavedSave ==
    ASSUME RowsApart, TypeOK, Once, Saved, NEW s \in Sessions, Save(s)
    PROVE  Saved'
<1> USE DEF Movement, BeforeInLedger, BeforeIn, BeforeOutLedger, BeforeOut, BeforeErp
<1>1. /\ \A l \in Lines :
           transferline'[l] = IF l \in page[s].dirty THEN page[s].line[l] ELSE transferline[l]
      /\ erpiface' = erpiface /\ erp' = erp /\ moved' = moved /\ invtrans' = invtrans
      /\ \A t \in Sessions \ {s} : pc'[t] = pc[t] /\ page'[t] = page[t]
      /\ cur' = cur /\ qty' = qty
      /\ pc[s] = "save" /\ pc'[s] \notin BeforeInLedger
      /\ page'[s].line = page[s].line /\ page'[s].dirty = {}
  BY DEF Save, Goto, At, TypeOK, bookvars
<1>2. /\ \A t \in Sessions : Shown(t)
      /\ \A l \in page[s].dirty :
           page[s].line[l].status # "notReceived" /\ Told(l, page[s].line[l])
  BY <1>1 DEF Saved, Shown
<1>3. ASSUME NEW l \in Lines \ erpiface' PROVE transferline'[l] = Blank
  <2>1. l \in Lines /\ l \notin erpiface
    BY <1>1
  <2>2. page[s].line[l] = Blank
    BY <1>2, <2>1 DEF Shown
  <2>3. transferline[l] = Blank
    BY <2>1 DEF Saved
  <2> QED BY <1>1, <2>1, <2>2, <2>3
<1>4. SavedIsMoved'
  <2> SUFFICES ASSUME NEW l \in Lines, transferline'[l].status # "notReceived"
               PROVE  Told(l, transferline[l])'
    BY DEF SavedIsMoved, Told
  <2>1. CASE l \in page[s].dirty
    BY <1>1, <1>2, <2>1 DEF Told
  <2>2. CASE l \notin page[s].dirty
    BY <1>1, <2>2 DEF Saved, SavedIsMoved, Told
  <2> QED BY <2>1, <2>2
<1>5. Shown(s)'
  BY <1>1, <1>2 DEF Shown
<1>6. ASSUME NEW t \in Sessions \ {s} PROVE Shown(t)'
  <2>1. pc[t] \in BeforeInLedger => transferline'[cur[t]] = transferline[cur[t]]
    <3> SUFFICES ASSUME pc[t] \in BeforeInLedger PROVE transferline'[cur[t]] = transferline[cur[t]]
      OBVIOUS
    <3>1. cur[t] \in MayOpen[t] /\ cur[t] \in Lines
      BY AtWork DEF Request
    <3>2. cur[t] \notin page[s].dirty
      BY <1>2, <3>1, LinesApart DEF DisjointLines, Shown
    <3> QED BY <1>1, <3>1, <3>2
  <2>2. \A m \in page[t].dirty : Told(m, page[t].line[m]) => Told(m, page[t].line[m])'
    BY <1>1 DEF Told
  <2> QED BY <1>1, <1>2, <2>1, <2>2 DEF Shown
<1> QED BY <1>3, <1>4, <1>5, <1>6 DEF Saved

LEMMA SavedNext ==
    ASSUME RowsApart, NothingSwallowed, QueryAnswers
    PROVE  TypeOK /\ Once /\ Underway /\ Saved /\ [Next]_vars => Saved'
<1> SUFFICES ASSUME TypeOK, Once, Underway, Saved, [Next]_vars PROVE Saved'
  OBVIOUS
<1>1. CASE UNCHANGED vars
  <2>1. /\ transferline' = transferline /\ erpiface' = erpiface /\ page' = page
        /\ erp' = erp /\ moved' = moved /\ invtrans' = invtrans
        /\ pc' = pc /\ cur' = cur /\ qty' = qty
    BY <1>1 DEF vars, slipvars, bookvars, reqvars
  <2> QED BY <2>1 DEF Saved, SavedIsMoved, Shown, Told
<1>2. ASSUME NEW s \in Sessions, NEW l \in Lines, NEW q \in 1 .. Data[l].orderqty,
             Confirm(s, l, q)
      PROVE  Saved'
  BY <1>2, SavedConfirm
<1>3. ASSUME NEW s \in Sessions, Open(s) \/ Crash(s) PROVE Saved'
  BY <1>3, SavedReload
<1>4. ASSUME NEW s \in Sessions, Aside(s) PROVE Saved'
  BY <1>4, SavedAside
<1>5. ASSUME NEW s \in Sessions, InsertIface(s) \/ ErpPosts(s) \/ ErpIsLost(s) PROVE Saved'
  BY <1>5, SavedBefore
<1>6. ASSUME NEW s \in Sessions, SetReceived(s) PROVE Saved'
  BY <1>6, SavedSet
<1>7. ASSUME NEW s \in Sessions,
             ReadOut(s) \/ OutStock(s) \/ OutLedger(s) \/ ReadIn(s) \/ InStock(s)
      PROVE  Saved'
  BY <1>7, SavedMoving
<1>8. ASSUME NEW s \in Sessions, InLedger(s) PROVE Saved'
  BY <1>8, SavedMoved
<1>9. ASSUME NEW s \in Sessions, Save(s) PROVE Saved'
  BY <1>9, SavedSave
<1>10. \A s \in Sessions : ~ QueryThrows(s)
  BY DEF QueryAnswers, QueryThrows
<1> QED
  BY <1>1, <1>2, <1>3, <1>4, <1>5, <1>6, <1>7, <1>8, <1>9, <1>10
     DEF Next, User, Serve, Fault, Aside

\* What the saved line says was received is what was moved, recorded, and
\* posted by the ERP, for any lines and sessions and whatever dies, is refused,
\* lost or thrown by the later steps of SAVE: under the assumptions of
\* PromiseKept, and when the query of TOERP for other lines does not fail.
THEOREM SavedIsTrue ==
    ASSUME RowsApart, NothingSwallowed, QueryAnswers
    PROVE  Spec => []SavedIsMoved
<1>1. Init => Saved
  BY SavedInit
<1>2. TypeOK /\ Once /\ Underway /\ Saved /\ [Next]_vars => Saved'
  BY SavedNext
<1>3. Saved => SavedIsMoved
  BY DEF Saved
<1> QED BY <1>1, <1>2, <1>3, UnderwayInvariant, PTL DEF Spec
=============================================================================
