--------------------------- MODULE ReceiptProofs ---------------------------
(***************************************************************************)
(* Theorems about Receipt, for every slip, any number of sessions and any  *)
(* faults: the types; and, as long as no line is open for receipt in two   *)
(* sessions, that no line is ever received twice, that a slip is never     *)
(* received before its lines, that no save takes a receipt back, and that  *)
(* each receipt that runs to its end leaves the derived quantities right.  *)
(***************************************************************************)
EXTENDS Receipt, TLAPS

\* No two sessions receive the same line.
DisjointLines ==
    \A s, t \in Sessions : s # t => MayOpen[s] \cap MayOpen[t] = {}

\* The steps before which a thing has not been done.
BeforeErp       == {"iface", "erp"}
BeforeOut       == BeforeErp \cup {"status", "readOut", "out"}
BeforeOutLedger == BeforeOut \cup {"outLedger"}
BeforeIn        == BeforeOutLedger \cup {"readIn", "in"}
BeforeInLedger  == BeforeIn \cup {"inLedger"}
Receiving       == BeforeInLedger \cup {"endpay", "trade", "tk"}

\* A line without a row in ERPIFACE is untouched.
Untouched ==
    \A l \in Lines \ erpiface : erp[l] = 0 /\ moved[l] = Zero /\ invtrans[l] = Zero

\* What a request knows of its line at each step: it owns it, and what is
\* still to be done has not been done by anybody.
Request(s) ==
    pc[s] \in Receiving =>
        /\ cur[s] \in MayOpen[s]
        /\ qty[s] \in 1 .. Data[cur[s]].orderqty
        /\ pc[s] = "iface" => cur[s] \notin erpiface
        /\ pc[s] # "iface" => cur[s] \in erpiface
        /\ pc[s] \in BeforeErp => erp[cur[s]] = 0
        /\ pc[s] \in BeforeOut => moved[cur[s]].out = 0
        /\ pc[s] \in BeforeOutLedger => invtrans[cur[s]].out = 0
        /\ pc[s] \in BeforeIn => moved[cur[s]].in = 0
        /\ pc[s] \in BeforeInLedger => invtrans[cur[s]].in = 0
        /\ pc[s] \notin BeforeErp /\ Data[cur[s]].route = "erp" => qty[s] <= erp[cur[s]]

\* The inductive invariant: AtMostOrdered and PostedBeforeMoved need to know
\* that a line not yet entered is untouched, and how far each request is.
Once ==
    /\ Untouched
    /\ \A s \in Sessions : Request(s)
    /\ AtMostOrdered
    /\ PostedBeforeMoved

----------------------------------------------------------------------------
(* The movement procedures keep the stock tables well formed.              *)

Row    == [exists : BOOLEAN, curbal : Int, locqty : Int]
Amount == [exists : BOOLEAN, qty : Int]

LEMMA LineKeys ==
    ASSUME NEW l \in Lines
    PROVE  /\ Data[l] \in LineData
           /\ <<Data[l].from, Data[l].item>> \in Keys
           /\ <<Data[l].to, Data[l].item>> \in Keys
           /\ Data[l].asset \in Assets
           /\ Data[l].orderqty \in Nat \ {0}
BY ReceiptAssumption DEF ReceiptAssumption, LineData, Keys

LEMMA RowTypes ==
    ASSUME NEW row \in Row, NEW bin \in Amount, NEW q \in Nat, NEW line
    PROVE  /\ OutRow(row, Slip, q) \in Row
           /\ InRow(row, Slip, line, q) \in Row
           /\ OutAmount(bin, q) \in Amount
           /\ InAmount(bin, q) \in Amount
BY DEF Row, Amount, OutRow, InRow, OutAmount, InAmount

Asset == [exists : BOOLEAN, location : Rooms \cup {Nowhere}, status : AssetStatus]

LEMMA StockTables ==
    ASSUME NEW st \in Stock
    PROVE  /\ st.inventory \in [Keys -> Row]
           /\ st.locbinitem \in [Keys -> Amount] /\ st.invblance \in [Keys -> Amount]
           /\ st.asset \in [Assets -> Asset]
BY DEF Stock, Row, Amount, Asset

\* A stock is well formed when its tables are.
LEMMA StockOf ==
    ASSUME NEW st \in Stock, NEW rows \in [Keys -> Row],
           NEW bins \in [Keys -> Amount], NEW lots \in [Keys -> Amount],
           NEW assets \in [Assets -> Asset]
    PROVE  /\ [inventory |-> rows, locbinitem |-> bins, invblance |-> lots,
               asset |-> assets] \in Stock
           /\ [st EXCEPT !.inventory = rows] \in Stock
BY DEF Stock, Row, Amount, Asset

\* out_storoom writes well-formed rows, however many of its saves succeed.
LEMMA OutStoroomType ==
    ASSUME NEW st \in Stock, NEW was \in Stock, NEW l \in Lines, NEW q \in Nat,
           NEW upto \in Nat
    PROVE  OutStoroom(st, was, Slip, Data[l], q, upto) \in Stock
<1> DEFINE key == <<Data[l].from, Data[l].item>>
           rows == Put(st.inventory, key, OutRow(was.inventory[key], Slip, q), upto >= 2)
           bins == Put(st.locbinitem, key, OutAmount(was.locbinitem[key], q),
                       upto >= 1 /\ Data[l].binned)
           lots == Put(st.invblance, key, OutAmount(was.invblance[key], q),
                       upto >= 1 /\ Data[l].lotted)
           assets == Put(st.asset, Data[l].asset,
                         [st.asset[Data[l].asset] EXCEPT !.location = Nowhere], upto >= 3)
<1>1. key \in Keys /\ Data[l].asset \in Assets /\ Data[l].kind \in Kinds
  BY LineKeys DEF LineData
<1>2. /\ was.inventory[key] \in Row /\ was.locbinitem[key] \in Amount
      /\ was.invblance[key] \in Amount /\ st.asset[Data[l].asset] \in Asset
  BY <1>1, StockTables
<1>3. [st.asset[Data[l].asset] EXCEPT !.location = Nowhere] \in Asset
  BY <1>2 DEF Asset
<1>4. /\ rows \in [Keys -> Row]
      /\ bins \in [Keys -> Amount] /\ lots \in [Keys -> Amount]
      /\ assets \in [Assets -> Asset]
  <2>1. /\ OutRow(was.inventory[key], Slip, q) \in Row
        /\ OutAmount(was.locbinitem[key], q) \in Amount
        /\ OutAmount(was.invblance[key], q) \in Amount
    BY <1>2, RowTypes
  <2> HIDE DEF key
  <2>2. rows \in [Keys -> Row]
    BY <1>1, <2>1, StockTables DEF Put
  <2>3. bins \in [Keys -> Amount] /\ lots \in [Keys -> Amount]
    BY <1>1, <2>1, StockTables DEF Put
  <2>4. assets \in [Assets -> Asset]
    BY <1>1, <1>3, StockTables DEF Put
  <2> QED BY <2>2, <2>3, <2>4
<1>5. OutSqn(st, was, Slip, Data[l], q, upto) \in
        {st, [inventory |-> rows, locbinitem |-> bins, invblance |-> st.invblance,
              asset |-> assets]}
  BY DEF OutSqn
<1>6. OutLot(st, was, Slip, Data[l], q, upto) \in
        {st, [inventory |-> rows, locbinitem |-> st.locbinitem, invblance |-> lots,
              asset |-> st.asset]}
  BY DEF OutLot
<1>7. OutOther(st, was, Slip, Data[l], q, upto) \in {st, [st EXCEPT !.inventory = rows]}
  BY DEF OutOther
<1> HIDE DEF rows, bins, lots, assets
<1>8. /\ OutSqn(st, was, Slip, Data[l], q, upto) \in Stock
      /\ OutLot(st, was, Slip, Data[l], q, upto) \in Stock
      /\ OutOther(st, was, Slip, Data[l], q, upto) \in Stock
  BY <1>4, <1>5, <1>6, <1>7, StockTables, StockOf
<1> QED BY <1>1, <1>8 DEF OutStoroom, Kinds

\* in_storoom writes well-formed rows, however many of its saves succeed.
LEMMA InStoroomType ==
    ASSUME NEW st \in Stock, NEW was \in Stock, NEW l \in Lines, NEW q \in Nat,
           NEW upto \in Nat
    PROVE  InStoroom(st, was, Slip, Data[l], q, RoomType[Data[l].to], upto) \in Stock
<1> DEFINE key == <<Data[l].to, Data[l].item>>
           roomtype == RoomType[Data[l].to]
           new == [exists   |-> TRUE,
                   location |-> Data[l].to,
                   status   |-> InStatus(roomtype, Data[l], st.asset[Data[l].asset].status,
                                         ~ was.inventory[key].exists)]
           rows == Put(st.inventory, key, InRow(was.inventory[key], Slip, Data[l], q),
                       upto >= 2)
           lots == Put(st.invblance, key, InAmount(was.invblance[key], q),
                       upto >= 1 /\ Data[l].lotted)
           assets == Put(st.asset, Data[l].asset, new, upto >= 3)
<1>1. key \in Keys /\ Data[l].asset \in Assets /\ Data[l].kind \in Kinds
  BY LineKeys DEF LineData
<1>2. /\ was.inventory[key] \in Row /\ was.invblance[key] \in Amount
      /\ st.asset[Data[l].asset] \in Asset
  BY <1>1, StockTables
<1>3. new \in Asset
  <2>1. roomtype \in RoomTypes /\ Data[l].to \in Rooms
    BY LineKeys, ReceiptAssumption DEF ReceiptAssumption, LineData
  <2>2. st.asset[Data[l].asset].status \in AssetStatus
    BY <1>2 DEF Asset
  <2> HIDE DEF key, roomtype
  <2>3. InStatus(roomtype, Data[l], st.asset[Data[l].asset].status,
                 ~ was.inventory[key].exists) \in AssetStatus
    BY <2>1, <2>2 DEF InStatus, RoomTypes, AssetStatus
  <2> QED BY <2>1, <2>3 DEF Asset
<1>4. /\ rows \in [Keys -> Row] /\ lots \in [Keys -> Amount]
      /\ assets \in [Assets -> Asset]
  <2>1. /\ InRow(was.inventory[key], Slip, Data[l], q) \in Row
        /\ InAmount(was.invblance[key], q) \in Amount
    BY <1>2, RowTypes
  <2> HIDE DEF key, new
  <2>2. rows \in [Keys -> Row] /\ lots \in [Keys -> Amount]
    BY <1>1, <2>1, StockTables DEF Put
  <2>3. assets \in [Assets -> Asset]
    BY <1>1, <1>3, StockTables DEF Put
  <2> QED BY <2>2, <2>3
<1>5. InSqn(st, was, Slip, Data[l], q, roomtype, upto) \in
        {st, [inventory |-> rows, locbinitem |-> st.locbinitem, invblance |-> st.invblance,
              asset |-> assets]}
  BY DEF InSqn
<1>6. InLot(st, was, Slip, Data[l], q, upto) =
        [inventory |-> rows, locbinitem |-> st.locbinitem, invblance |-> lots,
         asset |-> st.asset]
  BY DEF InLot
<1>7. InOther(st, was, Slip, Data[l], q, upto) = [st EXCEPT !.inventory = rows]
  BY DEF InOther
<1> HIDE DEF rows, lots, assets
<1>8. /\ InSqn(st, was, Slip, Data[l], q, roomtype, upto) \in Stock
      /\ InLot(st, was, Slip, Data[l], q, upto) \in Stock
      /\ InOther(st, was, Slip, Data[l], q, upto) \in Stock
  BY <1>4, <1>5, <1>6, <1>7, StockTables, StockOf
<1> QED BY <1>1, <1>8 DEF InStoroom, Kinds

----------------------------------------------------------------------------
(* Type correctness.                                                       *)

LEMMA TypeInit == Init => TypeOK
BY ReceiptAssumption DEF ReceiptAssumption, Init, TypeOK, Fresh, Zero, Both,
   Steps, Statuses

\* A request at work on a line is at work on a line of the slip; only the
\* steps of SAVE may run without one.
LineAtWork == \A s \in Sessions : pc[s] \in Receiving => cur[s] \in Lines

LEMMA TypeNext == TypeOK /\ LineAtWork /\ [Next]_vars => TypeOK' /\ LineAtWork'
<1> SUFFICES ASSUME TypeOK, LineAtWork, [Next]_vars PROVE TypeOK' /\ LineAtWork'
  OBVIOUS
<1> USE DEF slipvars, bookvars, othervars, sumvars, reqvars, Steps, Receiving,
            BeforeInLedger, BeforeIn, BeforeOutLedger, BeforeOut, BeforeErp
<1>0. InitStock \in Stock
  BY ReceiptAssumption DEF ReceiptAssumption
<1>1. CASE UNCHANGED vars
  BY <1>1 DEF TypeOK, LineAtWork, vars
<1>2. ASSUME NEW s \in Sessions, Open(s) PROVE TypeOK' /\ LineAtWork'
  BY <1>2 DEF TypeOK, LineAtWork, Open, Fresh
<1>3. ASSUME NEW s \in Sessions, NEW l \in Lines, NEW q \in 1 .. Data[l].orderqty,
             Confirm(s, l, q)
      PROVE  TypeOK' /\ LineAtWork'
  <2>1. q \in Nat
    BY LineKeys
  <2> QED BY <2>1, <1>3 DEF TypeOK, LineAtWork, Confirm
<1>4. ASSUME NEW s \in Sessions, SavePage(s) PROVE TypeOK' /\ LineAtWork'
  BY <1>4 DEF TypeOK, LineAtWork, SavePage, Goto, At
<1>5. ASSUME NEW s \in Sessions, InsertIface(s) PROVE TypeOK' /\ LineAtWork'
  BY <1>5 DEF TypeOK, LineAtWork, InsertIface, Goto, At
<1>6. ASSUME NEW s \in Sessions, ErpPosts(s) PROVE TypeOK' /\ LineAtWork'
  BY <1>6 DEF TypeOK, LineAtWork, ErpPosts, Goto, At
<1>7. ASSUME NEW s \in Sessions, ErpRefuses(s) PROVE TypeOK' /\ LineAtWork'
  BY <1>0, <1>7 DEF TypeOK, LineAtWork, ErpRefuses, Finish, At
<1>8. ASSUME NEW s \in Sessions, ErpIsLost(s) PROVE TypeOK' /\ LineAtWork'
  BY <1>0, <1>8 DEF TypeOK, LineAtWork, ErpIsLost, Finish, At
<1>9. ASSUME NEW s \in Sessions, SetReceived(s) PROVE TypeOK' /\ LineAtWork'
  <2>1. page' \in [Sessions -> [line : [Lines -> [status : Statuses, yjsqty : Nat]],
                                header : {"inTransit", "received"},
                                dirty : SUBSET Lines, hdirty : BOOLEAN]]
    <3>1. cur[s] \in Lines
      BY <1>9 DEF LineAtWork, SetReceived, At
    <3>2. LineAfter(s, cur[s]) \in [status : Statuses, yjsqty : Nat]
      BY <3>1 DEF TypeOK, LineAfter, Statuses
    <3> QED BY <1>9, <3>1, <3>2 DEF TypeOK, SetReceived
  <2> QED BY <2>1, <1>9 DEF TypeOK, LineAtWork, SetReceived, Goto, At
<1>10. ASSUME NEW s \in Sessions, ReadOut(s) PROVE TypeOK' /\ LineAtWork'
  BY <1>10 DEF TypeOK, LineAtWork, ReadOut, Read, At
<1>11. ASSUME NEW s \in Sessions, OutStock(s) PROVE TypeOK' /\ LineAtWork'
  <2>1. PICK upto \in Saves(s, <<Line(s).from, Line(s).item>>) :
          /\ stock' = OutStoroom(stock, seen[s], Slip, Line(s), qty[s], upto)
          /\ moved' = IF Takes(seen[s], Line(s), upto)
                      THEN AddOut(moved, cur[s], qty[s]) ELSE moved
    BY <1>11 DEF OutStock
  <2>2. upto \in Nat
    BY <2>1 DEF Saves, AllSaves
  <2>3. stock' \in Stock
    BY <2>1, <2>2, <1>11, OutStoroomType DEF TypeOK, LineAtWork, OutStock, At, Line
  <2>4. moved' \in [Lines -> Both]
    BY <2>1, <1>11 DEF TypeOK, LineAtWork, OutStock, At, Both, AddOut
  <2> QED BY <2>3, <2>4, <1>11 DEF TypeOK, LineAtWork, OutStock, Goto, At
<1>12. ASSUME NEW s \in Sessions, OutLedger(s) PROVE TypeOK' /\ LineAtWork'
  BY <1>12 DEF TypeOK, LineAtWork, OutLedger, Goto, At, Recorded, Both, AddOut
<1>13. ASSUME NEW s \in Sessions, ReadIn(s) PROVE TypeOK' /\ LineAtWork'
  BY <1>13 DEF TypeOK, LineAtWork, ReadIn, Read, At
<1>14. ASSUME NEW s \in Sessions, InStock(s) PROVE TypeOK' /\ LineAtWork'
  <2>1. PICK upto \in Saves(s, <<Line(s).to, Line(s).item>>) :
          /\ stock' = InStoroom(stock, seen[s], Slip, Line(s), qty[s],
                                RoomType[Line(s).to], upto)
          /\ moved' = IF Adds(seen[s], Line(s), upto)
                      THEN AddIn(moved, cur[s], qty[s]) ELSE moved
    BY <1>14 DEF InStock
  <2>2. upto \in Nat
    BY <2>1 DEF Saves, AllSaves
  <2>3. stock' \in Stock
    BY <2>1, <2>2, <1>14, InStoroomType DEF TypeOK, LineAtWork, InStock, At, Line
  <2>4. moved' \in [Lines -> Both]
    BY <2>1, <1>14 DEF TypeOK, LineAtWork, InStock, At, Both, AddIn
  <2> QED BY <2>3, <2>4, <1>14 DEF TypeOK, LineAtWork, InStock, Goto, At
<1>15. ASSUME NEW s \in Sessions, InLedger(s) PROVE TypeOK' /\ LineAtWork'
  BY <1>15 DEF TypeOK, LineAtWork, InLedger, Goto, At, Recorded, Both, AddIn
<1>16. ASSUME NEW s \in Sessions, EndPay(s) PROVE TypeOK' /\ LineAtWork'
  <2>1. Line(s).item \in Items /\ Line(s).orderqty \in Nat
    BY <1>16, LineKeys DEF EndPay, At, Line, LineAtWork, LineData
  <2> QED BY <2>1, <1>16 DEF TypeOK, LineAtWork, EndPay, Goto, At
<1>17. ASSUME NEW s \in Sessions, Throws(s) PROVE TypeOK' /\ LineAtWork'
  BY <1>0, <1>17 DEF TypeOK, LineAtWork, Throws, Finish, At
<1>18. ASSUME NEW s \in Sessions, AddTrade(s) PROVE TypeOK' /\ LineAtWork'
  BY <1>18 DEF TypeOK, LineAtWork, AddTrade, Recorded, Goto, At
<1>19. ASSUME NEW s \in Sessions, CreateTk(s) PROVE TypeOK' /\ LineAtWork'
  BY <1>19 DEF TypeOK, LineAtWork, CreateTk, Goto, At
<1>20. ASSUME NEW s \in Sessions, Save(s) PROVE TypeOK' /\ LineAtWork'
  BY <1>20 DEF TypeOK, LineAtWork, Save, Goto, At
<1>21. ASSUME NEW s \in Sessions, RollUpMr(s) PROVE TypeOK' /\ LineAtWork'
  BY <1>21 DEF TypeOK, LineAtWork, RollUpMr, Goto, At
<1>22. ASSUME NEW s \in Sessions, CloseMr(s) PROVE TypeOK' /\ LineAtWork'
  BY <1>22 DEF TypeOK, LineAtWork, CloseMr, Goto, At
<1>23. ASSUME NEW s \in Sessions, RecalcInv(s) PROVE TypeOK' /\ LineAtWork'
  BY <1>0, <1>23 DEF TypeOK, LineAtWork, RecalcInv, Finish, At
<1>24. ASSUME NEW s \in Sessions, Crash(s) PROVE TypeOK' /\ LineAtWork'
  BY <1>0, <1>24 DEF TypeOK, LineAtWork, Crash, Finish, At, Fresh
<1>25. ASSUME NEW s \in Sessions, QueryThrows(s) PROVE TypeOK' /\ LineAtWork'
  <2>1. cur[s] \in Lines
    BY <1>25 DEF LineAtWork, QueryThrows, At
  <2>2. LineAfter(s, cur[s]) \in [status : Statuses, yjsqty : Nat]
    BY <2>1 DEF TypeOK, LineAfter, Statuses
  <2>3. page' \in [Sessions -> [line : [Lines -> [status : Statuses, yjsqty : Nat]],
                                header : {"inTransit", "received"},
                                dirty : SUBSET Lines, hdirty : BOOLEAN]]
    BY <1>25, <2>1, <2>2 DEF TypeOK, QueryThrows
  <2> QED BY <1>0, <2>3, <1>25 DEF TypeOK, LineAtWork, QueryThrows, Finish, At
<1>26. ASSUME NEW s \in Sessions, SumInv(s) PROVE TypeOK' /\ LineAtWork'
  BY <1>26 DEF TypeOK, LineAtWork, SumInv, At
<1> QED
  BY <1>1, <1>2, <1>3, <1>4, <1>5, <1>6, <1>7, <1>8, <1>9, <1>10, <1>11, <1>12, <1>13, <1>14, <1>15, <1>16, <1>17, <1>18, <1>19, <1>20, <1>21, <1>22, <1>23, <1>24, <1>25,
     <1>26 DEF Next, User, Serve, Fault

\* Every table and every session always holds values of its kind: in
\* particular no received, moved or recorded quantity is ever negative.
THEOREM TypeCorrect == Spec => []TypeOK
<1>1. Init => TypeOK /\ LineAtWork
  BY TypeInit DEF Init, LineAtWork, Receiving, BeforeInLedger, BeforeIn, BeforeOutLedger,
     BeforeOut, BeforeErp
<1>2. (TypeOK /\ LineAtWork) /\ [Next]_vars => (TypeOK /\ LineAtWork)'
  BY TypeNext
<1> QED BY <1>1, <1>2, PTL DEF Spec

----------------------------------------------------------------------------
(* No line is received twice.                                              *)

LEMMA RequestLine ==
    ASSUME TypeOK, NEW s \in Sessions, Request(s), pc[s] \in Receiving
    PROVE  /\ cur[s] \in Lines /\ Data[cur[s]].orderqty \in Nat
           /\ qty[s] \in Nat /\ qty[s] <= Data[cur[s]].orderqty
<1>1. cur[s] \in Lines
  BY ReceiptAssumption DEF ReceiptAssumption, Request
<1>2. Data[cur[s]].orderqty \in Nat
  BY <1>1, LineKeys
<1> QED BY <1>1, <1>2 DEF Request

\* A line is received by one session.
LEMMA OneReceiver ==
    ASSUME DisjointLines, NEW s \in Sessions, NEW t \in Sessions, t # s,
           Request(s), Request(t), pc[s] \in Receiving, pc[t] \in Receiving
    PROVE  cur[t] # cur[s]
BY DEF DisjointLines, Request

LEMMA OnceInit == Init => Once
<1> SUFFICES ASSUME Init PROVE Once
  OBVIOUS
<1>1. Untouched
  BY DEF Init, Untouched
<1>2. ASSUME NEW s \in Sessions PROVE Request(s)
  BY DEF Init, Request, Receiving, BeforeInLedger, BeforeIn, BeforeOutLedger, BeforeOut,
     BeforeErp
<1>3. AtMostOrdered
  <2>1. \A l \in Lines : Data[l].orderqty \in Nat
    BY LineKeys
  <2> QED BY <2>1 DEF Init, AtMostOrdered, Zero
<1>4. PostedBeforeMoved
  BY DEF Init, PostedBeforeMoved, Zero
<1> QED BY <1>1, <1>2, <1>3, <1>4 DEF Once

LEMMA OnceNext ==
    ASSUME DisjointLines
    PROVE  TypeOK /\ Once /\ [Next]_vars => Once'
<1> SUFFICES ASSUME TypeOK, Once, [Next]_vars PROVE Once'
  OBVIOUS
<1> USE DEF slipvars, bookvars, othervars, sumvars, reqvars, Steps, Receiving,
            BeforeInLedger, BeforeIn, BeforeOutLedger, BeforeOut, BeforeErp
<1>1. CASE UNCHANGED vars
  BY <1>1 DEF Once, Untouched, Request, AtMostOrdered, PostedBeforeMoved, vars
<1>2. ASSUME NEW s \in Sessions, Open(s) PROVE Once'
  BY <1>2 DEF Once, Untouched, Request, AtMostOrdered, PostedBeforeMoved, Open
<1>3. ASSUME NEW s \in Sessions, NEW l \in Lines, NEW q \in 1 .. Data[l].orderqty,
             Confirm(s, l, q)
      PROVE  Once'
  <2>1. Untouched' /\ AtMostOrdered' /\ PostedBeforeMoved'
    BY <1>3 DEF Once, Untouched, AtMostOrdered, PostedBeforeMoved, Confirm
  <2>2. Request(s)'
    BY <1>3 DEF Once, Untouched, Request, Confirm, TypeOK, Zero
  <2>3. ASSUME NEW t \in Sessions, t # s PROVE Request(t)'
    BY <1>3, <2>3 DEF Once, Request, Confirm, TypeOK
  <2> QED BY <2>1, <2>2, <2>3 DEF Once
<1>4. ASSUME NEW s \in Sessions, SavePage(s) PROVE Once'
  BY <1>4 DEF Once, Untouched, Request, AtMostOrdered, PostedBeforeMoved, SavePage, Goto, At,
     TypeOK
<1>5. ASSUME NEW s \in Sessions, InsertIface(s) PROVE Once'
  <2> DEFINE l == cur[s]
  <2>1. pc[s] \in Receiving /\ \A t \in Sessions : Request(t)
    BY <1>5 DEF Once, InsertIface, At
  <2>2. /\ l \in Lines /\ Data[l].orderqty \in Nat
        /\ qty[s] \in Nat /\ qty[s] <= Data[l].orderqty
    BY <2>1, RequestLine
  <2>3. erpiface' = erpiface \cup {l}
    BY <1>5, <2>2 DEF InsertIface, TypeOK, Both
  <2>4. Untouched'
    BY <1>5, <2>1, <2>2, <2>3 DEF Once, Untouched, Request, At, InsertIface
  <2>5. Request(s)'
    BY <1>5, <2>1, <2>2, <2>3 DEF Request, At, InsertIface, Goto, TypeOK, Line
  <2>6. ASSUME NEW t \in Sessions, t # s PROVE Request(t)'
    <3>1. pc[t] \in Receiving => cur[t] # l /\ cur[t] \in Lines
      BY <2>1, <2>6, OneReceiver, RequestLine
    <3> QED BY <1>5, <2>1, <2>2, <2>3, <2>6, <3>1 DEF Request, At, InsertIface, Goto, TypeOK
  <2>7. ASSUME NEW m \in Lines
        PROVE  /\ erp'[m] <= Data[m].orderqty
               /\ moved'[m].out <= Data[m].orderqty /\ moved'[m].in <= Data[m].orderqty
               /\ invtrans'[m].out <= Data[m].orderqty
               /\ invtrans'[m].in <= Data[m].orderqty
               /\ Data[m].route = "erp" => moved'[m].out <= erp'[m]
               /\ Data[m].route = "erp" => moved'[m].in <= erp'[m]
    <3>1. /\ erp[m] <= Data[m].orderqty
          /\ moved[m].out <= Data[m].orderqty /\ moved[m].in <= Data[m].orderqty
          /\ invtrans[m].out <= Data[m].orderqty /\ invtrans[m].in <= Data[m].orderqty
          /\ Data[m].route = "erp" => moved[m].out <= erp[m] /\ moved[m].in <= erp[m]
      BY DEF Once, AtMostOrdered, PostedBeforeMoved
    <3>2. CASE m # l
      BY <1>5, <2>3, <3>1, <3>2 DEF InsertIface
    <3>3. CASE m = l
      <4>1. /\ erp[l] \in Nat /\ moved[l].out \in Nat /\ moved[l].in \in Nat
            /\ invtrans[l].out \in Nat /\ invtrans[l].in \in Nat
        BY <2>2 DEF TypeOK, Both
      <4> QED BY <1>5, <2>1, <2>2, <2>3, <3>1, <3>3, <4>1 DEF Request, At, InsertIface
    <3> QED BY <3>2, <3>3
  <2>8. AtMostOrdered' /\ PostedBeforeMoved'
    BY <2>7 DEF AtMostOrdered, PostedBeforeMoved
  <2> QED BY <2>4, <2>5, <2>6, <2>8 DEF Once
<1>6. ASSUME NEW s \in Sessions, ErpPosts(s) PROVE Once'
  <2> DEFINE l == cur[s]
  <2>1. pc[s] \in Receiving /\ \A t \in Sessions : Request(t)
    BY <1>6 DEF Once, ErpPosts, At
  <2>2. /\ l \in Lines /\ Data[l].orderqty \in Nat
        /\ qty[s] \in Nat /\ qty[s] <= Data[l].orderqty
    BY <2>1, RequestLine
  <2>3. /\ erp'[l] = erp[l] + qty[s]
        /\ \A m \in Lines : m # l => erp'[m] = erp[m]
    BY <1>6, <2>2 DEF ErpPosts, TypeOK, Both
  <2>4. Untouched'
    BY <1>6, <2>1, <2>2, <2>3 DEF Once, Untouched, Request, At, ErpPosts
  <2>5. Request(s)'
    BY <1>6, <2>1, <2>2, <2>3 DEF Request, At, ErpPosts, Goto, TypeOK
  <2>6. ASSUME NEW t \in Sessions, t # s PROVE Request(t)'
    <3>1. pc[t] \in Receiving => cur[t] # l /\ cur[t] \in Lines
      BY <2>1, <2>6, OneReceiver, RequestLine
    <3> QED BY <1>6, <2>1, <2>2, <2>3, <2>6, <3>1 DEF Request, At, ErpPosts, Goto, TypeOK
  <2>7. ASSUME NEW m \in Lines
        PROVE  /\ erp'[m] <= Data[m].orderqty
               /\ moved'[m].out <= Data[m].orderqty /\ moved'[m].in <= Data[m].orderqty
               /\ invtrans'[m].out <= Data[m].orderqty
               /\ invtrans'[m].in <= Data[m].orderqty
               /\ Data[m].route = "erp" => moved'[m].out <= erp'[m]
               /\ Data[m].route = "erp" => moved'[m].in <= erp'[m]
    <3>1. /\ erp[m] <= Data[m].orderqty
          /\ moved[m].out <= Data[m].orderqty /\ moved[m].in <= Data[m].orderqty
          /\ invtrans[m].out <= Data[m].orderqty /\ invtrans[m].in <= Data[m].orderqty
          /\ Data[m].route = "erp" => moved[m].out <= erp[m] /\ moved[m].in <= erp[m]
      BY DEF Once, AtMostOrdered, PostedBeforeMoved
    <3>2. CASE m # l
      BY <1>6, <2>3, <3>1, <3>2 DEF ErpPosts
    <3>3. CASE m = l
      <4>1. /\ erp[l] \in Nat /\ moved[l].out \in Nat /\ moved[l].in \in Nat
            /\ invtrans[l].out \in Nat /\ invtrans[l].in \in Nat
        BY <2>2 DEF TypeOK, Both
      <4> QED BY <1>6, <2>1, <2>2, <2>3, <3>1, <3>3, <4>1 DEF Request, At, ErpPosts
    <3> QED BY <3>2, <3>3
  <2>8. AtMostOrdered' /\ PostedBeforeMoved'
    BY <2>7 DEF AtMostOrdered, PostedBeforeMoved
  <2> QED BY <2>4, <2>5, <2>6, <2>8 DEF Once
<1>7. ASSUME NEW s \in Sessions, ErpRefuses(s) PROVE Once'
  BY <1>7 DEF Once, Untouched, Request, AtMostOrdered, PostedBeforeMoved, ErpRefuses, Finish, At,
     TypeOK
<1>8. ASSUME NEW s \in Sessions, ErpIsLost(s) PROVE Once'
  <2> DEFINE l == cur[s]
  <2>1. pc[s] \in Receiving /\ \A t \in Sessions : Request(t)
    BY <1>8 DEF Once, ErpIsLost, At
  <2>2. /\ l \in Lines /\ Data[l].orderqty \in Nat
        /\ qty[s] \in Nat /\ qty[s] <= Data[l].orderqty
    BY <2>1, RequestLine
  <2>3. /\ erp'[l] \in {erp[l], erp[l] + qty[s]}
        /\ \A m \in Lines : m # l => erp'[m] = erp[m]
    BY <1>8, <2>2 DEF ErpIsLost, TypeOK, Both
  <2>4. Untouched'
    BY <1>8, <2>1, <2>2, <2>3 DEF Once, Untouched, Request, At, ErpIsLost
  <2>5. Request(s)'
    BY <1>8, <2>1, <2>2, <2>3 DEF Request, At, ErpIsLost, Finish, TypeOK
  <2>6. ASSUME NEW t \in Sessions, t # s PROVE Request(t)'
    <3>1. pc[t] \in Receiving => cur[t] # l /\ cur[t] \in Lines
      BY <2>1, <2>6, OneReceiver, RequestLine
    <3> QED BY <1>8, <2>1, <2>2, <2>3, <2>6, <3>1 DEF Request, At, ErpIsLost, Finish, TypeOK
  <2>7. ASSUME NEW m \in Lines
        PROVE  /\ erp'[m] <= Data[m].orderqty
               /\ moved'[m].out <= Data[m].orderqty /\ moved'[m].in <= Data[m].orderqty
               /\ invtrans'[m].out <= Data[m].orderqty
               /\ invtrans'[m].in <= Data[m].orderqty
               /\ Data[m].route = "erp" => moved'[m].out <= erp'[m]
               /\ Data[m].route = "erp" => moved'[m].in <= erp'[m]
    <3>1. /\ erp[m] <= Data[m].orderqty
          /\ moved[m].out <= Data[m].orderqty /\ moved[m].in <= Data[m].orderqty
          /\ invtrans[m].out <= Data[m].orderqty /\ invtrans[m].in <= Data[m].orderqty
          /\ Data[m].route = "erp" => moved[m].out <= erp[m] /\ moved[m].in <= erp[m]
      BY DEF Once, AtMostOrdered, PostedBeforeMoved
    <3>2. CASE m # l
      BY <1>8, <2>3, <3>1, <3>2 DEF ErpIsLost
    <3>3. CASE m = l
      <4>1. /\ erp[l] \in Nat /\ moved[l].out \in Nat /\ moved[l].in \in Nat
            /\ invtrans[l].out \in Nat /\ invtrans[l].in \in Nat
        BY <2>2 DEF TypeOK, Both
      <4> QED BY <1>8, <2>1, <2>2, <2>3, <3>1, <3>3, <4>1 DEF Request, At, ErpIsLost
    <3> QED BY <3>2, <3>3
  <2>8. AtMostOrdered' /\ PostedBeforeMoved'
    BY <2>7 DEF AtMostOrdered, PostedBeforeMoved
  <2> QED BY <2>4, <2>5, <2>6, <2>8 DEF Once
<1>9. ASSUME NEW s \in Sessions, SetReceived(s) PROVE Once'
  BY <1>9 DEF Once, Untouched, Request, AtMostOrdered, PostedBeforeMoved, SetReceived, Goto, At,
     TypeOK
<1>10. ASSUME NEW s \in Sessions, ReadOut(s) PROVE Once'
  BY <1>10 DEF Once, Untouched, Request, AtMostOrdered, PostedBeforeMoved, ReadOut, Read, At,
     TypeOK
<1>11. ASSUME NEW s \in Sessions, OutStock(s) PROVE Once'
  <2> DEFINE l == cur[s]
  <2>1. pc[s] \in Receiving /\ \A t \in Sessions : Request(t)
    BY <1>11 DEF Once, OutStock, At
  <2>2. /\ l \in Lines /\ Data[l].orderqty \in Nat
        /\ qty[s] \in Nat /\ qty[s] <= Data[l].orderqty
    BY <2>1, RequestLine
  <2>3. /\ moved'[l].in = moved[l].in
        /\ moved'[l].out \in {moved[l].out, moved[l].out + qty[s]}
        /\ \A m \in Lines : m # l => moved'[m] = moved[m]
    BY <1>11, <2>2 DEF OutStock, TypeOK, Both, AddOut
  <2>4. Untouched'
    BY <1>11, <2>1, <2>2, <2>3 DEF Once, Untouched, Request, At, OutStock
  <2>5. Request(s)'
    BY <1>11, <2>1, <2>2, <2>3 DEF Request, At, OutStock, Goto, TypeOK
  <2>6. ASSUME NEW t \in Sessions, t # s PROVE Request(t)'
    <3>1. pc[t] \in Receiving => cur[t] # l /\ cur[t] \in Lines
      BY <2>1, <2>6, OneReceiver, RequestLine
    <3> QED BY <1>11, <2>1, <2>2, <2>3, <2>6, <3>1 DEF Request, At, OutStock, Goto, TypeOK
  <2>7. ASSUME NEW m \in Lines
        PROVE  /\ erp'[m] <= Data[m].orderqty
               /\ moved'[m].out <= Data[m].orderqty /\ moved'[m].in <= Data[m].orderqty
               /\ invtrans'[m].out <= Data[m].orderqty
               /\ invtrans'[m].in <= Data[m].orderqty
               /\ Data[m].route = "erp" => moved'[m].out <= erp'[m]
               /\ Data[m].route = "erp" => moved'[m].in <= erp'[m]
    <3>1. /\ erp[m] <= Data[m].orderqty
          /\ moved[m].out <= Data[m].orderqty /\ moved[m].in <= Data[m].orderqty
          /\ invtrans[m].out <= Data[m].orderqty /\ invtrans[m].in <= Data[m].orderqty
          /\ Data[m].route = "erp" => moved[m].out <= erp[m] /\ moved[m].in <= erp[m]
      BY DEF Once, AtMostOrdered, PostedBeforeMoved
    <3>2. CASE m # l
      BY <1>11, <2>3, <3>1, <3>2 DEF OutStock
    <3>3. CASE m = l
      <4>1. /\ erp[l] \in Nat /\ moved[l].out \in Nat /\ moved[l].in \in Nat
            /\ invtrans[l].out \in Nat /\ invtrans[l].in \in Nat
        BY <2>2 DEF TypeOK, Both
      <4> QED BY <1>11, <2>1, <2>2, <2>3, <3>1, <3>3, <4>1 DEF Request, At, OutStock
    <3> QED BY <3>2, <3>3
  <2>8. AtMostOrdered' /\ PostedBeforeMoved'
    BY <2>7 DEF AtMostOrdered, PostedBeforeMoved
  <2> QED BY <2>4, <2>5, <2>6, <2>8 DEF Once
<1>12. ASSUME NEW s \in Sessions, OutLedger(s) PROVE Once'
  <2> DEFINE l == cur[s]
  <2>1. pc[s] \in Receiving /\ \A t \in Sessions : Request(t)
    BY <1>12 DEF Once, OutLedger, At
  <2>2. /\ l \in Lines /\ Data[l].orderqty \in Nat
        /\ qty[s] \in Nat /\ qty[s] <= Data[l].orderqty
    BY <2>1, RequestLine
  <2>3. /\ invtrans'[l].in = invtrans[l].in
        /\ invtrans'[l].out \in {invtrans[l].out, invtrans[l].out + qty[s]}
        /\ \A m \in Lines : m # l => invtrans'[m] = invtrans[m]
    BY <1>12, <2>2 DEF OutLedger, TypeOK, Both, AddOut, Recorded
  <2>4. Untouched'
    BY <1>12, <2>1, <2>2, <2>3 DEF Once, Untouched, Request, At, OutLedger
  <2>5. Request(s)'
    BY <1>12, <2>1, <2>2, <2>3 DEF Request, At, OutLedger, Goto, TypeOK
  <2>6. ASSUME NEW t \in Sessions, t # s PROVE Request(t)'
    <3>1. pc[t] \in Receiving => cur[t] # l /\ cur[t] \in Lines
      BY <2>1, <2>6, OneReceiver, RequestLine
    <3> QED BY <1>12, <2>1, <2>2, <2>3, <2>6, <3>1 DEF Request, At, OutLedger, Goto, TypeOK
  <2>7. ASSUME NEW m \in Lines
        PROVE  /\ erp'[m] <= Data[m].orderqty
               /\ moved'[m].out <= Data[m].orderqty /\ moved'[m].in <= Data[m].orderqty
               /\ invtrans'[m].out <= Data[m].orderqty
               /\ invtrans'[m].in <= Data[m].orderqty
               /\ Data[m].route = "erp" => moved'[m].out <= erp'[m]
               /\ Data[m].route = "erp" => moved'[m].in <= erp'[m]
    <3>1. /\ erp[m] <= Data[m].orderqty
          /\ moved[m].out <= Data[m].orderqty /\ moved[m].in <= Data[m].orderqty
          /\ invtrans[m].out <= Data[m].orderqty /\ invtrans[m].in <= Data[m].orderqty
          /\ Data[m].route = "erp" => moved[m].out <= erp[m] /\ moved[m].in <= erp[m]
      BY DEF Once, AtMostOrdered, PostedBeforeMoved
    <3>2. CASE m # l
      BY <1>12, <2>3, <3>1, <3>2 DEF OutLedger
    <3>3. CASE m = l
      <4>1. /\ erp[l] \in Nat /\ moved[l].out \in Nat /\ moved[l].in \in Nat
            /\ invtrans[l].out \in Nat /\ invtrans[l].in \in Nat
        BY <2>2 DEF TypeOK, Both
      <4> QED BY <1>12, <2>1, <2>2, <2>3, <3>1, <3>3, <4>1 DEF Request, At, OutLedger
    <3> QED BY <3>2, <3>3
  <2>8. AtMostOrdered' /\ PostedBeforeMoved'
    BY <2>7 DEF AtMostOrdered, PostedBeforeMoved
  <2> QED BY <2>4, <2>5, <2>6, <2>8 DEF Once
<1>13. ASSUME NEW s \in Sessions, ReadIn(s) PROVE Once'
  BY <1>13 DEF Once, Untouched, Request, AtMostOrdered, PostedBeforeMoved, ReadIn, Read, At,
     TypeOK
<1>14. ASSUME NEW s \in Sessions, InStock(s) PROVE Once'
  <2> DEFINE l == cur[s]
  <2>1. pc[s] \in Receiving /\ \A t \in Sessions : Request(t)
    BY <1>14 DEF Once, InStock, At
  <2>2. /\ l \in Lines /\ Data[l].orderqty \in Nat
        /\ qty[s] \in Nat /\ qty[s] <= Data[l].orderqty
    BY <2>1, RequestLine
  <2>3. /\ moved'[l].out = moved[l].out
        /\ moved'[l].in \in {moved[l].in, moved[l].in + qty[s]}
        /\ \A m \in Lines : m # l => moved'[m] = moved[m]
    BY <1>14, <2>2 DEF InStock, TypeOK, Both, AddIn
  <2>4. Untouched'
    BY <1>14, <2>1, <2>2, <2>3 DEF Once, Untouched, Request, At, InStock
  <2>5. Request(s)'
    BY <1>14, <2>1, <2>2, <2>3 DEF Request, At, InStock, Goto, TypeOK
  <2>6. ASSUME NEW t \in Sessions, t # s PROVE Request(t)'
    <3>1. pc[t] \in Receiving => cur[t] # l /\ cur[t] \in Lines
      BY <2>1, <2>6, OneReceiver, RequestLine
    <3> QED BY <1>14, <2>1, <2>2, <2>3, <2>6, <3>1 DEF Request, At, InStock, Goto, TypeOK
  <2>7. ASSUME NEW m \in Lines
        PROVE  /\ erp'[m] <= Data[m].orderqty
               /\ moved'[m].out <= Data[m].orderqty /\ moved'[m].in <= Data[m].orderqty
               /\ invtrans'[m].out <= Data[m].orderqty
               /\ invtrans'[m].in <= Data[m].orderqty
               /\ Data[m].route = "erp" => moved'[m].out <= erp'[m]
               /\ Data[m].route = "erp" => moved'[m].in <= erp'[m]
    <3>1. /\ erp[m] <= Data[m].orderqty
          /\ moved[m].out <= Data[m].orderqty /\ moved[m].in <= Data[m].orderqty
          /\ invtrans[m].out <= Data[m].orderqty /\ invtrans[m].in <= Data[m].orderqty
          /\ Data[m].route = "erp" => moved[m].out <= erp[m] /\ moved[m].in <= erp[m]
      BY DEF Once, AtMostOrdered, PostedBeforeMoved
    <3>2. CASE m # l
      BY <1>14, <2>3, <3>1, <3>2 DEF InStock
    <3>3. CASE m = l
      <4>1. /\ erp[l] \in Nat /\ moved[l].out \in Nat /\ moved[l].in \in Nat
            /\ invtrans[l].out \in Nat /\ invtrans[l].in \in Nat
        BY <2>2 DEF TypeOK, Both
      <4> QED BY <1>14, <2>1, <2>2, <2>3, <3>1, <3>3, <4>1 DEF Request, At, InStock
    <3> QED BY <3>2, <3>3
  <2>8. AtMostOrdered' /\ PostedBeforeMoved'
    BY <2>7 DEF AtMostOrdered, PostedBeforeMoved
  <2> QED BY <2>4, <2>5, <2>6, <2>8 DEF Once
<1>15. ASSUME NEW s \in Sessions, InLedger(s) PROVE Once'
  <2> DEFINE l == cur[s]
  <2>1. pc[s] \in Receiving /\ \A t \in Sessions : Request(t)
    BY <1>15 DEF Once, InLedger, At
  <2>2. /\ l \in Lines /\ Data[l].orderqty \in Nat
        /\ qty[s] \in Nat /\ qty[s] <= Data[l].orderqty
    BY <2>1, RequestLine
  <2>3. /\ invtrans'[l].out = invtrans[l].out
        /\ invtrans'[l].in \in {invtrans[l].in, invtrans[l].in + qty[s]}
        /\ \A m \in Lines : m # l => invtrans'[m] = invtrans[m]
    BY <1>15, <2>2 DEF InLedger, TypeOK, Both, AddIn, Recorded
  <2>4. Untouched'
    BY <1>15, <2>1, <2>2, <2>3 DEF Once, Untouched, Request, At, InLedger
  <2>5. Request(s)'
    BY <1>15, <2>1, <2>2, <2>3 DEF Request, At, InLedger, Goto, TypeOK
  <2>6. ASSUME NEW t \in Sessions, t # s PROVE Request(t)'
    <3>1. pc[t] \in Receiving => cur[t] # l /\ cur[t] \in Lines
      BY <2>1, <2>6, OneReceiver, RequestLine
    <3> QED BY <1>15, <2>1, <2>2, <2>3, <2>6, <3>1 DEF Request, At, InLedger, Goto, TypeOK
  <2>7. ASSUME NEW m \in Lines
        PROVE  /\ erp'[m] <= Data[m].orderqty
               /\ moved'[m].out <= Data[m].orderqty /\ moved'[m].in <= Data[m].orderqty
               /\ invtrans'[m].out <= Data[m].orderqty
               /\ invtrans'[m].in <= Data[m].orderqty
               /\ Data[m].route = "erp" => moved'[m].out <= erp'[m]
               /\ Data[m].route = "erp" => moved'[m].in <= erp'[m]
    <3>1. /\ erp[m] <= Data[m].orderqty
          /\ moved[m].out <= Data[m].orderqty /\ moved[m].in <= Data[m].orderqty
          /\ invtrans[m].out <= Data[m].orderqty /\ invtrans[m].in <= Data[m].orderqty
          /\ Data[m].route = "erp" => moved[m].out <= erp[m] /\ moved[m].in <= erp[m]
      BY DEF Once, AtMostOrdered, PostedBeforeMoved
    <3>2. CASE m # l
      BY <1>15, <2>3, <3>1, <3>2 DEF InLedger
    <3>3. CASE m = l
      <4>1. /\ erp[l] \in Nat /\ moved[l].out \in Nat /\ moved[l].in \in Nat
            /\ invtrans[l].out \in Nat /\ invtrans[l].in \in Nat
        BY <2>2 DEF TypeOK, Both
      <4> QED BY <1>15, <2>1, <2>2, <2>3, <3>1, <3>3, <4>1 DEF Request, At, InLedger
    <3> QED BY <3>2, <3>3
  <2>8. AtMostOrdered' /\ PostedBeforeMoved'
    BY <2>7 DEF AtMostOrdered, PostedBeforeMoved
  <2> QED BY <2>4, <2>5, <2>6, <2>8 DEF Once
<1>16. ASSUME NEW s \in Sessions, EndPay(s) PROVE Once'
  BY <1>16 DEF Once, Untouched, Request, AtMostOrdered, PostedBeforeMoved, EndPay, Goto, At,
     TypeOK
<1>17. ASSUME NEW s \in Sessions, Throws(s) PROVE Once'
  BY <1>17 DEF Once, Untouched, Request, AtMostOrdered, PostedBeforeMoved, Throws, Finish, At,
     TypeOK
<1>18. ASSUME NEW s \in Sessions, AddTrade(s) PROVE Once'
  BY <1>18 DEF Once, Untouched, Request, AtMostOrdered, PostedBeforeMoved, AddTrade, Goto, At,
     TypeOK
<1>19. ASSUME NEW s \in Sessions, CreateTk(s) PROVE Once'
  BY <1>19 DEF Once, Untouched, Request, AtMostOrdered, PostedBeforeMoved, CreateTk, Goto, At,
     TypeOK
<1>20. ASSUME NEW s \in Sessions, Save(s) PROVE Once'
  BY <1>20 DEF Once, Untouched, Request, AtMostOrdered, PostedBeforeMoved, Save, Goto, At,
     TypeOK
<1>21. ASSUME NEW s \in Sessions, RollUpMr(s) PROVE Once'
  BY <1>21 DEF Once, Untouched, Request, AtMostOrdered, PostedBeforeMoved, RollUpMr, Goto, At,
     TypeOK
<1>22. ASSUME NEW s \in Sessions, CloseMr(s) PROVE Once'
  BY <1>22 DEF Once, Untouched, Request, AtMostOrdered, PostedBeforeMoved, CloseMr, Goto, At,
     TypeOK
<1>23. ASSUME NEW s \in Sessions, RecalcInv(s) PROVE Once'
  BY <1>23 DEF Once, Untouched, Request, AtMostOrdered, PostedBeforeMoved, RecalcInv, Finish, At,
     TypeOK
<1>24. ASSUME NEW s \in Sessions, Crash(s) PROVE Once'
  BY <1>24 DEF Once, Untouched, Request, AtMostOrdered, PostedBeforeMoved, Crash, Finish, At,
     TypeOK
<1>25. ASSUME NEW s \in Sessions, QueryThrows(s) PROVE Once'
  BY <1>25 DEF Once, Untouched, Request, AtMostOrdered, PostedBeforeMoved, QueryThrows, Finish, At,
     TypeOK
<1>26. ASSUME NEW s \in Sessions, SumInv(s) PROVE Once'
  BY <1>26 DEF Once, Untouched, Request, AtMostOrdered, PostedBeforeMoved, SumInv, At, TypeOK
<1> QED
  BY <1>1, <1>2, <1>3, <1>4, <1>5, <1>6, <1>7, <1>8, <1>9, <1>10, <1>11, <1>12, <1>13, <1>14, <1>15, <1>16, <1>17, <1>18, <1>19, <1>20, <1>21, <1>22, <1>23, <1>24, <1>25,
     <1>26 DEF Next, User, Serve, Fault

\* At most what was packed is posted, moved and recorded, for any number of
\* lines and sessions and whatever fails, as long as no line is open in two
\* sessions; and goods of an ERP line move only after the ERP has posted them.
THEOREM ReceivedOnce ==
    ASSUME DisjointLines
    PROVE  Spec => [](AtMostOrdered /\ PostedBeforeMoved)
<1>1. Init => TypeOK /\ Once
  BY TypeInit, OnceInit
<1>2. (TypeOK /\ Once) /\ [Next]_vars => (TypeOK /\ Once)'
  <2>1. TypeOK /\ Once => LineAtWork
    BY RequestLine DEF Once, LineAtWork
  <2> QED BY <2>1, TypeNext, OnceNext
<1>3. Once => AtMostOrdered /\ PostedBeforeMoved
  BY DEF Once
<1> QED BY <1>1, <1>2, <1>3, PTL DEF Spec

\* In particular the goods of an ERP line leave and arrive only after the ERP
\* has posted them, as SAVE calls the ERP before it moves anything.
THEOREM PostedFirst ==
    ASSUME DisjointLines
    PROVE  Spec => []PostedBeforeMoved
BY ReceivedOnce, PTL

-----------------------------------------------------------------------------
(* The pages: as long as no line is open for receipt in two sessions, a    *)
(* slip is never received before its lines, and no save takes a receipt    *)
(* back.                                                                   *)

\* The steps before the line is set on the page.
Unset == {"iface", "erp", "status"}

Received(line) == line.status = "received"

\* What is saved of a session's own lines is on its page, or less: nobody else
\* saves them, and a reload only brings the page up to date.
PageNotOlder(s) ==
    \A l \in MayOpen[s] :
        /\ transferline[l].yjsqty <= page[s].line[l].yjsqty
        /\ Received(transferline[l]) => Received(page[s].line[l])

\* A slip marked received on a page has its lines received, in the database or
\* among the lines that will be saved with it.
MarkedWithLines(s) ==
    page[s].hdirty => \A l \in Lines :
        Received(transferline[l]) \/ (l \in page[s].dirty /\ Received(page[s].line[l]))

Page(s) ==
    /\ page[s].dirty \subseteq MayOpen[s]
    /\ PageNotOlder(s)
    /\ MarkedWithLines(s)
    /\ pc[s] \in Unset => cur[s] \in MayOpen[s] /\ ~ Received(page[s].line[cur[s]])

\* The inductive invariant.
Pages == HeaderMeansAllLines /\ \A s \in Sessions : Page(s)

\* What a step may do to the saved lines.
Final ==
    \A l \in Lines :
         /\ transferline'[l].yjsqty >= transferline[l].yjsqty
         /\ transferline[l].status = "received" => transferline'[l].status = "received"

----------------------------------------------------------------------------

LEMMA OwnLines ==
    ASSUME NEW s \in Sessions
    PROVE  MayOpen[s] \subseteq Lines
BY ReceiptAssumption DEF ReceiptAssumption

LEMMA PagesInit == Init => Pages
<1> SUFFICES ASSUME Init PROVE Pages
  OBVIOUS
<1>1. HeaderMeansAllLines
  BY DEF Init, HeaderMeansAllLines
<1>2. ASSUME NEW s \in Sessions PROVE Page(s)
  BY <1>2, OwnLines DEF Init, Page, PageNotOlder, MarkedWithLines, Received, Fresh, Unset
<1> QED BY <1>1, <1>2 DEF Pages

\* A step that touches neither the slip nor a page, and lets no request enter
\* the steps before the line is set.
LEMMA PagesKept ==
    ASSUME TypeOK, Pages, UNCHANGED <<slipvars, page>>,
           \A s \in Sessions : pc'[s] \in Unset => pc[s] \in Unset /\ cur'[s] = cur[s]
    PROVE  Pages' /\ Final
<1>1. transferline' = transferline /\ transfer' = transfer /\ page' = page
  BY DEF slipvars
<1>2. HeaderMeansAllLines'
  BY <1>1 DEF Pages, HeaderMeansAllLines
<1>3. ASSUME NEW s \in Sessions PROVE Page(s)'
  BY <1>1, <1>3 DEF Pages, Page, PageNotOlder, MarkedWithLines, Received
<1>4. Final
  BY <1>1 DEF Final, TypeOK
<1> QED BY <1>2, <1>3, <1>4 DEF Pages

\* A page is reloaded by a session that is idle afterwards.
LEMMA PagesReload ==
    ASSUME TypeOK, Pages, NEW s \in Sessions, UNCHANGED slipvars,
           page' = [page EXCEPT ![s] = Fresh], pc'[s] = "idle",
           \A t \in Sessions \ {s} : pc'[t] = pc[t] /\ cur'[t] = cur[t]
    PROVE  Pages' /\ Final
<1>1. transferline' = transferline /\ transfer' = transfer
  BY DEF slipvars
<1>2. HeaderMeansAllLines'
  BY <1>1 DEF Pages, HeaderMeansAllLines
<1>3. Page(s)'
  <2>1. page'[s] = Fresh
    BY DEF TypeOK
  <2>2. \A l \in MayOpen[s] : transferline[l].yjsqty <= transferline[l].yjsqty
    BY OwnLines DEF TypeOK
  <2> QED BY <1>1, <2>1, <2>2
          DEF Page, PageNotOlder, MarkedWithLines, Fresh, Received, Unset
<1>4. ASSUME NEW t \in Sessions \ {s} PROVE Page(t)'
  <2>1. page'[t] = page[t]
    BY DEF TypeOK
  <2> QED BY <1>1, <1>4, <2>1 DEF Pages, Page, PageNotOlder, MarkedWithLines, Received
<1>5. Final
  BY <1>1 DEF Final, TypeOK
<1> QED BY <1>2, <1>3, <1>4, <1>5 DEF Pages

\* The line of a request is set on its page; the slip is marked only if the
\* line is received and the database has the others received.
LEMMA PagesSet ==
    ASSUME TypeOK, Pages, NEW s \in Sessions, UNCHANGED slipvars,
           pc[s] \in Unset, pc'[s] \notin Unset,
           NEW last \in BOOLEAN,
           last => qty[s] = Wjsqty(s, cur[s]) /\ OthersReceived(cur[s]),
           page' = [page EXCEPT ![s] =
             [line   |-> [page[s].line EXCEPT ![cur[s]] = LineAfter(s, cur[s])],
              header |-> IF last THEN "received" ELSE page[s].header,
              dirty  |-> page[s].dirty \cup {cur[s]},
              hdirty |-> page[s].hdirty \/ last]],
           \A t \in Sessions \ {s} : pc'[t] = pc[t] /\ cur'[t] = cur[t]
    PROVE  Pages' /\ Final
<1> DEFINE l == cur[s]
<1>1. transferline' = transferline /\ transfer' = transfer
  BY DEF slipvars
<1>2. HeaderMeansAllLines'
  BY <1>1 DEF Pages, HeaderMeansAllLines
<1>3. l \in MayOpen[s] /\ l \in Lines /\ ~ Received(page[s].line[l])
  BY OwnLines DEF Pages, Page
<1>4. ~ Received(transferline[l]) /\ l \in Lines
  BY <1>3 DEF Pages, Page, PageNotOlder
<1>5. ~ page[s].hdirty
  BY <1>3, <1>4 DEF Pages, Page, MarkedWithLines
<1>6. Page(s)'
  <2>1. /\ page'[s].line = [page[s].line EXCEPT ![l] = LineAfter(s, l)]
        /\ page'[s].dirty = page[s].dirty \cup {l}
        /\ page'[s].hdirty = last
    BY <1>5 DEF TypeOK
  <2>2. \A m \in Lines : page'[s].line[m] = IF m = l THEN LineAfter(s, l) ELSE page[s].line[m]
    BY <2>1 DEF TypeOK
  <2>3. PageNotOlder(s)'
    <3>1. page[s].line[l].yjsqty <= LineAfter(s, l).yjsqty
      BY <1>3 DEF TypeOK, LineAfter
    <3>2. transferline[l].yjsqty <= LineAfter(s, l).yjsqty
      <4>1. transferline[l].yjsqty <= page[s].line[l].yjsqty
        BY <1>3 DEF Pages, Page, PageNotOlder
      <4>2. /\ transferline[l].yjsqty \in Nat /\ page[s].line[l].yjsqty \in Nat
            /\ LineAfter(s, l).yjsqty \in Nat
        BY <1>3 DEF TypeOK, LineAfter
      <4> QED BY <3>1, <4>1, <4>2
    <3> QED BY <1>1, <1>4, <2>2, <3>2, OwnLines DEF Pages, Page, PageNotOlder, Received
  <2>4. MarkedWithLines(s)'
    <3> SUFFICES ASSUME last, NEW m \in Lines
                 PROVE  Received(transferline[m]) \/ (m = l /\ Received(page'[s].line[m]))
      BY <1>1, <2>1 DEF MarkedWithLines, Received
    <3>1. CASE m = l
      BY <2>2, <3>1 DEF LineAfter, Received
    <3>2. CASE m # l
      BY <3>2 DEF OthersReceived, Received
    <3> QED BY <3>1, <3>2
  <2> QED BY <1>3, <2>1, <2>3, <2>4 DEF Pages, Page
<1>7. ASSUME NEW t \in Sessions \ {s} PROVE Page(t)'
  <2>1. page'[t] = page[t]
    BY DEF TypeOK
  <2> QED BY <1>1, <1>7, <2>1 DEF Pages, Page, PageNotOlder, MarkedWithLines, Received
<1>8. Final
  BY <1>1 DEF Final, TypeOK
<1> QED BY <1>2, <1>6, <1>7, <1>8 DEF Pages

\* The save writes only the session's own lines, and none of them backwards.
LEMMA PagesSave ==
    ASSUME DisjointLines, TypeOK, Pages, NEW s \in Sessions, Save(s)
    PROVE  Pages' /\ Final
<1>1. \A l \in Lines :
        transferline'[l] = IF l \in page[s].dirty THEN page[s].line[l] ELSE transferline[l]
  BY DEF Save
<1>2. page[s].dirty \subseteq MayOpen[s] /\ PageNotOlder(s)
  BY DEF Pages, Page
<1>3. Final
  <2> SUFFICES ASSUME NEW l \in Lines
               PROVE  /\ transferline'[l].yjsqty >= transferline[l].yjsqty
                      /\ transferline[l].status = "received"
                           => transferline'[l].status = "received"
    BY DEF Final
  <2>1. CASE l \in page[s].dirty
    <3>1. transferline[l].yjsqty \in Nat /\ page[s].line[l].yjsqty \in Nat
      BY DEF TypeOK
    <3> QED BY <1>1, <1>2, <2>1, <3>1 DEF PageNotOlder, Received
  <2>2. CASE l \notin page[s].dirty
    BY <1>1, <2>2 DEF TypeOK
  <2> QED BY <2>1, <2>2
<1>4. \A l \in Lines : Received(transferline[l]) => Received(transferline'[l])
  BY <1>3 DEF Final, Received
<1>5. HeaderMeansAllLines'
  <2>1. CASE page[s].hdirty
    <3>1. \A l \in Lines : Received(transferline'[l])
      BY <1>1, <1>4, <2>1 DEF Pages, Page, MarkedWithLines
    <3> QED BY <3>1 DEF HeaderMeansAllLines, Received
  <2>2. CASE ~ page[s].hdirty
    <3>1. transfer' = transfer
      BY <2>2 DEF Save
    <3> QED BY <1>4, <3>1 DEF Pages, HeaderMeansAllLines, Received
  <2> QED BY <2>1, <2>2
<1>6. /\ page'[s].line = page[s].line /\ page'[s].dirty = {} /\ page'[s].hdirty = FALSE
      /\ pc'[s] \notin Unset
      /\ \A t \in Sessions \ {s} : page'[t] = page[t] /\ pc'[t] = pc[t]
      /\ cur' = cur
  BY DEF Save, Goto, TypeOK, Unset
<1>7. Page(s)'
  <2>1. PageNotOlder(s)'
    <3> SUFFICES ASSUME NEW l \in MayOpen[s]
                 PROVE  /\ transferline'[l].yjsqty <= page[s].line[l].yjsqty
                        /\ Received(transferline'[l]) => Received(page[s].line[l])
      BY <1>6 DEF PageNotOlder, Received
    <3>1. l \in Lines
      BY OwnLines
    <3>2. CASE l \in page[s].dirty
      BY <1>1, <3>1, <3>2 DEF TypeOK
    <3>3. CASE l \notin page[s].dirty
      BY <1>1, <1>2, <3>1, <3>3 DEF PageNotOlder
    <3> QED BY <3>2, <3>3
  <2> QED BY <1>6, <2>1 DEF Page, MarkedWithLines
<1>8. ASSUME NEW t \in Sessions \ {s} PROVE Page(t)'
  <2>1. Page(t) /\ page'[t] = page[t] /\ pc'[t] = pc[t] /\ cur'[t] = cur[t]
    BY <1>6 DEF Pages
  <2>2. \A l \in MayOpen[t] : transferline'[l] = transferline[l]
    BY <1>1, <1>2, OwnLines DEF DisjointLines
  <2>3. PageNotOlder(t)'
    BY <2>1, <2>2 DEF Page, PageNotOlder, Received
  <2>4. MarkedWithLines(t)'
    BY <1>4, <2>1 DEF Page, MarkedWithLines, Received
  <2> QED BY <2>1, <2>3, <2>4 DEF Page, Received
<1> QED BY <1>3, <1>5, <1>7, <1>8 DEF Pages

\* The actions that leave slip and pages alone.
Calm(s) ==
    \/ SavePage(s) \/ InsertIface(s) \/ ErpPosts(s) \/ ErpRefuses(s) \/ ErpIsLost(s)
    \/ ReadOut(s) \/ OutStock(s) \/ OutLedger(s) \/ ReadIn(s) \/ InStock(s)
    \/ InLedger(s) \/ EndPay(s) \/ AddTrade(s) \/ CreateTk(s) \/ RollUpMr(s)
    \/ CloseMr(s) \/ SumInv(s) \/ RecalcInv(s) \/ Throws(s)

LEMMA PagesQuiet ==
    ASSUME TypeOK, Pages, NEW s \in Sessions, Calm(s)
    PROVE  Pages' /\ Final
<1> SUFFICES /\ UNCHANGED <<slipvars, page>>
             /\ \A t \in Sessions : pc'[t] \in Unset => pc[t] \in Unset /\ cur'[t] = cur[t]
  BY PagesKept
<1> USE DEF TypeOK, Unset, sumvars, bookvars
<1>1. CASE SavePage(s)
  BY <1>1 DEF SavePage, Goto, At
<1>2. CASE InsertIface(s)
  BY <1>2 DEF InsertIface, Goto, At
<1>3. CASE ErpPosts(s)
  BY <1>3 DEF ErpPosts, Goto, At
<1>4. CASE ErpRefuses(s)
  BY <1>4 DEF ErpRefuses, Finish, At
<1>5. CASE ErpIsLost(s)
  BY <1>5 DEF ErpIsLost, Finish, At
<1>6. CASE ReadOut(s)
  BY <1>6 DEF ReadOut, Read, At
<1>7. CASE OutStock(s)
  BY <1>7 DEF OutStock, Goto, At
<1>8. CASE OutLedger(s)
  BY <1>8 DEF OutLedger, Goto, At
<1>9. CASE ReadIn(s)
  BY <1>9 DEF ReadIn, Read, At
<1>10. CASE InStock(s)
  BY <1>10 DEF InStock, Goto, At
<1>11. CASE InLedger(s)
  BY <1>11 DEF InLedger, Goto, At
<1>12. CASE EndPay(s)
  BY <1>12 DEF EndPay, Goto, At
<1>13. CASE AddTrade(s)
  BY <1>13 DEF AddTrade, Goto, At
<1>14. CASE CreateTk(s)
  BY <1>14 DEF CreateTk, Goto, At
<1>15. CASE RollUpMr(s)
  BY <1>15 DEF RollUpMr, Goto, At
<1>16. CASE CloseMr(s)
  BY <1>16 DEF CloseMr, Goto, At
<1>17. CASE RecalcInv(s)
  BY <1>17 DEF RecalcInv, Finish, At
<1>18. CASE Throws(s)
  BY <1>18 DEF Throws, Finish, At
<1>19. CASE SumInv(s)
  BY <1>19 DEF SumInv, At
<1> QED BY <1>1, <1>2, <1>3, <1>4, <1>5, <1>6, <1>7, <1>8, <1>9, <1>10, <1>11, <1>12, <1>13, <1>14, <1>15, <1>16, <1>17, <1>18, <1>19 DEF Calm

LEMMA PagesNext ==
    ASSUME DisjointLines
    PROVE  TypeOK /\ Pages /\ [Next]_vars => Pages' /\ Final
<1> SUFFICES ASSUME TypeOK, Pages, [Next]_vars PROVE Pages' /\ Final
  OBVIOUS
<1>1. CASE UNCHANGED vars
  BY <1>1, PagesKept DEF vars, reqvars
<1>2. ASSUME NEW s \in Sessions, Open(s) PROVE Pages' /\ Final
  <2>1. /\ UNCHANGED slipvars /\ page' = [page EXCEPT ![s] = Fresh] /\ pc'[s] = "idle"
        /\ \A t \in Sessions \ {s} : pc'[t] = pc[t] /\ cur'[t] = cur[t]
    BY <1>2 DEF Open, At, reqvars
  <2> QED BY <2>1, PagesReload
<1>3. ASSUME NEW s \in Sessions, Crash(s) PROVE Pages' /\ Final
  <2>1. /\ UNCHANGED slipvars /\ page' = [page EXCEPT ![s] = Fresh] /\ pc'[s] = "idle"
        /\ \A t \in Sessions \ {s} : pc'[t] = pc[t] /\ cur'[t] = cur[t]
    BY <1>3 DEF Crash, Finish, TypeOK
  <2> QED BY <2>1, PagesReload
<1>4. ASSUME NEW s \in Sessions, NEW l \in Lines, NEW q \in 1 .. Data[l].orderqty,
             Confirm(s, l, q)
      PROVE  Pages' /\ Final
  <2>1. /\ transferline' = transferline /\ transfer' = transfer /\ page' = page
        /\ l \in MayOpen[s] /\ ~ Received(page[s].line[l])
    BY <1>4 DEF Confirm, slipvars, Received
  <2>2. /\ cur'[s] = l
        /\ \A t \in Sessions \ {s} : pc'[t] = pc[t] /\ cur'[t] = cur[t]
    BY <1>4 DEF Confirm, TypeOK
  <2>3. ASSUME NEW t \in Sessions PROVE Page(t)'
    BY <2>1, <2>2, <2>3 DEF Pages, Page, PageNotOlder, MarkedWithLines, Received
  <2>4. HeaderMeansAllLines'
    BY <2>1 DEF Pages, HeaderMeansAllLines
  <2>5. Final
    BY <2>1 DEF Final, TypeOK
  <2> QED BY <2>3, <2>4, <2>5 DEF Pages
<1>5. ASSUME NEW s \in Sessions, SetReceived(s) PROVE Pages' /\ Final
  <2> DEFINE last == qty[s] = Wjsqty(s, cur[s]) /\ OthersReceived(cur[s])
  <2>1. /\ UNCHANGED slipvars
        /\ pc[s] \in Unset /\ pc'[s] \notin Unset
        /\ \A t \in Sessions \ {s} : pc'[t] = pc[t] /\ cur'[t] = cur[t]
    BY <1>5 DEF SetReceived, Goto, At, TypeOK, Unset
  <2>2. page' = [page EXCEPT ![s] =
             [line   |-> [page[s].line EXCEPT ![cur[s]] = LineAfter(s, cur[s])],
              header |-> IF last THEN "received" ELSE page[s].header,
              dirty  |-> page[s].dirty \cup {cur[s]},
              hdirty |-> page[s].hdirty \/ last]]
    BY <1>5 DEF SetReceived
  <2>3. last \in BOOLEAN
    BY DEF OthersReceived
  <2> HIDE DEF last
  <2>4. last => qty[s] = Wjsqty(s, cur[s]) /\ OthersReceived(cur[s])
    BY DEF last
  <2> QED BY <2>1, <2>2, <2>3, <2>4, PagesSet
<1>6. ASSUME NEW s \in Sessions, QueryThrows(s) PROVE Pages' /\ Final
  <2>1. /\ UNCHANGED slipvars
        /\ pc[s] \in Unset /\ pc'[s] \notin Unset
        /\ \A t \in Sessions \ {s} : pc'[t] = pc[t] /\ cur'[t] = cur[t]
    BY <1>6 DEF QueryThrows, Finish, At, TypeOK, Unset
  <2>2. page' = [page EXCEPT ![s] =
             [line   |-> [page[s].line EXCEPT ![cur[s]] = LineAfter(s, cur[s])],
              header |-> IF FALSE THEN "received" ELSE page[s].header,
              dirty  |-> page[s].dirty \cup {cur[s]},
              hdirty |-> page[s].hdirty \/ FALSE]]
    BY <1>6 DEF QueryThrows, TypeOK
  <2> QED BY <2>1, <2>2, PagesSet
<1>7. ASSUME NEW s \in Sessions, Save(s) PROVE Pages' /\ Final
  BY <1>7, PagesSave
<1>8. ASSUME NEW s \in Sessions, Calm(s) PROVE Pages' /\ Final
  BY <1>8, PagesQuiet
<1> QED
  BY <1>1, <1>2, <1>3, <1>4, <1>5, <1>6, <1>7, <1>8 DEF Next, User, Serve, Fault, Calm

LEMMA PagesInvariant ==
    ASSUME DisjointLines
    PROVE  Spec => [](TypeOK /\ Pages)
<1>1. Init => TypeOK /\ Pages
  BY TypeInit, PagesInit
<1>2. LineAtWork /\ TypeOK /\ Pages /\ [Next]_vars => (LineAtWork /\ TypeOK /\ Pages)'
  BY TypeNext, PagesNext
<1>3. Init => LineAtWork
  BY DEF Init, LineAtWork, Receiving, BeforeInLedger, BeforeIn, BeforeOutLedger,
     BeforeOut, BeforeErp
<1> QED BY <1>1, <1>2, <1>3, PTL DEF Spec

\* The slip never counts as received before each of its lines does, for any
\* lines and sessions and whatever fails, as long as no line is open in two
\* sessions.
THEOREM HeaderNotAhead ==
    ASSUME DisjointLines
    PROVE  Spec => []HeaderMeansAllLines
<1>1. Pages => HeaderMeansAllLines
  BY DEF Pages
<1> QED BY <1>1, PagesInvariant, PTL

\* No save of any page takes a saved receipt back, under the same assumption.
THEOREM ReceiptStays ==
    ASSUME DisjointLines
    PROVE  Spec => ReceiptIsFinal
<1>1. TypeOK /\ Pages /\ [Next]_vars => [Final]_vars
  BY PagesNext
<1>2. [Final]_vars =>
        [\A l \in Lines :
           /\ transferline'[l].yjsqty >= transferline[l].yjsqty
           /\ transferline[l].status = "received" => transferline'[l].status = "received"
        ]_vars
  BY DEF Final
<1> QED BY <1>1, <1>2, PagesInvariant, PTL DEF Spec, ReceiptIsFinal

-----------------------------------------------------------------------------
(***************************************************************************)
(* TransitIsFresh, for every slip and any number of sessions, when no      *)
(* request dies after it has moved goods: each receipt leaves the derived  *)
(* quantities right, also those that others made stale meanwhile, unless   *)
(* its recomputation was itself overtaken.                                 *)
(***************************************************************************)

\* No request dies, and nothing is thrown after the movement.
RunsToTheEnd == Failures \cap {"crash", "throws"} = {}

\* The steps of a request that may have changed a balance or a line and has not
\* recomputed the derived quantities.
Owing == {"outLedger", "readIn", "in", "inLedger", "endpay", "trade", "tk",
          "save", "mr", "mrclose", "inv", "recalc"}

FreshRow(k) == stock.inventory[k].exists =>
    transit[k] = Derived(Data, Waiting, k, stock.inventory[k], Held[k])

\* A recomputation computes rows of the slip only.
SumsTouched ==
    /\ sums = [s \in Sessions |-> sums[s]]
    /\ \A s \in Sessions : DOMAIN sums[s] \subseteq Touched

\* The inductive invariant: stale rows are rows of the slip, and somebody is on
\* the way to recompute them all, or was overtaken when he wrote them.
Transit ==
    /\ SumsTouched
    /\ \A k \in Keys \ Touched : FreshRow(k)
    /\ (\A s \in Sessions : pc[s] \notin Owing) /\ ~ outdated => \A k \in Keys : FreshRow(k)

----------------------------------------------------------------------------

LEMMA TransitInit == Init => Transit
BY DEF Init, Transit, SumsTouched, NoSums, FreshRow

LEMMA TouchedRows ==
    ASSUME NEW l \in Lines
    PROVE  <<Data[l].from, Data[l].item>> \in Touched /\ <<Data[l].to, Data[l].item>> \in Touched
BY DEF Touched

\* A row that no line of the slip touches has nothing on its way.
LEMMA NothingOnTheWay ==
    ASSUME NEW k \in Keys \ Touched, NEW waiting \in SUBSET Lines, NEW row, NEW held
    PROVE  Derived(Data, waiting, k, row, held) =
             [fcztqty |-> OrderedOf(Data, {}),
              jsztqty |-> OrderedOf(Data, {}),
              kyqty   |-> KYQTY(row.curbal, held, OrderedOf(Data, {}))]
<1>2. {l \in waiting : <<Data[l].from, Data[l].item>> = k} = {}
  BY TouchedRows
<1>3. {l \in waiting : <<Data[l].to, Data[l].item>> = k} = {}
  BY TouchedRows
<1> QED BY <1>2, <1>3 DEF Derived, FCZTQTY, JSZTQTY

LEMMA WaitingLines == Waiting \subseteq Lines /\ Waiting' \subseteq Lines
BY DEF Waiting

\* Every step but the recomputation.
LEMMA TransitStep ==
    ASSUME TypeOK, Transit, NEW s \in Sessions, transit' = transit, outdated' = outdated,
           sums' \in {sums, [sums EXCEPT ![s] = NoSums], [sums EXCEPT ![s] = Current]},
           \A k \in Keys \ Touched : stock'.inventory[k] = stock.inventory[k],
           pc[s] \in Owing => pc'[s] \in Owing,
           pc'[s] \in Owing \/ UNCHANGED <<slipvars, stock>>,
           \A t \in Sessions \ {s} : pc'[t] = pc[t]
    PROVE  Transit'
<1>1. ASSUME NEW k \in Keys \ Touched PROVE FreshRow(k)'
  <2>1. FreshRow(k)
    BY DEF Transit
  <2>2. Derived(Data, Waiting, k, stock.inventory[k], Held[k])'
          = Derived(Data, Waiting, k, stock.inventory[k], Held[k])
    <3>1. stock'.inventory[k] = stock.inventory[k]
      OBVIOUS
    <3>2. \A w \in SUBSET Lines :
            Derived(Data, w, k, stock.inventory[k], Held[k])
              = [fcztqty |-> OrderedOf(Data, {}),
                 jsztqty |-> OrderedOf(Data, {}),
                 kyqty   |-> KYQTY(stock.inventory[k].curbal, Held[k], OrderedOf(Data, {}))]
      BY NothingOnTheWay
    <3> QED BY <3>1, <3>2, WaitingLines
  <2> QED BY <2>1, <2>2 DEF FreshRow
<1>2. ASSUME \A t \in Sessions : pc'[t] \notin Owing, ~ outdated', NEW k \in Keys
      PROVE  FreshRow(k)'
  <2>1. (\A t \in Sessions : pc[t] \notin Owing) /\ ~ outdated
    BY <1>2
  <2>2. FreshRow(k)
    BY <2>1 DEF Transit
  <2>3. stock' = stock /\ transferline' = transferline /\ transfer' = transfer
    BY <1>2 DEF slipvars
  <2> QED BY <2>2, <2>3 DEF FreshRow, Waiting
<1>3. SumsTouched'
  BY DEF Transit, SumsTouched, NoSums, Current
<1> QED BY <1>1, <1>2, <1>3 DEF Transit

\* The recomputation covers every row of the slip, with what it found; if that
\* is still so, the rows are fresh.
LEMMA TransitRecalc ==
    ASSUME TypeOK, Transit, NEW s \in Sessions, RecalcInv(s)
    PROVE  Transit'
<1>1. stock' = stock /\ transferline' = transferline /\ transfer' = transfer
  BY DEF RecalcInv, slipvars, bookvars
<1>2. ASSUME NEW k \in Keys \ Touched PROVE FreshRow(k)'
  <2>1. FreshRow(k) /\ k \notin DOMAIN sums[s]
    BY DEF Transit, SumsTouched
  <2>2. transit'[k] = transit[k]
    BY <2>1 DEF RecalcInv
  <2> QED BY <1>1, <2>1, <2>2 DEF FreshRow, Waiting
<1>3. ASSUME ~ outdated', NEW k \in Touched, k \in Keys PROVE FreshRow(k)'
  <2>1. sums[s] = Current
    BY <1>3 DEF RecalcInv
  <2> SUFFICES ASSUME stock.inventory[k].exists
               PROVE  transit'[k] = Derived(Data, Waiting, k, stock.inventory[k], Held[k])
    BY <1>1 DEF FreshRow, Waiting
  <2>2. k \in DOMAIN sums[s]
      /\ sums[s][k] = Derived(Data, Waiting, k, stock.inventory[k], Held[k])
    BY <2>1 DEF Current
  <2> QED BY <1>3, <2>2 DEF RecalcInv
<1>4. SumsTouched'
  BY DEF Transit, SumsTouched, RecalcInv, Finish, NoSums
<1> QED BY <1>2, <1>3, <1>4 DEF Transit

\* A movement changes no other row than the line's.
LEMMA OutElsewhere ==
    ASSUME NEW st \in Stock, NEW was, NEW l \in Lines, NEW q, NEW upto,
           NEW k \in Keys \ Touched
    PROVE  OutStoroom(st, was, Slip, Data[l], q, upto).inventory[k] = st.inventory[k]
<1>1. st.inventory \in [Keys -> Row]
  BY StockTables
<1>2. <<Data[l].from, Data[l].item>> # k /\ Data[l].kind \in Kinds
  BY LineKeys, TouchedRows DEF LineData
<1>3. \A row, saved : Put(st.inventory, <<Data[l].from, Data[l].item>>, row, saved)[k]
                        = st.inventory[k]
  BY <1>1, <1>2 DEF Put
<1>4. CASE Data[l].kind = "SQN"
  BY <1>3, <1>4 DEF OutStoroom, OutSqn
<1>5. CASE Data[l].kind = "LOT"
  BY <1>3, <1>5 DEF OutStoroom, OutLot
<1>6. CASE Data[l].kind = "OTHER"
  BY <1>3, <1>6 DEF OutStoroom, OutOther, Stock
<1> QED BY <1>2, <1>4, <1>5, <1>6 DEF Kinds

LEMMA InElsewhere ==
    ASSUME NEW st \in Stock, NEW was, NEW l \in Lines, NEW q, NEW upto, NEW room,
           NEW k \in Keys \ Touched
    PROVE  InStoroom(st, was, Slip, Data[l], q, room, upto).inventory[k] = st.inventory[k]
<1>1. st.inventory \in [Keys -> Row]
  BY StockTables
<1>2. <<Data[l].to, Data[l].item>> # k /\ Data[l].kind \in Kinds
  BY LineKeys, TouchedRows DEF LineData
<1>3. \A row, saved : Put(st.inventory, <<Data[l].to, Data[l].item>>, row, saved)[k]
                        = st.inventory[k]
  BY <1>1, <1>2 DEF Put
<1>4. CASE Data[l].kind = "SQN"
  BY <1>3, <1>4 DEF InStoroom, InSqn
<1>5. CASE Data[l].kind = "LOT"
  BY <1>3, <1>5 DEF InStoroom, InLot
<1>6. CASE Data[l].kind = "OTHER"
  BY <1>3, <1>6 DEF InStoroom, InOther, Stock
<1> QED BY <1>2, <1>4, <1>5, <1>6 DEF Kinds

\* The actions that change no balance.
Elsewhere(s) ==
    \/ Open(s) \/ (\E l \in Lines : \E q \in 1 .. Data[l].orderqty : Confirm(s, l, q))
    \/ SavePage(s) \/ InsertIface(s) \/ ErpPosts(s) \/ ErpRefuses(s) \/ ErpIsLost(s)
    \/ SetReceived(s) \/ QueryThrows(s) \/ ReadOut(s) \/ OutLedger(s) \/ ReadIn(s)
    \/ InLedger(s) \/ EndPay(s) \/ AddTrade(s) \/ CreateTk(s) \/ Save(s) \/ RollUpMr(s)
    \/ CloseMr(s) \/ SumInv(s)

LEMMA TransitElsewhere ==
    ASSUME TypeOK, Transit, NEW s \in Sessions, Elsewhere(s)
    PROVE  Transit'
<1> DEFINE Goal == /\ transit' = transit /\ outdated' = outdated /\ stock' = stock
                   /\ sums' \in {sums, [sums EXCEPT ![s] = NoSums],
                                 [sums EXCEPT ![s] = Current]}
                   /\ pc[s] \in Owing => pc'[s] \in Owing
                   /\ pc'[s] \in Owing \/ UNCHANGED slipvars
                   /\ \A t \in Sessions \ {s} : pc'[t] = pc[t]
<1> SUFFICES Goal
  BY TransitStep
<1> USE DEF TypeOK, Owing, At, bookvars, sumvars, reqvars
<1>0. ASSUME NEW l \in Lines, NEW q \in 1 .. Data[l].orderqty, Confirm(s, l, q) PROVE Goal
  BY <1>0 DEF Confirm
<1>1. CASE Open(s)
  BY <1>1 DEF Open
<1>2. CASE SavePage(s)
  BY <1>2 DEF SavePage, Goto
<1>3. CASE InsertIface(s)
  BY <1>3 DEF InsertIface, Goto, Line
<1>4. CASE ErpPosts(s)
  BY <1>4 DEF ErpPosts, Goto
<1>5. CASE ErpRefuses(s)
  BY <1>5 DEF ErpRefuses, Finish
<1>6. CASE ErpIsLost(s)
  BY <1>6 DEF ErpIsLost, Finish
<1>7. CASE SetReceived(s)
  BY <1>7 DEF SetReceived, Goto
<1>8. CASE QueryThrows(s)
  BY <1>8 DEF QueryThrows, Finish
<1>9. CASE ReadOut(s)
  BY <1>9 DEF ReadOut, Read
<1>10. CASE OutLedger(s)
  BY <1>10 DEF OutLedger, Goto
<1>11. CASE ReadIn(s)
  BY <1>11 DEF ReadIn, Read
<1>12. CASE InLedger(s)
  BY <1>12 DEF InLedger, Goto
<1>13. CASE EndPay(s)
  BY <1>13 DEF EndPay, Goto
<1>14. CASE AddTrade(s)
  BY <1>14 DEF AddTrade, Goto, Line
<1>15. CASE CreateTk(s)
  BY <1>15 DEF CreateTk, Goto
<1>16. CASE Save(s)
  BY <1>16 DEF Save, Goto
<1>17. CASE RollUpMr(s)
  BY <1>17 DEF RollUpMr, Goto
<1>18. CASE CloseMr(s)
  BY <1>18 DEF CloseMr, Goto
<1>19. CASE SumInv(s)
  BY <1>19 DEF SumInv
<1> QED BY <1>0, <1>1, <1>2, <1>3, <1>4, <1>5, <1>6, <1>7, <1>8, <1>9, <1>10, <1>11, <1>12, <1>13, <1>14, <1>15, <1>16, <1>17, <1>18, <1>19 DEF Elsewhere

LEMMA TransitStock ==
    ASSUME TypeOK, LineAtWork, Transit, NEW s \in Sessions, OutStock(s) \/ InStock(s)
    PROVE  Transit'
<1>1. /\ transit' = transit /\ outdated' = outdated /\ sums' = sums
      /\ pc'[s] \in Owing
      /\ \A t \in Sessions \ {s} : pc'[t] = pc[t]
  BY DEF OutStock, InStock, Goto, TypeOK, Owing, sumvars
<1>2. cur[s] \in Lines
  BY DEF LineAtWork, OutStock, InStock, At, Receiving, BeforeInLedger, BeforeIn,
     BeforeOutLedger, BeforeOut
<1>3. stock \in Stock
  BY DEF TypeOK
<1>4. ASSUME NEW k \in Keys \ Touched PROVE stock'.inventory[k] = stock.inventory[k]
  <2>1. CASE OutStock(s)
    <3>1. PICK upto \in Saves(s, <<Line(s).from, Line(s).item>>) :
            stock' = OutStoroom(stock, seen[s], Slip, Data[cur[s]], qty[s], upto)
      BY <2>1 DEF OutStock, Line
    <3> QED BY <1>2, <1>3, <3>1, OutElsewhere
  <2>2. CASE InStock(s)
    <3>1. PICK upto \in Saves(s, <<Line(s).to, Line(s).item>>) :
            stock' = InStoroom(stock, seen[s], Slip, Data[cur[s]], qty[s],
                               RoomType[Data[cur[s]].to], upto)
      BY <2>2 DEF InStock, Line
    <3> QED BY <1>2, <1>3, <3>1, InElsewhere
  <2> QED BY <2>1, <2>2
<1> QED BY <1>1, <1>4, TransitStep

LEMMA TransitNext ==
    ASSUME RunsToTheEnd
    PROVE  TypeOK /\ LineAtWork /\ Transit /\ [Next]_vars => Transit'
<1> SUFFICES ASSUME TypeOK, LineAtWork, Transit, [Next]_vars PROVE Transit'
  OBVIOUS
<1>1. CASE UNCHANGED vars
  BY <1>1 DEF vars, slipvars, bookvars, sumvars, reqvars, Transit, SumsTouched, FreshRow, Waiting
<1>2. ASSUME NEW s \in Sessions, Elsewhere(s) PROVE Transit'
  BY <1>2, TransitElsewhere
<1>3. ASSUME NEW s \in Sessions, OutStock(s) \/ InStock(s) PROVE Transit'
  BY <1>3, TransitStock
<1>4. ASSUME NEW s \in Sessions, RecalcInv(s) PROVE Transit'
  BY <1>4, TransitRecalc
<1>5. \A s \in Sessions : ~ Throws(s) /\ ~ Crash(s)
  BY DEF RunsToTheEnd, Throws, Crash
<1> QED BY <1>1, <1>2, <1>3, <1>4, <1>5 DEF Next, User, Serve, Fault, Elsewhere

\* When no request is running and the last recomputation was not overtaken, the
\* quantities on their way and the usable quantity of every row are those of the
\* saved slip and the balances (the end of SAVE, InventoryQtyCommon): for any
\* lines, rows and sessions, also if the sessions receive lines of the same
\* rows or the same line, if the ERP refuses or is lost and if exceptions of the
\* movement are swallowed, as long as no request dies after its movement.
THEOREM TransitFollows ==
    ASSUME RunsToTheEnd
    PROVE  Spec => []TransitIsFresh
<1>1. Init => TypeOK /\ LineAtWork /\ Transit
  BY TypeInit, TransitInit DEF Init, LineAtWork, Receiving, BeforeInLedger, BeforeIn,
     BeforeOutLedger, BeforeOut, BeforeErp
<1>2. (TypeOK /\ LineAtWork /\ Transit) /\ [Next]_vars => (TypeOK /\ LineAtWork /\ Transit)'
  BY TypeNext, TransitNext
<1>3. Transit => TransitIsFresh
  BY DEF Transit, FreshRow, TransitIsFresh, Owing
<1> QED BY <1>1, <1>2, <1>3, PTL DEF Spec
=============================================================================
