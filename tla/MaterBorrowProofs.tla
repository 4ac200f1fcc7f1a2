-------------------------- MODULE MaterBorrowProofs --------------------------
(***************************************************************************)
(* Theorems about MaterBorrow, for every slip and any number of sessions:  *)
(* the types; and, when each line is returned from one session only and    *)
(* the slip is lent and closed once, that it is all returned only with its *)
(* lines, and that what is settled stays settled.                          *)
(***************************************************************************)
EXTENDS MaterBorrow, TLAPS

Early    == {"new", "pending", "rejected", "closed"}
Returned == {"partReturned", "allReturned"}
Lending  == {"lendOut", "lendIn", "lendSave"}
Closing  == {"closeOut", "closeIn", "closeSave"}

\* A request has the line and the part its step is about.
AtWork(s) ==
    /\ pc[s] \in {"lendIn", "closeIn", "change", "asset", "out", "in"} => cur[s] \in Lines
    /\ pc[s] = "asset" => ret[s].asset \in Assets
    /\ seen[s] # NotRead => pc[s] \in Moving

\* The slip is lent or closed by one request, while it is new or rejected.
OneMover ==
    \A s \in Sessions :
        /\ pc[s] \in Lending => status = "new"
        /\ pc[s] \in Closing => status = "rejected"
        /\ pc[s] \in Lending \cup Closing => \A t \in Sessions \ {s} : pc[t] = "idle"

\* Before it is lent, and after it is closed, nobody has anything to return
\* on a page, and the job does not hold the slip.
EarlyIsQuiet ==
    status \in Early =>
        /\ ~ cron.busy
        /\ \A s \in Sessions : /\ page[s].dirty = {}
                               /\ page[s].status \in Early
                               /\ pc[s] \in {"idle"} \cup Lending \cup Closing

\* What a page holds: it is modified only in lines of its own session that the
\* database does not know as returned, and up to date in the session's others.
PageMine(s) ==
    /\ page[s].hdirty => page[s].dirty # {}
    /\ page[s].dirty \subseteq lines \cap MayReturn[s]
    /\ \A l \in page[s].dirty : /\ page[s].line[l].status = "returned"
                                /\ line[l].status # "returned"
    /\ \A l \in MayReturn[s] \ page[s].dirty : page[s].line[l].status = line[l].status

\* What a modified header says of the slip: all is returned only if the rest is.
PageHeader(s) ==
    page[s].hdirty =>
        /\ page[s].status \in Returned
        /\ page[s].status = "allReturned" =>
               \A l \in lines \ page[s].dirty : line[l].status = "returned"

\* A request about to mark its line found it not returned.
ToChange(s) ==
    pc[s] = "change" => /\ cur[s] \in lines \cap MayReturn[s]
                        /\ cur[s] \notin page[s].dirty
                        /\ line[cur[s]].status # "returned"

\* The inductive invariant of the statuses.
Statuses ==
    /\ OneMover
    /\ EarlyIsQuiet
    /\ \A s \in Sessions : PageMine(s) /\ PageHeader(s) /\ ToChange(s)
    /\ AllReturnedMeansAll

----------------------------------------------------------------------------
(* The types.                                                              *)

TypeInv == TypeOK /\ \A s \in Sessions : AtWork(s)

Row    == [exists : BOOLEAN, curbal : Int, locqty : Int]
Amount == [exists : BOOLEAN, qty : Int]
Part   == [exists : BOOLEAN, location : BorrowRooms \cup {Nowhere}]
Pages  == [status : Header, line : [Lines -> LineStatus],
           renewed : BOOLEAN, dirty : SUBSET Lines, hdirty : BOOLEAN]

\* A stock is well formed when its tables are.
LEMMA StockTables ==
    ASSUME NEW st \in BorrowStock
    PROVE  /\ st.inventory \in [Keys -> Row]
           /\ st.invblance \in [Keys -> Amount]
           /\ st.asset \in [Assets -> Part]
           /\ \A rows \in [Keys -> Row] : [st EXCEPT !.inventory = rows] \in BorrowStock
           /\ \A lots \in [Keys -> Amount] : [st EXCEPT !.invblance = lots] \in BorrowStock
           /\ \A parts \in [Assets -> Part] : [st EXCEPT !.asset = parts] \in BorrowStock
BY DEF BorrowStock, Row, Amount, Part

\* So are the rows and the amounts the two operations write.
LEMMA RowTypes ==
    /\ \A row \in Row : Less(row) \in Row /\ More(row) \in Row
    /\ \A lot \in Amount : OutAmount(lot, 1) \in Amount /\ InAmount(lot, 1) \in Amount
<1>1. ASSUME NEW row \in Row PROVE Less(row) \in Row
  <2>1. \A n, m \in Int : [row EXCEPT !.curbal = n, !.locqty = m] \in Row
    BY DEF Row
  <2>2. row.curbal - 1 \in Int /\ row.locqty - 1 \in Int
    BY DEF Row
  <2>3. [row EXCEPT !.curbal = row.curbal - 1, !.locqty = row.locqty - 1] \in Row
    BY <2>1, <2>2
  <2> QED BY <2>3 DEF Less
<1>2. ASSUME NEW row \in Row PROVE More(row) \in Row
  <2>1. \A n \in Int : [row EXCEPT !.exists = TRUE, !.curbal = n] \in Row
    BY DEF Row
  <2>2. row.curbal + 1 \in Int
    BY DEF Row
  <2>3. [row EXCEPT !.exists = TRUE, !.curbal = row.curbal + 1] \in Row
    BY <2>1, <2>2
  <2> QED BY <2>3 DEF More
<1>3. ASSUME NEW lot \in Amount PROVE OutAmount(lot, 1) \in Amount /\ InAmount(lot, 1) \in Amount
  BY DEF Amount, OutAmount, InAmount
<1> QED BY <1>1, <1>2, <1>3

\* A table with one row saved is well formed.
LEMMA PutType ==
    ASSUME NEW S, NEW T, NEW t \in [S -> T], NEW key \in S, NEW row \in T, NEW saved
    PROVE  Put(t, key, row, saved) \in [S -> T]
BY DEF Put

\* OUTINVENTORY and ININVENTORY write well-formed rows, whatever they have read
\* and however many of their saves succeed.
LEMMA InventoryType ==
    ASSUME NEW st \in BorrowStock, NEW read \in BorrowStock, NEW room \in BorrowRooms,
           NEW i \in Items, NEW a \in Assets \cup {NoAsset}, NEW upto
    PROVE  /\ OUTINVENTORY(st, read, room, i, a, upto) \in BorrowStock
           /\ ININVENTORY(st, read, room, i, a, upto) \in BorrowStock
<1> DEFINE key == <<room, i>>
           row == read.inventory[key]
           lot == read.invblance[key]
           gone == [exists |-> TRUE, location |-> Nowhere]
           here == [exists |-> TRUE, location |-> room]
<1>1. key \in Keys /\ Kind[i] \in Kinds
  BY BorrowAssumption DEF Keys, BorrowAssumption
<1>2. /\ st.inventory \in [Keys -> Row] /\ st.invblance \in [Keys -> Amount]
      /\ st.asset \in [Assets -> Part]
      /\ read.inventory \in [Keys -> Row] /\ read.invblance \in [Keys -> Amount]
  BY StockTables
<1>3. /\ Less(row) \in Row /\ More(row) \in Row
      /\ OutAmount(lot, 1) \in Amount /\ InAmount(lot, 1) \in Amount
      /\ gone \in Part /\ here \in Part
  <2>1. row \in Row /\ lot \in Amount
    BY <1>1, <1>2
  <2> HIDE DEF row, lot
  <2>2. gone \in Part /\ here \in Part
    BY DEF Part
  <2> QED BY <2>1, <2>2, RowTypes
<1> HIDE DEF key, row, lot, gone, here
<1>4. \A rows \in [Keys -> Row] :
         /\ [st EXCEPT !.inventory = rows] \in BorrowStock
         /\ \A lots \in [Keys -> Amount] :
               [st EXCEPT !.inventory = rows, !.invblance = lots] \in BorrowStock
         /\ \A parts \in [Assets -> Part] :
               [st EXCEPT !.inventory = rows, !.asset = parts] \in BorrowStock
  BY DEF BorrowStock, Row, Amount, Part
<1>5. ASSUME NEW r \in Row, NEW m \in Amount, NEW q \in Part, NEW saved, NEW b \in BOOLEAN,
             NEW c \in BOOLEAN, NEW rows, rows = Put(st.inventory, key, r, saved)
      PROVE  /\ [st EXCEPT !.inventory = rows] \in BorrowStock
             /\ [st EXCEPT !.inventory = rows, !.invblance = Put(@, key, m, b)] \in BorrowStock
             /\ a \in Assets =>
                   [st EXCEPT !.inventory = rows, !.asset = Put(@, a, q, c)] \in BorrowStock
  <2>1. /\ rows \in [Keys -> Row]
        /\ Put(st.invblance, key, m, b) \in [Keys -> Amount]
        /\ a \in Assets => Put(st.asset, a, q, c) \in [Assets -> Part]
    BY <1>1, <1>2, <1>5, PutType
  <2> QED BY <1>4, <2>1
<1>6. OUTINVENTORY(st, read, room, i, a, upto) \in BorrowStock
  <2> DEFINE rows == Put(st.inventory, key, Less(row), row.exists /\ upto >= 2)
             b == row.exists /\ upto >= 1
             c == upto >= 3
  <2>1. /\ Kind[i] = "SQN" => OUTINVENTORY(st, read, room, i, a, upto) =
               IF Known(read, a) THEN [st EXCEPT !.inventory = rows, !.asset = Put(@, a, gone, c)]
               ELSE st
        /\ Kind[i] = "LOT" => OUTINVENTORY(st, read, room, i, a, upto) =
               [st EXCEPT !.inventory = rows, !.invblance = Put(@, key, OutAmount(lot, 1), b)]
        /\ Kind[i] = "OTHER" => OUTINVENTORY(st, read, room, i, a, upto) =
               [st EXCEPT !.inventory = rows]
    BY DEF OUTINVENTORY, key, row, lot, gone
  <2>2. rows = Put(st.inventory, key, Less(row), row.exists /\ upto >= 2)
    OBVIOUS
  <2>3. b \in BOOLEAN /\ c \in BOOLEAN /\ (Known(read, a) => a \in Assets)
    BY DEF Known
  <2> HIDE DEF rows, b, c
  <2>4. /\ [st EXCEPT !.inventory = rows] \in BorrowStock
        /\ [st EXCEPT !.inventory = rows, !.invblance = Put(@, key, OutAmount(lot, 1), b)]
               \in BorrowStock
        /\ a \in Assets =>
              [st EXCEPT !.inventory = rows, !.asset = Put(@, a, gone, c)] \in BorrowStock
    BY <1>3, <1>5, <2>2, <2>3
  <2> QED BY <1>1, <2>1, <2>3, <2>4 DEF Kinds
<1>7. ININVENTORY(st, read, room, i, a, upto) \in BorrowStock
  <2> DEFINE rows == Put(st.inventory, key, More(row), upto >= 2)
             b == upto >= 1
             c == upto >= 3
  <2>1. /\ Kind[i] = "SQN" => ININVENTORY(st, read, room, i, a, upto) =
               IF Known(read, a) THEN [st EXCEPT !.inventory = rows, !.asset = Put(@, a, here, c)]
               ELSE st
        /\ Kind[i] = "LOT" => ININVENTORY(st, read, room, i, a, upto) =
               [st EXCEPT !.inventory = rows, !.invblance = Put(@, key, InAmount(lot, 1), b)]
        /\ Kind[i] = "OTHER" => ININVENTORY(st, read, room, i, a, upto) =
               [st EXCEPT !.inventory = rows]
    BY DEF ININVENTORY, key, row, lot, here
  <2>2. rows = Put(st.inventory, key, More(row), upto >= 2)
    OBVIOUS
  <2>3. b \in BOOLEAN /\ c \in BOOLEAN /\ (Known(read, a) => a \in Assets)
    BY DEF Known
  <2> HIDE DEF rows, b, c
  <2>4. /\ [st EXCEPT !.inventory = rows] \in BorrowStock
        /\ [st EXCEPT !.inventory = rows, !.invblance = Put(@, key, InAmount(lot, 1), b)]
               \in BorrowStock
        /\ a \in Assets =>
              [st EXCEPT !.inventory = rows, !.asset = Put(@, a, here, c)] \in BorrowStock
    BY <1>3, <1>5, <2>2, <2>3
  <2> QED BY <1>1, <2>1, <2>3, <2>4 DEF Kinds
<1> QED BY <1>6, <1>7

GoodsTypeOK ==
    /\ stock \in BorrowStock
    /\ invtrans \in [Keys -> Int]
    /\ seen \in [Sessions -> BorrowStock \cup {NotRead}]
    /\ cut \in BOOLEAN

\* A movement out of a storeroom, or into one, keeps the goods well formed.
LEMMA GoodsType ==
    ASSUME TypeInv, NEW s \in Sessions, NEW room \in BorrowRooms, NEW i \in Items,
           NEW a \in Assets \cup {NoAsset}, Out(s, room, i, a) \/ In(s, room, i, a)
    PROVE  GoodsTypeOK' /\ seen' = [seen EXCEPT ![s] = NotRead]
<1>1. /\ stock \in BorrowStock /\ invtrans \in [Keys -> Int] /\ <<room, i>> \in Keys
      /\ seen \in [Sessions -> BorrowStock \cup {NotRead}] /\ cut \in BOOLEAN
  BY DEF TypeInv, TypeOK, Keys
<1>2. ASSUME NEW upto, NEW d \in {-1, 1}, seen[s] # NotRead, Moved(s, room, i, upto, d),
             \/ stock' = OUTINVENTORY(stock, seen[s], room, i, a, upto)
             \/ stock' = ININVENTORY(stock, seen[s], room, i, a, upto)
      PROVE  GoodsTypeOK' /\ seen' = [seen EXCEPT ![s] = NotRead]
  <2>1. stock' \in BorrowStock
    BY <1>1, <1>2, InventoryType
  <2>2. /\ invtrans' \in [Keys -> Int] /\ cut' \in BOOLEAN
        /\ seen' = [seen EXCEPT ![s] = NotRead]
    BY <1>1, <1>2 DEF Moved
  <2> QED BY <1>1, <2>1, <2>2 DEF GoodsTypeOK
<1>3. CASE Out(s, room, i, a)
  BY <1>2, <1>3 DEF Out
<1>4. CASE In(s, room, i, a)
  BY <1>2, <1>4 DEF In
<1> QED BY <1>3, <1>4

\* A page that shows what the database holds, and the empty return.
LEMMA FreshType ==
    ASSUME TypeInv
    PROVE  Fresh \in Pages /\ NoReturn \in Returns /\ NoCron \in [busy : BOOLEAN,
               renewed : BOOLEAN, sendemail : 0 .. 2, status : Header]
<1>1. (CHOOSE i \in Items : TRUE) \in Items
  BY BorrowAssumption DEF BorrowAssumption
<1>2. NoReturn \in Returns
  BY <1>1 DEF NoReturn, Returns
<1>3. Fresh \in Pages
  BY DEF TypeInv, TypeOK, Fresh, Pages
<1>4. NoCron \in [busy : BOOLEAN, renewed : BOOLEAN, sendemail : 0 .. 2, status : Header]
  BY DEF NoCron, Header
<1> QED BY <1>2, <1>3, <1>4

LEMMA TypeInit == Init => TypeInv
<1> SUFFICES ASSUME Init PROVE TypeInv
  OBVIOUS
<1> USE BorrowAssumption DEF Init, BorrowAssumption
<1>1. (CHOOSE i \in Items : TRUE) \in Items
  OBVIOUS
<1>2. ret \in [Sessions -> Returns]
  BY <1>1 DEF NoReturn, Returns
<1>3. line \in [Lines -> LineStatus]
  BY DEF LineStatus
<1>4. Fresh \in Pages
  BY <1>3 DEF Fresh, Pages, Header
<1>5. page \in [Sessions -> Pages]
  BY <1>4
<1>6. cron \in [busy : BOOLEAN, renewed : BOOLEAN, sendemail : 0 .. 2, status : Header]
  BY DEF NoCron, Header
<1>7. TypeOK
  <2>1. status \in Header /\ lines \subseteq Lines /\ renewed \in BOOLEAN /\ cut \in BOOLEAN
    BY DEF Header
  <2>2. sendemail \in 0 .. 2 /\ late \in 0 .. MaxLate
    OBVIOUS
  <2>3. stock \in BorrowStock /\ invtrans \in [Keys -> Int]
    OBVIOUS
  <2>4. /\ pc \in [Sessions -> Steps]
        /\ cur \in [Sessions -> Lines \cup {NoLine}]
        /\ todo \in [Sessions -> SUBSET Lines]
        /\ seen \in [Sessions -> BorrowStock \cup {NotRead}]
    BY DEF Steps
  <2> QED BY <1>2, <1>3, <1>5, <1>6, <2>1, <2>2, <2>3, <2>4 DEF TypeOK, Pages
<1>8. \A s \in Sessions : AtWork(s)
  BY DEF AtWork
<1> QED BY <1>7, <1>8 DEF TypeInv

\* Where a request ends, its session is idle.
LEMMA FinishType ==
    ASSUME TypeInv, NEW s \in Sessions, Finish(s)
    PROVE  /\ pc' \in [Sessions -> Steps]
           /\ cur' \in [Sessions -> Lines \cup {NoLine}]
           /\ ret' \in [Sessions -> Returns]
           /\ todo' \in [Sessions -> SUBSET Lines]
           /\ seen' \in [Sessions -> BorrowStock \cup {NotRead}]
           /\ \A t \in Sessions : AtWork(t)'
BY FreshType DEF TypeInv, TypeOK, Finish, Steps, AtWork

\* Every step keeps the types.
LEMMA TypeNext == TypeInv /\ [Next]_vars => TypeInv'
<1> SUFFICES ASSUME TypeInv, [Next]_vars PROVE TypeInv'
  OBVIOUS
<1> USE DEF slipvars, goods, reqvars
<1>1. /\ page \in [Sessions -> Pages]
      /\ \A l \in Lines : Item[l] \in Items /\ Asset[l] \in Assets \cup {NoAsset}
  BY BorrowAssumption DEF TypeInv, TypeOK, Pages, BorrowAssumption
<1>2. ASSUME NEW s \in Sessions, EditLines(s) PROVE TypeInv'
  BY <1>2 DEF EditLines, TypeInv, TypeOK, AtWork
<1>3. ASSUME NEW s \in Sessions, Submit(s) \/ Close(s) PROVE TypeInv'
  <2>1. /\ pc[s] = "idle"
        /\ \E n \in {"lendOut", "closeOut", "closeSave"} : pc' = [pc EXCEPT ![s] = n]
        /\ todo' = [todo EXCEPT ![s] = lines]
        /\ UNCHANGED <<slipvars, lines, late, goods, cur, ret, seen, page, cron, cut>>
    BY <1>3 DEF Submit, Close, Routed, At
  <2>2. \A t \in Sessions : AtWork(t)'
    BY <2>1 DEF TypeInv, TypeOK, AtWork, Moving
  <2>3. pc' \in [Sessions -> Steps] /\ todo' \in [Sessions -> SUBSET Lines]
    BY <2>1 DEF TypeInv, TypeOK, Steps
  <2> QED BY <2>1, <2>2, <2>3 DEF TypeInv, TypeOK
<1>4. ASSUME NEW s \in Sessions, NEW step, NEW next \in {"lendIn", "closeIn"},
             NEW room \in BorrowRooms, MoveOut(s, step, next, room)
      PROVE  TypeInv'
  <2>1. PICK l \in todo[s] : /\ Out(s, room, Item[l], Asset[l])
                             /\ cur' = [cur EXCEPT ![s] = l]
                             /\ todo' = [todo EXCEPT ![s] = @ \ {l}]
    BY <1>4 DEF MoveOut
  <2>2. l \in Lines
    BY DEF TypeInv, TypeOK
  <2>3. GoodsTypeOK' /\ seen' = [seen EXCEPT ![s] = NotRead]
    BY <1>1, <2>1, <2>2, GoodsType
  <2>4. pc' = [pc EXCEPT ![s] = next] /\ UNCHANGED <<slipvars, lines, late, ret, page, cron>>
    BY <1>4 DEF MoveOut
  <2>5. /\ pc' \in [Sessions -> Steps]
        /\ cur' \in [Sessions -> Lines \cup {NoLine}]
        /\ todo' \in [Sessions -> SUBSET Lines]
    BY <2>1, <2>2, <2>4 DEF TypeInv, TypeOK, Steps
  <2>6. \A t \in Sessions : AtWork(t)'
    BY <2>1, <2>2, <2>3, <2>4 DEF TypeInv, TypeOK, AtWork
  <2> QED BY <2>3, <2>4, <2>5, <2>6 DEF TypeInv, TypeOK, GoodsTypeOK
<1>5. ASSUME NEW s \in Sessions, NEW step \in {"lendIn", "closeIn"}, NEW room \in BorrowRooms,
             NEW more \in {"lendOut", "closeOut"}, NEW last \in {"lendSave", "closeSave"},
             MoveIn(s, step, more, last, room)
      PROVE  TypeInv'
  <2>1. cur[s] \in Lines
    BY <1>5 DEF MoveIn, At, TypeInv, AtWork
  <2>2. GoodsTypeOK' /\ seen' = [seen EXCEPT ![s] = NotRead]
    BY <1>1, <1>5, <2>1, GoodsType DEF MoveIn
  <2>3. /\ pc' = [pc EXCEPT ![s] = IF todo[s] = {} THEN last ELSE more]
        /\ UNCHANGED <<cur, ret, todo, slipvars, lines, late, page, cron>>
    BY <1>5 DEF MoveIn, Goto
  <2>4. pc' \in [Sessions -> Steps] /\ \A t \in Sessions : AtWork(t)'
    BY <2>2, <2>3 DEF TypeInv, TypeOK, AtWork, Steps
  <2> QED BY <2>2, <2>3, <2>4 DEF TypeInv, TypeOK, GoodsTypeOK
<1>6. ASSUME NEW s \in Sessions, NEW step, NEW new \in {"pending", "closed"},
             SaveStatus(s, step, new)
      PROVE  TypeInv'
  <2>1. [page[s] EXCEPT !.status = new] \in Pages
    BY <1>1 DEF Pages, Header
  <2>2. page' \in [Sessions -> Pages]
    BY <1>1, <1>6, <2>1 DEF SaveStatus
  <2>3. Finish(s) /\ status' \in Header
    BY <1>6 DEF SaveStatus, Header
  <2> QED BY <1>6, <2>2, <2>3, FinishType DEF SaveStatus, TypeInv, TypeOK, Pages
<1>7. ASSUME Decide \/ Later PROVE TypeInv'
  BY <1>7, BorrowAssumption DEF Decide, Later, TypeInv, TypeOK, AtWork, Header, BorrowAssumption
<1>8. ASSUME NEW s \in Sessions, Open(s) PROVE TypeInv'
  BY <1>1, <1>8, FreshType DEF Open, TypeInv, TypeOK, AtWork, Pages
<1>9. ASSUME NEW s \in Sessions, NEW l \in Lines, NEW r \in Returns, Confirm(s, l, r)
      PROVE  TypeInv'
  BY <1>9 DEF Confirm, At, TypeInv, TypeOK, AtWork, Steps, Moving
<1>10. ASSUME NEW s \in Sessions, At(s, "change")
      PROVE  /\ Marking(s) \in [Lines -> LineStatus]
             /\ page[s].dirty \cup {cur[s]} \in SUBSET Lines
  <2>1. cur[s] \in Lines /\ ret[s].item \in Items
    BY <1>10 DEF At, TypeInv, TypeOK, AtWork, Returns
  <2> QED BY <1>1, <2>1 DEF Marking, Pages, LineStatus
<1>11. ASSUME NEW s \in Sessions, ChangeStatus(s) PROVE TypeInv'
  <2> DEFINE l == cur[s]
             new == IF OthersReturned(l) THEN "allReturned" ELSE "partReturned"
             p == [page[s] EXCEPT !.line = Marking(s), !.status = new,
                                  !.dirty = page[s].dirty \cup {l}, !.hdirty = TRUE]
  <2>1. /\ pc[s] = "change" /\ l \in Lines
        /\ ret[s].asset \in Assets \cup {NoAsset}
    BY <1>11 DEF ChangeStatus, At, TypeInv, TypeOK, AtWork, Returns
  <2>2. Marking(s) \in [Lines -> LineStatus] /\ page[s].dirty \cup {l} \in SUBSET Lines
    BY <1>10, <1>11 DEF ChangeStatus
  <2>3. p \in Pages
    <3>1. new \in Header
      BY DEF Header
    <3>2. \A ls \in [Lines -> LineStatus], h \in Header, d \in SUBSET Lines :
             [page[s] EXCEPT !.line = ls, !.status = h, !.dirty = d, !.hdirty = TRUE] \in Pages
      BY <1>1 DEF Pages
    <3> HIDE DEF new, l
    <3> QED BY <2>2, <3>1, <3>2
  <2>4. page' = [page EXCEPT ![s] = p]
    BY <1>11 DEF ChangeStatus
  <2>5. page' \in [Sessions -> Pages]
    <3> HIDE DEF p
    <3> QED BY <1>1, <2>3, <2>4
  <2>6. /\ pc' = [pc EXCEPT ![s] = IF ret[s].asset = Asset[l] \/ ret[s].asset = NoAsset
                                   THEN "out" ELSE "asset"]
        /\ UNCHANGED <<cur, ret, todo>>
        /\ UNCHANGED <<slipvars, lines, late, goods, seen, cron, cut>>
    BY <1>11 DEF ChangeStatus, Goto
  <2>7. \A t \in Sessions : AtWork(t)'
    BY <2>1, <2>6 DEF TypeInv, TypeOK, AtWork, Moving
  <2>8. pc' \in [Sessions -> Steps]
    BY <2>6 DEF TypeInv, TypeOK, Steps
  <2> HIDE DEF p
  <2> QED BY <2>5, <2>6, <2>7, <2>8 DEF TypeInv, TypeOK, Pages
<1>12. ASSUME NEW s \in Sessions, ChangeFails(s) PROVE TypeInv'
  <2>1. \A ls \in [Lines -> LineStatus], d \in SUBSET Lines :
           [page[s] EXCEPT !.line = ls, !.dirty = d] \in Pages
    BY <1>1 DEF Pages
  <2>2. [page[s] EXCEPT !.line = Marking(s), !.dirty = page[s].dirty \cup {cur[s]}] \in Pages
    BY <1>10, <1>12, <2>1 DEF ChangeFails
  <2>3. page' \in [Sessions -> Pages]
    BY <1>1, <1>12, <2>2 DEF ChangeFails
  <2>4. cut' \in BOOLEAN /\ Finish(s)
    BY <1>12 DEF ChangeFails
  <2> QED BY <1>12, <2>3, <2>4, FinishType DEF ChangeFails, TypeInv, TypeOK, Pages
<1>13. ASSUME NEW s \in Sessions, Query(s) PROVE TypeInv'
  BY <1>13 DEF Query, TypeInv, TypeOK, AtWork
<1>14. ASSUME NEW s \in Sessions, AddAsset(s) PROVE TypeInv'
  <2> DEFINE a == ret[s].asset
             part == [exists |-> TRUE, location |-> Nowhere]
  <2>1. a \in Assets /\ ret[s] \in Returns
    BY <1>14 DEF AddAsset, At, TypeInv, TypeOK, AtWork
  <2>2. stock' = [stock EXCEPT !.asset = [stock.asset EXCEPT ![a] = part]]
    BY <1>14 DEF AddAsset
  <2>3. stock \in BorrowStock /\ stock.asset \in [Assets -> Part]
    BY StockTables DEF TypeInv, TypeOK
  <2>4. [stock.asset EXCEPT ![a] = part] \in [Assets -> Part]
    BY <2>1, <2>3 DEF Part
  <2>5. stock' \in BorrowStock
    <3> HIDE DEF part, a
    <3> QED BY <2>2, <2>3, <2>4, StockTables
  <2>6. \A b \in Assets \cup {NoAsset} : [ret[s] EXCEPT !.asset = b] \in Returns
    BY <2>1 DEF Returns
  <2>7. ret' \in [Sessions -> Returns]
    BY <1>14, <2>1, <2>6 DEF AddAsset, TypeInv, TypeOK
  <2>8. /\ cur[s] \in Lines
        /\ pc' = [pc EXCEPT ![s] = "out"]
        /\ \A t \in Sessions \ {s} : ret'[t] = ret[t]
        /\ pc[s] = "asset"
        /\ UNCHANGED <<slipvars, lines, late, invtrans, cur, todo, seen, page, cron, cut>>
    BY <1>14 DEF AddAsset, At, TypeInv, TypeOK, AtWork
  <2>9. pc' \in [Sessions -> Steps] /\ \A t \in Sessions : AtWork(t)'
    BY <2>1, <2>8 DEF TypeInv, TypeOK, AtWork, Steps, Moving
  <2> QED BY <2>5, <2>7, <2>8, <2>9 DEF TypeInv, TypeOK
<1>15. ASSUME NEW s \in Sessions, ReturnOut(s) PROVE TypeInv'
  <2>1. cur[s] \in Lines
    BY <1>15 DEF ReturnOut, At, TypeInv, AtWork
  <2>2. GoodsTypeOK' /\ seen' = [seen EXCEPT ![s] = NotRead]
    BY <1>1, <1>15, <2>1, GoodsType DEF ReturnOut, BorrowRooms
  <2>3. /\ pc' = [pc EXCEPT ![s] = "in"]
        /\ UNCHANGED <<cur, ret, todo, slipvars, lines, late, page, cron>>
    BY <1>15 DEF ReturnOut, Goto
  <2>4. pc' \in [Sessions -> Steps] /\ \A t \in Sessions : AtWork(t)'
    BY <2>1, <2>2, <2>3 DEF TypeInv, TypeOK, AtWork, Steps
  <2> QED BY <2>2, <2>3, <2>4 DEF TypeInv, TypeOK, GoodsTypeOK
<1>16. ASSUME NEW s \in Sessions, ReturnIn(s) PROVE TypeInv'
  <2>1. ret[s].item \in Items /\ ret[s].asset \in Assets \cup {NoAsset}
    BY DEF TypeInv, TypeOK, Returns
  <2>2. GoodsTypeOK' /\ seen' = [seen EXCEPT ![s] = NotRead]
    BY <1>16, <2>1, GoodsType DEF ReturnIn, BorrowRooms
  <2>3. /\ pc' = [pc EXCEPT ![s] = "save"]
        /\ UNCHANGED <<cur, ret, todo, slipvars, lines, late, page, cron>>
    BY <1>16 DEF ReturnIn, Goto
  <2>4. pc' \in [Sessions -> Steps] /\ \A t \in Sessions : AtWork(t)'
    BY <2>2, <2>3 DEF TypeInv, TypeOK, AtWork, Steps
  <2> QED BY <2>2, <2>3, <2>4 DEF TypeInv, TypeOK, GoodsTypeOK
<1>17. ASSUME NEW s \in Sessions, Saved(s)
       PROVE  status' \in Header /\ line' \in [Lines -> LineStatus]
  BY <1>1, <1>17 DEF Saved, TypeInv, TypeOK, Pages
<1>18. ASSUME NEW s \in Sessions, SavePage(s) PROVE TypeInv'
  <2>1. [page[s] EXCEPT !.dirty = {}, !.hdirty = FALSE] \in Pages
    BY <1>1 DEF Pages
  <2>2. page' \in [Sessions -> Pages] /\ Finish(s)
    BY <1>1, <1>18, <2>1 DEF SavePage
  <2>3. status' \in Header /\ line' \in [Lines -> LineStatus]
    BY <1>17, <1>18 DEF SavePage
  <2> QED BY <1>18, <2>2, <2>3, FinishType DEF SavePage, TypeInv, TypeOK, Pages
<1>19. ASSUME NEW s \in Sessions, Renew(s) PROVE TypeInv'
  <2>1. [page[s] EXCEPT !.renewed = TRUE, !.dirty = {}, !.hdirty = FALSE] \in Pages
    BY <1>1 DEF Pages
  <2>2. page' \in [Sessions -> Pages]
    BY <1>1, <1>19, <2>1 DEF Renew
  <2>3. status' \in Header /\ line' \in [Lines -> LineStatus]
    BY <1>17, <1>19 DEF Renew
  <2> QED BY <1>19, <2>2, <2>3 DEF Renew, TypeInv, TypeOK, Pages, AtWork
<1>20. ASSUME NEW s \in Sessions, PressSave(s) PROVE TypeInv'
  BY <1>20 DEF PressSave, At, Goto, TypeInv, TypeOK, AtWork, Steps, Moving
<1>21. ASSUME CronRead PROVE TypeInv'
  BY <1>21 DEF CronRead, TypeInv, TypeOK, AtWork
<1>22. ASSUME CronSave PROVE TypeInv'
  <2>1. status' \in Header /\ sendemail' \in 0 .. 2
    BY <1>22 DEF CronSave, TypeInv, TypeOK, Header
  <2> QED BY <1>22, <2>1, FreshType DEF CronSave, TypeInv, TypeOK, AtWork
<1>23. ASSUME NEW s \in Sessions, Throws(s) PROVE TypeInv'
  <2>1. cut' \in BOOLEAN /\ Finish(s)
    BY <1>23 DEF Throws
  <2> QED BY <1>23, <2>1, FinishType DEF Throws, TypeInv, TypeOK
<1>24. ASSUME NEW s \in Sessions, Crash(s) PROVE TypeInv'
  <2>1. cut' \in BOOLEAN /\ Finish(s) /\ page' = [page EXCEPT ![s] = Fresh]
    BY <1>24 DEF Crash
  <2>2. page' \in [Sessions -> Pages]
    BY <1>1, <2>1, FreshType
  <2> QED BY <1>24, <2>1, <2>2, FinishType DEF Crash, TypeInv, TypeOK, Pages
<1>25. CASE UNCHANGED vars
  BY <1>25 DEF vars, TypeInv, TypeOK, AtWork
<1>26. ASSUME NEW s \in Sessions, Move(s) PROVE TypeInv'
  BY <1>4, <1>5, <1>6, <1>26
     DEF Move, LendOut, LendIn, LendSave, CloseOut, CloseIn, CloseSave, BorrowRooms
<1>27. ASSUME NEW s \in Sessions, Return(s) PROVE TypeInv'
  BY <1>14, <1>15, <1>16, <1>18, <1>27, <1>11, <1>12 DEF Return
<1>28. ASSUME NEW s \in Sessions, User(s) PROVE TypeInv'
  BY <1>2, <1>3, <1>8, <1>9, <1>19, <1>20, <1>28 DEF User
<1> QED BY <1>7, <1>21, <1>22, <1>23, <1>24, <1>25, <1>26, <1>27, <1>28, <1>13 DEF Next

\* The slip's statuses, the stock, the pages and the requests hold what they
\* may hold, in every reachable state.
THEOREM TypeCorrect == Spec => []TypeOK
<1>1. Spec => []TypeInv
  BY TypeInit, TypeNext, PTL DEF Spec
<1>2. TypeInv => TypeOK
  BY DEF TypeInv
<1> QED BY <1>1, <1>2, PTL

----------------------------------------------------------------------------
(* The statuses.  Everything turns on two facts: a page is modified only   *)
(* in lines of its own that the database does not know as returned (then a *)
(* save takes nothing back), and the pages are not modified at all while   *)
(* the slip is lent or after it is closed.                                 *)

LEMMA StatusesInit == Init => Statuses
<1> SUFFICES ASSUME Init PROVE Statuses
  OBVIOUS
<1>1. \A s \in Sessions : page[s] = Fresh /\ pc[s] = "idle"
  BY DEF Init
<1>2. status = "new" /\ ~ cron.busy
  BY DEF Init, NoCron
<1>3. OneMover /\ EarlyIsQuiet
  BY <1>1, <1>2 DEF OneMover, EarlyIsQuiet, Fresh, Early, Lending, Closing
<1>4. \A s \in Sessions : PageMine(s) /\ PageHeader(s) /\ ToChange(s)
  BY <1>1 DEF PageMine, PageHeader, ToChange, Fresh
<1>5. AllReturnedMeansAll
  BY <1>2 DEF AllReturnedMeansAll
<1> QED BY <1>3, <1>4, <1>5 DEF Statuses

\* What a save writes: lines that were not returned become returned, and the
\* slip is all returned only with its lines.
LEMMA SavedKeeps ==
    ASSUME TypeInv, Statuses, NEW s \in Sessions, Saved(s), lines' = lines
    PROVE  /\ \A l \in Lines \ page[s].dirty : line'[l] = line[l]
           /\ \A l \in page[s].dirty : line'[l].status = "returned"
           /\ \A l \in lines : line[l].status = "returned" => line'[l] = line[l]
           /\ page[s].hdirty => status' \in Returned /\ page[s].dirty # {}
           /\ ~ page[s].hdirty => status' = status
           /\ status = "allReturned" => status' = "allReturned"
           /\ AllReturnedMeansAll'
           /\ \A l \in MayReturn[s] : page[s].line[l].status = line'[l].status
<1>1. /\ page[s].hdirty => page[s].dirty # {}
      /\ page[s].dirty \subseteq lines \cap MayReturn[s]
      /\ \A l \in page[s].dirty : /\ page[s].line[l].status = "returned"
                                  /\ line[l].status # "returned"
      /\ \A l \in MayReturn[s] \ page[s].dirty : page[s].line[l].status = line[l].status
  BY DEF Statuses, PageMine
<1>2. page[s].hdirty =>
          /\ page[s].status \in Returned
          /\ page[s].status = "allReturned" =>
                 \A l \in lines \ page[s].dirty : line[l].status = "returned"
  BY DEF Statuses, PageHeader
<1>3. MayReturn[s] \subseteq Lines /\ lines \subseteq Lines
  BY BorrowAssumption DEF BorrowAssumption, TypeInv, TypeOK
<1>4. \A l \in Lines : line'[l] = IF l \in page[s].dirty THEN page[s].line[l] ELSE line[l]
  BY DEF Saved
<1>5. status' = IF page[s].hdirty THEN page[s].status ELSE status
  BY DEF Saved
<1>6. status = "allReturned" => page[s].dirty = {}
  BY <1>1 DEF Statuses, AllReturnedMeansAll
<1>7. AllReturnedMeansAll'
  <2> SUFFICES ASSUME status' = "allReturned", NEW l \in lines PROVE line'[l].status = "returned"
    BY DEF AllReturnedMeansAll
  <2>1. CASE ~ page[s].hdirty
    BY <1>1, <1>3, <1>4, <1>5, <2>1 DEF Statuses, AllReturnedMeansAll
  <2>2. CASE page[s].hdirty
    BY <1>1, <1>2, <1>3, <1>4, <1>5, <2>2
  <2> QED BY <2>1, <2>2
<1> QED BY <1>1, <1>2, <1>3, <1>4, <1>5, <1>6, <1>7

\* A save by one session, whatever it does to its own request, keeps the
\* statuses: the pages of the others are modified in other lines.
LEMMA SaveKeepsStatuses ==
    ASSUME OneWindow, TypeInv, Statuses, NEW s \in Sessions, Saved(s),
           status \in Early => page[s].dirty = {},
           pc[s] \notin Lending \cup Closing,
           \A t \in Sessions : pc'[t] = IF t = s THEN "idle" ELSE pc[t],
           \A t \in Sessions \ {s} : cur'[t] = cur[t] /\ page'[t] = page[t],
           page'[s].status = page[s].status, page'[s].line = page[s].line,
           page'[s].dirty = {}, ~ page'[s].hdirty,
           lines' = lines, cron' = cron
    PROVE  Statuses'
<1>1. /\ \A l \in Lines \ page[s].dirty : line'[l] = line[l]
      /\ \A l \in page[s].dirty : line'[l].status = "returned"
      /\ page[s].hdirty => status' \in Returned /\ page[s].dirty # {}
      /\ ~ page[s].hdirty => status' = status
      /\ AllReturnedMeansAll'
      /\ \A l \in MayReturn[s] : page[s].line[l].status = line'[l].status
  BY SavedKeeps
<1>2. /\ page[s].dirty \subseteq MayReturn[s]
      /\ \A t \in Sessions : MayReturn[t] \subseteq Lines
  BY BorrowAssumption DEF BorrowAssumption, Statuses, PageMine
<1>3. \A t \in Sessions \ {s} : MayReturn[t] \cap page[s].dirty = {}
  BY <1>2 DEF OneWindow
<1>4. \A t \in Sessions \ {s} : \A l \in MayReturn[t] : line'[l] = line[l]
  BY <1>1, <1>2, <1>3
<1>5. /\ status \in Early => status' = status
      /\ status' \in Early => status' = status
  BY <1>1 DEF Early, Returned
<1>6. OneMover'
  BY <1>5 DEF Statuses, OneMover, Early, Lending, Closing
<1>7. EarlyIsQuiet'
  BY <1>5 DEF Statuses, EarlyIsQuiet
<1>8. PageMine(s)' /\ PageHeader(s)' /\ ToChange(s)'
  BY <1>1 DEF PageMine, PageHeader, ToChange
<1>9. ASSUME NEW t \in Sessions \ {s} PROVE PageMine(t)' /\ PageHeader(t)' /\ ToChange(t)'
  <2>1. PageMine(t) /\ PageHeader(t) /\ ToChange(t)
    BY DEF Statuses
  <2>2. \A l \in lines : line[l].status = "returned" => line'[l].status = "returned"
    BY <1>1 DEF TypeInv, TypeOK
  <2>3. PageMine(t)'
    BY <1>4, <2>1 DEF PageMine
  <2>4. PageHeader(t)'
    BY <2>1, <2>2 DEF PageHeader
  <2>5. ToChange(t)'
    BY <1>4, <2>1 DEF ToChange
  <2> QED BY <2>3, <2>4, <2>5
<1> QED BY <1>1, <1>6, <1>7, <1>8, <1>9 DEF Statuses

\* What a page shows of the slip when it has just been read.
LEMMA FreshPage ==
    ASSUME NEW s \in Sessions, page' = [page EXCEPT ![s] = Fresh],
           TypeInv, Statuses, pc'[s] = "idle",
           \A t \in Sessions \ {s} : pc'[t] = pc[t] /\ cur'[t] = cur[t],
           UNCHANGED <<status, line, lines, cron>>
    PROVE  Statuses'
<1>1. /\ page'[s] = Fresh
      /\ \A t \in Sessions \ {s} : page'[t] = page[t]
  BY DEF TypeInv, TypeOK
<1>2. OneMover'
  BY DEF Statuses, OneMover, Lending, Closing
<1>3. EarlyIsQuiet'
  BY <1>1 DEF Statuses, EarlyIsQuiet, Fresh
<1>4. PageMine(s)' /\ PageHeader(s)' /\ ToChange(s)'
  BY <1>1 DEF PageMine, PageHeader, ToChange, Fresh
<1>5. \A t \in Sessions \ {s} : PageMine(t)' /\ PageHeader(t)' /\ ToChange(t)'
  BY <1>1 DEF Statuses, PageMine, PageHeader, ToChange
<1>6. AllReturnedMeansAll'
  BY DEF Statuses, AllReturnedMeansAll
<1> QED BY <1>2, <1>3, <1>4, <1>5, <1>6 DEF Statuses

\* Steps that write no status and no page: one session's request goes on.
LEMMA RequestGoesOn ==
    ASSUME TypeInv, Statuses, NEW s \in Sessions, NEW n,
           pc' = [pc EXCEPT ![s] = n], \A t \in Sessions \ {s} : cur'[t] = cur[t],
           UNCHANGED <<status, line, lines, page, cron>>,
           n = "change" => /\ cur'[s] \in lines \cap MayReturn[s]
                           /\ cur'[s] \notin page[s].dirty
                           /\ line[cur'[s]].status # "returned",
           n \in Lending => status = "new",
           n \in Closing => status = "rejected",
           n \in Lending \cup Closing => \A t \in Sessions \ {s} : pc[t] = "idle",
           status \in Early => n \in {"idle"} \cup Lending \cup Closing,
           status \in {"new", "rejected"} /\ n # "idle" =>
               \A t \in Sessions \ {s} : pc[t] = "idle"
    PROVE  Statuses'
<1>1. /\ pc'[s] = n
      /\ \A t \in Sessions \ {s} : pc'[t] = pc[t]
  BY DEF TypeInv, TypeOK
<1>2. OneMover'
  BY <1>1 DEF Statuses, OneMover, Lending, Closing
<1>3. EarlyIsQuiet'
  BY <1>1 DEF Statuses, EarlyIsQuiet
<1>4. \A t \in Sessions : PageMine(t)' /\ PageHeader(t)'
  BY DEF Statuses, PageMine, PageHeader
<1>5. \A t \in Sessions : ToChange(t)'
  BY <1>1 DEF Statuses, ToChange
<1>6. AllReturnedMeansAll'
  BY DEF Statuses, AllReturnedMeansAll
<1> QED BY <1>2, <1>3, <1>4, <1>5, <1>6 DEF Statuses

\* Who moves goods to lend or to close is alone, and who returns does so on a
\* slip that is lent.
LEMMA WhoIsAtWork ==
    ASSUME Statuses, NEW s \in Sessions
    PROVE  /\ pc[s] \in Lending => status = "new"
           /\ pc[s] \in Closing => status = "rejected"
           /\ pc[s] \in Lending \cup Closing => \A t \in Sessions \ {s} : pc[t] = "idle"
           /\ pc[s] \in {"change", "asset", "out", "in", "save"} => status \notin Early
           /\ page[s].dirty # {} => status \notin Early
BY DEF Statuses, OneMover, EarlyIsQuiet, Lending, Closing

LEMMA StatusesNext ==
    ASSUME OneWindow, OneRoute, TypeInv, Statuses, [Next]_vars
    PROVE  Statuses'
<1> USE DEF slipvars, goods, reqvars
<1>1. ASSUME NEW s \in Sessions, EditLines(s) PROVE Statuses'
  <2>1. status = "new" /\ \A t \in Sessions : pc[t] = "idle"
    BY <1>1 DEF EditLines, OneWindow, At
  <2>2. UNCHANGED <<slipvars, late, goods, reqvars, page, cron, cut>>
    BY <1>1 DEF EditLines
  <2>3. \A t \in Sessions : page[t].dirty = {}
    BY <2>1 DEF Statuses, EarlyIsQuiet, Early
  <2>4. OneMover' /\ EarlyIsQuiet'
    BY <2>2 DEF Statuses, OneMover, EarlyIsQuiet
  <2>5. \A t \in Sessions : PageMine(t)' /\ PageHeader(t)' /\ ToChange(t)'
    BY <2>1, <2>2, <2>3 DEF Statuses, PageMine, PageHeader, ToChange
  <2>6. AllReturnedMeansAll'
    BY <2>1, <2>2 DEF AllReturnedMeansAll
  <2> QED BY <2>4, <2>5, <2>6 DEF Statuses
<1>2. ASSUME NEW s \in Sessions, Submit(s) PROVE Statuses'
  <2>1. /\ status = "new" /\ \A t \in Sessions : pc[t] = "idle"
        /\ pc' = [pc EXCEPT ![s] = "lendOut"] /\ cur' = cur
        /\ UNCHANGED <<status, line, lines, page, cron>>
    BY <1>2 DEF Submit, Routed, OneRoute, At
  <2> QED BY <2>1, RequestGoesOn DEF Lending, Closing
<1>3. ASSUME NEW s \in Sessions, Close(s) PROVE Statuses'
  <2> DEFINE n == IF lines = {} THEN "closeSave" ELSE "closeOut"
  <2>1. /\ status = "rejected" /\ \A t \in Sessions : pc[t] = "idle"
        /\ pc' = [pc EXCEPT ![s] = n] /\ cur' = cur
        /\ UNCHANGED <<status, line, lines, page, cron>>
    BY <1>3 DEF Close, Routed, OneRoute, At
  <2>2. n \in {"closeSave", "closeOut"}
    OBVIOUS
  <2> HIDE DEF n
  <2> QED BY <2>1, <2>2, RequestGoesOn DEF Lending, Closing
<1>4. ASSUME NEW s \in Sessions, NEW step \in Lending \cup Closing, NEW next, NEW room,
             step \in Lending => next \in Lending, step \in Closing => next \in Closing,
             MoveOut(s, step, next, room)
      PROVE  Statuses'
  <2>1. pc[s] = step /\ pc' = [pc EXCEPT ![s] = next]
    BY <1>4 DEF MoveOut, At
  <2>2. \A t \in Sessions \ {s} : cur'[t] = cur[t]
    BY <1>4 DEF MoveOut, TypeInv, TypeOK
  <2>3. UNCHANGED <<status, line, lines, page, cron>>
    BY <1>4 DEF MoveOut
  <2> QED BY <1>4, <2>1, <2>2, <2>3, WhoIsAtWork, RequestGoesOn DEF Lending, Closing
<1>5. ASSUME NEW s \in Sessions, NEW step \in Lending \cup Closing, NEW more, NEW last,
             NEW room,
             step \in Lending => {more, last} \subseteq Lending,
             step \in Closing => {more, last} \subseteq Closing,
             MoveIn(s, step, more, last, room)
      PROVE  Statuses'
  <2> DEFINE next == IF todo[s] = {} THEN last ELSE more
  <2>1. pc[s] = step /\ pc' = [pc EXCEPT ![s] = next]
    BY <1>5 DEF MoveIn, At, Goto
  <2>2. \A t \in Sessions \ {s} : cur'[t] = cur[t]
    BY <1>5 DEF MoveIn, Goto
  <2>3. UNCHANGED <<status, line, lines, page, cron>>
    BY <1>5 DEF MoveIn
  <2>4. next \in {more, last}
    OBVIOUS
  <2> HIDE DEF next
  <2> QED BY <1>5, <2>1, <2>2, <2>3, <2>4, WhoIsAtWork, RequestGoesOn DEF Lending, Closing
<1>6. ASSUME NEW s \in Sessions, NEW step \in Lending \cup Closing,
             NEW new \in {"pending", "closed"}, SaveStatus(s, step, new)
      PROVE  Statuses'
  <2>1. /\ pc[s] = step
        /\ status' = new
        /\ page' = [page EXCEPT ![s] = [@ EXCEPT !.status = new]]
        /\ UNCHANGED <<line, lines, cron>>
        /\ pc' = [pc EXCEPT ![s] = "idle"]
    BY <1>6 DEF SaveStatus, At, Finish
  <2>2. status \in Early /\ \A t \in Sessions \ {s} : pc[t] = "idle"
    BY <2>1, WhoIsAtWork DEF Early, Lending, Closing
  <2>3. \A t \in Sessions : pc'[t] = "idle"
    BY <2>1, <2>2 DEF TypeInv, TypeOK
  <2>4. \A t \in Sessions : /\ page'[t].dirty = page[t].dirty
                            /\ page'[t].hdirty = page[t].hdirty
                            /\ page'[t].line = page[t].line
                            /\ page'[t].status \in {page[t].status, new}
    BY <2>1 DEF TypeInv, TypeOK
  <2>5. ~ cron.busy /\ \A t \in Sessions : page[t].dirty = {} /\ page[t].status \in Early
    BY <2>2 DEF Statuses, EarlyIsQuiet
  <2>6. OneMover' /\ EarlyIsQuiet'
    BY <2>1, <2>3, <2>4, <2>5 DEF OneMover, EarlyIsQuiet, Early, Lending, Closing
  <2>7. \A t \in Sessions : PageMine(t)' /\ PageHeader(t)' /\ ToChange(t)'
    BY <2>1, <2>3, <2>4, <2>5 DEF Statuses, PageMine, PageHeader, ToChange
  <2>8. AllReturnedMeansAll'
    BY <2>1 DEF AllReturnedMeansAll
  <2> QED BY <2>6, <2>7, <2>8 DEF Statuses
<1>7. ASSUME Decide PROVE Statuses'
  <2>1. /\ status = "pending" /\ status' \in {"lent", "rejected"}
        /\ UNCHANGED <<line, lines, pc, cur, page, cron>>
    BY <1>7 DEF Decide
  <2>2. \A t \in Sessions : pc[t] = "idle"
    BY <2>1, WhoIsAtWork DEF Statuses, EarlyIsQuiet, Early
  <2>3. OneMover' /\ EarlyIsQuiet' /\ AllReturnedMeansAll'
    BY <2>1, <2>2 DEF Statuses, OneMover, EarlyIsQuiet, AllReturnedMeansAll, Early,
                      Lending, Closing
  <2>4. \A t \in Sessions : PageMine(t)' /\ PageHeader(t)' /\ ToChange(t)'
    BY <2>1 DEF Statuses, PageMine, PageHeader, ToChange
  <2> QED BY <2>3, <2>4 DEF Statuses
<1>8. ASSUME NEW s \in Sessions, Open(s) PROVE Statuses'
  BY <1>8, FreshPage DEF Open, At
<1>9. ASSUME NEW s \in Sessions, NEW l \in Lines, NEW r \in Returns, Confirm(s, l, r)
      PROVE  Statuses'
  <2> DEFINE n == IF r.item = Item[l] /\ Kind[r.item] = "OTHER" THEN "save" ELSE "change"
  <2>1. /\ pc' = [pc EXCEPT ![s] = n]
        /\ cur' = [cur EXCEPT ![s] = l]
        /\ UNCHANGED <<status, line, lines, page, cron>>
        /\ l \in lines \cap MayReturn[s]
        /\ page[s].status \notin NoReturnIn
        /\ page[s].line[l].status # "returned"
    BY <1>9 DEF Confirm, Returning
  <2>2. cur'[s] = l /\ \A t \in Sessions \ {s} : cur'[t] = cur[t]
    BY <2>1 DEF TypeInv, TypeOK
  <2>3. status \notin Early
    BY <2>1 DEF Statuses, EarlyIsQuiet, Early, NoReturnIn
  <2>4. PageMine(s)
    BY DEF Statuses
  <2>5. l \notin page[s].dirty /\ line[l].status # "returned"
    BY <2>1, <2>4 DEF PageMine
  <2>6. n \in {"save", "change"}
    OBVIOUS
  <2> HIDE DEF n
  <2> QED BY <2>1, <2>2, <2>3, <2>5, <2>6, RequestGoesOn DEF Early, Lending, Closing
<1>10. ASSUME NEW s \in Sessions, ChangeStatus(s) PROVE Statuses'
  <2> DEFINE l == cur[s]
             n == IF ret[s].asset = Asset[l] \/ ret[s].asset = NoAsset THEN "out" ELSE "asset"
  <2>1. pc[s] = "change"
    BY <1>10 DEF ChangeStatus, At
  <2>2. status \notin Early
    BY <2>1, WhoIsAtWork
  <2>3. PageMine(s) /\ l \in lines \cap MayReturn[s] /\ line[l].status # "returned"
    BY <2>1 DEF Statuses, ToChange
  <2>4. /\ pc' = [pc EXCEPT ![s] = n]
        /\ UNCHANGED <<cur, status, line, lines, cron>>
    BY <1>10 DEF ChangeStatus, Goto
  <2>5. /\ page'[s].status = IF OthersReturned(l) THEN "allReturned" ELSE "partReturned"
        /\ page'[s].line = [page[s].line EXCEPT
                               ![l] = [status |-> "returned", newitem |-> ret[s].item]]
        /\ page'[s].dirty = page[s].dirty \cup {l}
        /\ page'[s].hdirty
        /\ \A t \in Sessions \ {s} : page'[t] = page[t]
    BY <1>10 DEF ChangeStatus, Marking, TypeInv, TypeOK
  <2>6. /\ page'[s].line[l].status = "returned"
        /\ \A m \in Lines \ {l} : page'[s].line[m] = page[s].line[m]
    BY <2>3, <2>5 DEF TypeInv, TypeOK
  <2>7. n \in {"out", "asset"} /\ pc'[s] = n /\ \A t \in Sessions \ {s} : pc'[t] = pc[t]
    BY <2>4 DEF TypeInv, TypeOK
  <2> HIDE DEF n
  <2>8. OneMover'
    BY <2>2, <2>4, <2>7 DEF Statuses, OneMover, Early, Lending, Closing
  <2>9. EarlyIsQuiet'
    BY <2>2, <2>4 DEF EarlyIsQuiet
  <2>10. PageMine(s)'
    <3>1. MayReturn[s] \subseteq Lines
      BY BorrowAssumption DEF BorrowAssumption
    <3> HIDE DEF l
    <3> QED BY <2>3, <2>4, <2>5, <2>6, <3>1 DEF PageMine
  <2>11. PageHeader(s)'
    <3> HIDE DEF l
    <3> QED BY <2>4, <2>5 DEF PageHeader, OthersReturned, Returned
  <2>12. ToChange(s)'
    BY <2>7 DEF ToChange
  <2>13. \A t \in Sessions \ {s} : PageMine(t)' /\ PageHeader(t)' /\ ToChange(t)'
    BY <2>4, <2>5, <2>7 DEF Statuses, PageMine, PageHeader, ToChange
  <2>14. AllReturnedMeansAll'
    BY <2>4 DEF Statuses, AllReturnedMeansAll
  <2> QED BY <2>8, <2>9, <2>10, <2>11, <2>12, <2>13, <2>14 DEF Statuses
<1>11. ASSUME NEW s \in Sessions, AddAsset(s) \/ ReturnOut(s) \/ ReturnIn(s) PROVE Statuses'
  <2>1. PICK n \in {"out", "in", "save"} :
            /\ pc' = [pc EXCEPT ![s] = n]
            /\ UNCHANGED <<cur, status, line, lines, page, cron>>
    BY <1>11 DEF AddAsset, ReturnOut, ReturnIn, Goto
  <2>2. pc[s] \in {"asset", "out", "in"}
    BY <1>11 DEF AddAsset, ReturnOut, ReturnIn, At
  <2>3. status \notin Early
    BY <2>2, WhoIsAtWork
  <2> QED BY <2>1, <2>3, RequestGoesOn DEF Early, Lending, Closing
<1>12. ASSUME NEW s \in Sessions, SavePage(s) PROVE Statuses'
  <2>1. pc[s] = "save" /\ Saved(s) /\ lines' = lines /\ cron' = cron
    BY <1>12 DEF SavePage, At
  <2>2. status \notin Early
    BY <2>1, WhoIsAtWork
  <2>3. \A t \in Sessions : pc'[t] = IF t = s THEN "idle" ELSE pc[t]
    BY <1>12 DEF SavePage, Finish, TypeInv, TypeOK
  <2>4. \A t \in Sessions \ {s} : cur'[t] = cur[t] /\ page'[t] = page[t]
    BY <1>12 DEF SavePage, Finish, TypeInv, TypeOK
  <2>5. /\ page'[s].status = page[s].status /\ page'[s].line = page[s].line
        /\ page'[s].dirty = {} /\ ~ page'[s].hdirty
    BY <1>12 DEF SavePage, TypeInv, TypeOK
  <2> QED BY <2>1, <2>2, <2>3, <2>4, <2>5, SaveKeepsStatuses DEF Lending, Closing
<1>13. ASSUME NEW s \in Sessions, Renew(s) PROVE Statuses'
  <2>1. pc[s] = "idle" /\ Saved(s) /\ lines' = lines /\ cron' = cron /\ pc' = pc /\ cur' = cur
    BY <1>13 DEF Renew, At
  <2>2. status \in Early => page[s].dirty = {}
    BY WhoIsAtWork
  <2>3. /\ \A t \in Sessions \ {s} : page'[t] = page[t]
        /\ page'[s].status = page[s].status /\ page'[s].line = page[s].line
        /\ page'[s].dirty = {} /\ ~ page'[s].hdirty
    BY <1>13 DEF Renew, TypeInv, TypeOK
  <2> QED BY <2>1, <2>2, <2>3, SaveKeepsStatuses DEF Lending, Closing
<1>14. ASSUME NEW s \in Sessions, PressSave(s) PROVE Statuses'
  <2>1. /\ page[s].dirty # {}
        /\ pc' = [pc EXCEPT ![s] = "save"]
        /\ UNCHANGED <<cur, status, line, lines, page, cron>>
    BY <1>14 DEF PressSave, Goto
  <2>2. status \notin Early
    BY <2>1, WhoIsAtWork
  <2> QED BY <2>1, <2>2, RequestGoesOn DEF Early, Lending, Closing
<1>15. ASSUME CronRead \/ CronSave \/ Later PROVE Statuses'
  <2>1. /\ status' \in {status, "overdue"}
        /\ status \in Early => status' = status
        /\ status' \in Early => (cron'.busy => cron.busy)
        /\ UNCHANGED <<line, lines, pc, cur, page>>
    <3>1. CASE CronRead
      BY <3>1 DEF CronRead, Early
    <3>2. CASE CronSave
      <4>1. status \notin Early
        BY <3>2 DEF CronSave, Statuses, EarlyIsQuiet
      <4> QED BY <3>2, <4>1 DEF CronSave, NoCron
    <3>3. CASE Later
      BY <3>3 DEF Later
    <3> QED BY <1>15, <3>1, <3>2, <3>3
  <2>2. status' \in Early => status' = status
    BY <2>1 DEF Early
  <2>3. OneMover' /\ AllReturnedMeansAll'
    BY <2>1, <2>2 DEF Statuses, OneMover, AllReturnedMeansAll, Early, Lending, Closing
  <2>4. EarlyIsQuiet'
    BY <2>1, <2>2 DEF Statuses, EarlyIsQuiet
  <2>5. \A t \in Sessions : PageMine(t)' /\ PageHeader(t)' /\ ToChange(t)'
    BY <2>1 DEF Statuses, PageMine, PageHeader, ToChange
  <2> QED BY <2>3, <2>4, <2>5 DEF Statuses
<1>16. ASSUME NEW s \in Sessions, Throws(s) PROVE Statuses'
  <2>1. /\ pc' = [pc EXCEPT ![s] = "idle"]
        /\ UNCHANGED <<status, line, lines, page, cron>>
        /\ \A t \in Sessions \ {s} : cur'[t] = cur[t]
    BY <1>16 DEF Throws, Finish, TypeInv, TypeOK
  <2> QED BY <2>1, RequestGoesOn DEF Lending, Closing
<1>17. ASSUME NEW s \in Sessions, Crash(s) PROVE Statuses'
  <2>1. /\ pc'[s] = "idle"
        /\ \A t \in Sessions \ {s} : pc'[t] = pc[t] /\ cur'[t] = cur[t]
    BY <1>17 DEF Crash, Finish, TypeInv, TypeOK
  <2> QED BY <1>17, <2>1, FreshPage DEF Crash
<1>18. ASSUME NEW s \in Sessions, ChangeFails(s) PROVE Statuses'
  <2> DEFINE l == cur[s]
  <2>1. pc[s] = "change"
    BY <1>18 DEF ChangeFails, At
  <2>2. status \notin Early
    BY <2>1, WhoIsAtWork
  <2>3. PageMine(s) /\ l \in lines \cap MayReturn[s] /\ line[l].status # "returned"
    BY <2>1 DEF Statuses, ToChange
  <2>4. /\ \A t \in Sessions : pc'[t] = IF t = s THEN "idle" ELSE pc[t]
        /\ \A t \in Sessions \ {s} : cur'[t] = cur[t]
        /\ UNCHANGED <<status, line, lines, cron>>
    BY <1>18 DEF ChangeFails, Finish, TypeInv, TypeOK
  <2>5. /\ page'[s].status = page[s].status
        /\ page'[s].line = [page[s].line EXCEPT
                               ![l] = [status |-> "returned", newitem |-> ret[s].item]]
        /\ page'[s].dirty = page[s].dirty \cup {l}
        /\ page'[s].hdirty = page[s].hdirty
        /\ \A t \in Sessions \ {s} : page'[t] = page[t]
    BY <1>18 DEF ChangeFails, Marking, TypeInv, TypeOK
  <2>6. /\ page'[s].line[l].status = "returned"
        /\ \A m \in Lines \ {l} : page'[s].line[m] = page[s].line[m]
    BY <2>3, <2>5 DEF TypeInv, TypeOK
  <2>7. OneMover'
    BY <2>2, <2>4 DEF Statuses, OneMover, Early, Lending, Closing
  <2>8. EarlyIsQuiet'
    BY <2>2, <2>4 DEF EarlyIsQuiet
  <2>9. PageMine(s)'
    <3>1. MayReturn[s] \subseteq Lines
      BY BorrowAssumption DEF BorrowAssumption
    <3> HIDE DEF l
    <3> QED BY <2>3, <2>4, <2>5, <2>6, <3>1 DEF PageMine
  <2>10. PageHeader(s)'
    <3>1. PageHeader(s)
      BY DEF Statuses
    <3> HIDE DEF l
    <3> QED BY <2>4, <2>5, <3>1 DEF PageHeader
  <2>11. ToChange(s)'
    BY <2>4 DEF ToChange
  <2>12. \A t \in Sessions \ {s} : PageMine(t)' /\ PageHeader(t)' /\ ToChange(t)'
    BY <2>4, <2>5 DEF Statuses, PageMine, PageHeader, ToChange
  <2>13. AllReturnedMeansAll'
    BY <2>4 DEF Statuses, AllReturnedMeansAll
  <2> QED BY <2>7, <2>8, <2>9, <2>10, <2>11, <2>12, <2>13 DEF Statuses
<1>19. ASSUME NEW s \in Sessions, Query(s) PROVE Statuses'
  BY <1>19 DEF Query, Statuses, OneMover, EarlyIsQuiet, PageMine, PageHeader, ToChange,
               AllReturnedMeansAll
<1>20. CASE UNCHANGED vars
  BY <1>20 DEF vars, Statuses, OneMover, EarlyIsQuiet, PageMine, PageHeader, ToChange,
               AllReturnedMeansAll
<1>21. ASSUME NEW s \in Sessions, Move(s) PROVE Statuses'
  BY <1>4, <1>5, <1>6, <1>21 DEF Move, LendOut, LendIn, LendSave, CloseOut, CloseIn, CloseSave,
                                 Lending, Closing
<1>22. ASSUME NEW s \in Sessions, Return(s) PROVE Statuses'
  BY <1>10, <1>11, <1>12, <1>22, <1>18 DEF Return
<1>23. ASSUME NEW s \in Sessions, User(s) PROVE Statuses'
  BY <1>1, <1>2, <1>3, <1>8, <1>9, <1>13, <1>14, <1>23 DEF User
<1> QED BY <1>7, <1>15, <1>16, <1>17, <1>20, <1>21, <1>22, <1>23, <1>19 DEF Next

\* The statuses are consistent in every reachable state.
LEMMA StatusesHold ==
    ASSUME OneWindow, OneRoute
    PROVE  Spec => [](TypeInv /\ Statuses)
<1>1. Init => TypeInv /\ Statuses
  BY TypeInit, StatusesInit
<1>2. TypeInv /\ Statuses /\ [Next]_vars => (TypeInv /\ Statuses)'
  BY TypeNext, StatusesNext
<1> QED BY <1>1, <1>2, PTL DEF Spec

\* When each line is returned from one window only, and the slip is lent and
\* closed once, it counts as all returned only when each of its lines is,
\* however many windows there are, in whatever order they save, and whichever
\* requests die or fail.
THEOREM AllReturnedIsAll ==
    ASSUME OneWindow, OneRoute
    PROVE  Spec => []AllReturnedMeansAll
<1>1. Spec => [](TypeInv /\ Statuses)
  BY StatusesHold
<1>2. TypeInv /\ Statuses => AllReturnedMeansAll
  BY DEF Statuses
<1> QED BY <1>1, <1>2, PTL

\* What no step may do to a slip that is settled.
Settled ==
    /\ \A l \in lines : line[l].status = "returned" => line'[l] = line[l]
    /\ status = "allReturned" => status' \in {"allReturned", "overdue"}
    /\ status = "closed" => UNCHANGED <<status, line, goods>>

LEMMA SettledStep ==
    ASSUME TypeInv, Statuses, [Next]_vars
    PROVE  Settled
<1> USE DEF slipvars, goods, reqvars
<1>1. ASSUME UNCHANGED <<status, line>>, goods' = goods PROVE Settled
  BY <1>1 DEF Settled
<1>2. ASSUME NEW s \in Sessions, pc[s] # "idle", UNCHANGED <<status, line>> PROVE Settled
  BY <1>2 DEF Settled, Statuses, EarlyIsQuiet, OneMover, Early, Lending, Closing
<1>3. ASSUME NEW s \in Sessions, Saved(s), lines' = lines, goods' = goods PROVE Settled
  <2>1. /\ \A l \in lines : line[l].status = "returned" => line'[l] = line[l]
        /\ status = "allReturned" => status' = "allReturned"
        /\ ~ page[s].hdirty => status' = status
        /\ \A l \in Lines \ page[s].dirty : line'[l] = line[l]
    BY <1>3, SavedKeeps
  <2>2. status = "closed" => page[s].dirty = {} /\ ~ page[s].hdirty
    BY DEF Statuses, EarlyIsQuiet, Early, PageMine
  <2>3. line' = [l \in Lines |-> IF l \in page[s].dirty THEN page[s].line[l] ELSE line[l]]
    BY <1>3 DEF Saved
  <2>4. page[s].dirty = {} => line' = line
    BY <2>3 DEF TypeInv, TypeOK
  <2> QED BY <1>3, <2>1, <2>2, <2>4 DEF Settled
<1>4. ASSUME NEW s \in Sessions, NEW step, NEW next, NEW room, step # "idle",
             MoveOut(s, step, next, room)
      PROVE  Settled
  BY <1>2, <1>4 DEF MoveOut, At
<1>5. ASSUME NEW s \in Sessions, NEW step, NEW more, NEW last, NEW room, step # "idle",
             MoveIn(s, step, more, last, room)
      PROVE  Settled
  BY <1>2, <1>5 DEF MoveIn, At
<1>6. ASSUME NEW s \in Sessions, NEW step \in Lending \cup Closing, NEW new,
             SaveStatus(s, step, new)
      PROVE  Settled
  <2>1. status \in {"new", "rejected"}
    BY <1>6, WhoIsAtWork DEF SaveStatus, At
  <2> QED BY <1>6, <2>1 DEF SaveStatus, Settled
<1>7. ASSUME NEW s \in Sessions, Move(s) PROVE Settled
  BY <1>4, <1>5, <1>6, <1>7 DEF Move, LendOut, LendIn, LendSave, CloseOut, CloseIn, CloseSave,
                                Lending, Closing
<1>8. ASSUME NEW s \in Sessions, Return(s) PROVE Settled
  <2>1. CASE ChangeStatus(s) \/ ChangeFails(s)
    BY <1>1, <2>1 DEF ChangeStatus, ChangeFails
  <2>2. CASE AddAsset(s) \/ ReturnOut(s) \/ ReturnIn(s)
    BY <1>2, <2>2 DEF AddAsset, ReturnOut, ReturnIn, At
  <2>3. CASE SavePage(s)
    BY <1>3, <2>3 DEF SavePage
  <2> QED BY <1>8, <2>1, <2>2, <2>3 DEF Return
<1>9. ASSUME NEW s \in Sessions, User(s) PROVE Settled
  <2>1. CASE Renew(s)
    BY <1>3, <2>1 DEF Renew
  <2>2. CASE EditLines(s) \/ Submit(s) \/ Close(s) \/ Open(s) \/ PressSave(s)
    BY <1>1, <2>2 DEF EditLines, Submit, Close, Open, PressSave
  <2>3. CASE \E l \in Lines : \E r \in Returns : Confirm(s, l, r)
    BY <1>1, <2>3 DEF Confirm
  <2> QED BY <1>9, <2>1, <2>2, <2>3 DEF User
<1>10. ASSUME NEW s \in Sessions, Throws(s) \/ Crash(s) PROVE Settled
  BY <1>1, <1>10 DEF Throws, Crash
<1>11. ASSUME Decide \/ Later \/ CronRead PROVE Settled
  BY <1>11 DEF Decide, Later, CronRead, Settled
<1>12. ASSUME CronSave PROVE Settled
  <2>1. status # "closed"
    BY <1>12 DEF CronSave, Statuses, EarlyIsQuiet, Early
  <2>2. line' = line /\ status' \in {status, "overdue"}
    BY <1>12 DEF CronSave
  <2> QED BY <2>1, <2>2 DEF Settled
<1>13. CASE UNCHANGED vars
  BY <1>1, <1>13 DEF vars
<1>14. ASSUME NEW s \in Sessions, Query(s) PROVE Settled
  BY <1>1, <1>14 DEF Query
<1> QED BY <1>7, <1>8, <1>9, <1>10, <1>11, <1>12, <1>13, <1>14 DEF Next

\* When each line is returned from one window only, and the slip is lent and
\* closed once, a returned line stays returned, a slip that is all returned
\* leaves that status only by the job, and nothing of a closed slip changes.
THEOREM SettledStays ==
    ASSUME OneWindow, OneRoute
    PROVE  Spec => SettledIsFinal
<1>1. Spec => [](TypeInv /\ Statuses)
  BY StatusesHold
<1>2. TypeInv /\ Statuses /\ [Next]_vars => [Settled]_vars
  BY SettledStep
<1>3. Spec => [][Settled]_vars
  BY <1>1, <1>2, PTL DEF Spec
<1> QED BY <1>3 DEF SettledIsFinal, Settled
=============================================================================
