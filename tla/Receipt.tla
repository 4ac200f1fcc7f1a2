------------------------------ MODULE Receipt ------------------------------
(***************************************************************************)
(* Receiving the lines of a packing slip (ZXD): the dialog                 *)
(* ZxTransferlineStatusDataBean and everything it calls.                   *)
(*                                                                         *)
(* The slip is on its way (status 在途, "inTransit").  A session has its   *)
(* own copy of the slip and its lines, the page; it confirms a quantity of *)
(* a line, and the server then performs a fixed sequence of steps.  Every  *)
(* step that writes with the system user commits on its own; what the      *)
(* steps set on the page's line and header reaches the database only with  *)
(* the final AppBean.SAVE.  Between any two steps another session may run, *)
(* and the request may die: its page is lost, what it committed stays.     *)
(*                                                                         *)
(* Statuses: notReceived 未接收, partReceived 部分接收, received 已接收.   *)
(***************************************************************************)
EXTENDS Storeroom, InventoryQty, FiniteSets

CONSTANTS
    Lines,      \* the lines of the slip
    NoLine,     \* no line: the session is not receiving one
    Sessions,   \* browser sessions of the person RECEIVEBY
    MayOpen,    \* MayOpen[s]: the lines session s tries to receive
    Rooms, Items, Assets,
    Data,       \* Data[l]: what a line says, fixed once the slip is issued
    Slip,       \* the slip's type, move, sx and the kind of its request (mr)
    RoomType,   \* RoomType[r]: the type of a storeroom
    InitStock,  \* the stock tables when the slip has been issued
    Held,       \* Held[k]: reserved, faulty, pending and in test, per row
    MrRows,     \* the request's lines
    Required,   \* Required[r]: the quantity a request line asks for
    Failures    \* which faults may happen (see Faults)

Faults == {"crash",     \* the request dies between two commits
           "swallow",   \* an MroException inside out_storoom / in_storoom or the ledger
           "throws",    \* an MroException after the movement, passed on
           "query",     \* an MroException of the query in SetReceived, passed on
           "refuse",    \* the ERP answers "E"
           "erplost"}   \* the call to the ERP throws, posted or not

Keys    == Rooms \X Items
Routes  == {"local", "erp", "other"}
Statuses == {"notReceived", "partReceived", "received"}

LineData ==
    [item : Items, kind : Kinds, from : Rooms, to : Rooms, orderqty : Nat \ {0},
     route : Routes, sx : SxTypes, binned : BOOLEAN, lotted : BOOLEAN,
     asset : Assets, iskhitem : BOOLEAN, mrrow : MrRows]

Stock ==
    [inventory  : [Keys -> [exists : BOOLEAN, curbal : Int, locqty : Int]],
     locbinitem : [Keys -> [exists : BOOLEAN, qty : Int]],
     invblance  : [Keys -> [exists : BOOLEAN, qty : Int]],
     asset      : [Assets -> [exists : BOOLEAN, location : Rooms \cup {Nowhere},
                              status : AssetStatus]]]

\* What the constants are.  A line leaves a storeroom that has a row of its
\* item, and a serialised line is one existing asset.
ASSUME ReceiptAssumption ==
    /\ NoLine \notin Lines /\ IsFiniteSet(Lines)
    /\ MayOpen \in [Sessions -> SUBSET Lines]
    /\ Data \in [Lines -> LineData]
    /\ Slip \in [type : SlipTypes, move : Moves, sx : SxTypes,
                 mrtype : {"none", "sporadic", "project"}]
    /\ RoomType \in [Rooms -> RoomTypes]
    /\ InitStock \in Stock
    /\ Held \in [Keys -> Nat]
    /\ Required \in [MrRows -> Nat]
    /\ Failures \subseteq Faults
    /\ \A l \in Lines :
         /\ Data[l].from # Data[l].to
         /\ InitStock.inventory[<<Data[l].from, Data[l].item>>].exists
         /\ Data[l].kind = "SQN" => /\ Data[l].orderqty = 1
                                    /\ InitStock.asset[Data[l].asset].exists

VARIABLES
    transferline,   \* committed status and YJSQTY of each line
    transfer,       \* committed status of the slip
    erpiface,       \* the lines with a row in ERPIFACE
    erp,            \* what the ERP posted for each line (external)
    stock,          \* the stock tables
    moved,          \* history: what each line changed in the balances
    invtrans,       \* the transaction records of each line
    trade,          \* jsqty of the line's TRANSFERLINETRADE row, 0 if none
    endpayqty,      \* MRLINE.ENDPAYQTY, per item
    tkmpr,          \* return requests created for each line
    mrrow,          \* received quantity and status of each request line
    mr,             \* status of the request
    transit,        \* FCZTQTY, JSZTQTY, KYQTY of each inventory row
    outdated,       \* history: the last recomputation wrote what was no longer right
    pc, cur, qty,   \* what each session's request is doing, for which line
    seen,           \* the stock as the request's last query read it
    sums,           \* the derived quantities as a recomputation found them
    page            \* each session's copy of the slip

slipvars  == <<transferline, transfer>>
bookvars  == <<stock, moved, invtrans>>
othervars == <<trade, endpayqty, tkmpr>>
sumvars   == <<mrrow, mr, transit, outdated>>
reqvars   == <<pc, cur, qty, seen, sums>>
vars == <<slipvars, erpiface, erp, bookvars, othervars, sumvars, reqvars, page>>

Steps == {"idle", "iface", "erp", "status", "readOut", "out", "outLedger",
          "readIn", "in", "inLedger", "endpay", "trade", "tk",
          "save", "mr", "mrclose", "inv", "recalc"}

Both == [out : Nat, in : Nat]

\* Every table and every session holds values of its kind (mrrow, transit and
\* sums are compared with what they sum, see TransitIsFresh and MCReceipt).
TypeOK ==
    /\ transferline \in [Lines -> [status : Statuses, yjsqty : Nat]]
    /\ transfer \in {"inTransit", "received"}
    /\ erpiface \subseteq Lines
    /\ erp \in [Lines -> Nat]
    /\ stock \in Stock
    /\ moved \in [Lines -> Both]
    /\ invtrans \in [Lines -> Both]
    /\ trade \in [Lines -> Nat]
    /\ endpayqty \in [Items -> Nat]
    /\ tkmpr \in [Lines -> Nat]
    /\ mr \in {"open", "closed"}
    /\ pc \in [Sessions -> Steps]
    /\ cur \in [Sessions -> Lines \cup {NoLine}]
    /\ qty \in [Sessions -> Nat]
    /\ seen \in [Sessions -> Stock]
    /\ page \in [Sessions -> [line : [Lines -> [status : Statuses, yjsqty : Nat]],
                              header : {"inTransit", "received"},
                              dirty : SUBSET Lines, hdirty : BOOLEAN]]

----------------------------------------------------------------------------

Zero == [out |-> 0, in |-> 0]
\* Mutant: what leaves is booked with a negative sign.
AddOut_negative(book, l, q) == [book EXCEPT ![l] = [out |-> book[l].out - q, in |-> book[l].in]]
AddOut(book, l, q) == [book EXCEPT ![l] = [out |-> book[l].out + q, in |-> book[l].in]]
AddIn(book, l, q)  == [book EXCEPT ![l] = [out |-> book[l].out, in |-> book[l].in + q]]

\* The lines that still count as on their way.
Waiting == IF transfer = "inTransit" /\ Slip.type \in {"SX", "ZXD"}
           THEN {l \in Lines : transferline[l].status = "notReceived"} ELSE {}

\* No recomputation is under way.
NoSums == [k \in {} |-> 0]

\* The page after a reload: what the database holds.
Fresh == [line |-> transferline, header |-> transfer, dirty |-> {}, hdirty |-> FALSE]

Init ==
    /\ transferline = [l \in Lines |-> [status |-> "notReceived", yjsqty |-> 0]]
    /\ transfer = "inTransit"
    /\ erpiface = {}
    /\ erp = [l \in Lines |-> 0]
    /\ stock = InitStock
    /\ moved = [l \in Lines |-> Zero]
    /\ invtrans = [l \in Lines |-> Zero]
    /\ trade = [l \in Lines |-> 0]
    /\ endpayqty = [i \in Items |-> 0]
    /\ tkmpr = [l \in Lines |-> 0]
    /\ mrrow = [r \in MrRows |-> [receiveqty |-> 0, status |-> "open"]]
    /\ mr = "open"
    /\ transit = [k \in Keys |-> IF InitStock.inventory[k].exists
                    THEN Derived(Data, Waiting, k, InitStock.inventory[k], Held[k])
                    ELSE [fcztqty |-> 0, jsztqty |-> 0, kyqty |-> 0]]
    /\ outdated = FALSE
    /\ pc = [s \in Sessions |-> "idle"]
    /\ cur = [s \in Sessions |-> NoLine]
    /\ qty = [s \in Sessions |-> 0]
    /\ seen = [s \in Sessions |-> InitStock]
    /\ sums = [s \in Sessions |-> NoSums]
    /\ page = [s \in Sessions |-> Fresh]

----------------------------------------------------------------------------
(* The control of a request.                                               *)

\* The request goes on with step n.
Goto(s, n) == pc' = [pc EXCEPT ![s] = n] /\ UNCHANGED <<cur, qty, seen, sums>>

\* The request ends, by its return or by an exception it lets through.
Finish(s) ==
    /\ pc' = [pc EXCEPT ![s] = "idle"]
    /\ cur' = [cur EXCEPT ![s] = NoLine]
    /\ qty' = [qty EXCEPT ![s] = 0]
    /\ seen' = [seen EXCEPT ![s] = InitStock]
    /\ sums' = [sums EXCEPT ![s] = NoSums]

At(s, step) == pc[s] = step
Line(s) == Data[cur[s]]

\* What is left to receive, as the dialog computes it from the page.
Wjsqty(s, l) == Data[l].orderqty - page[s].line[l].yjsqty

----------------------------------------------------------------------------
(* The user.                                                               *)

\* The page is opened or refreshed; unsaved changes are dropped.
Open(s) ==
    /\ At(s, "idle")
    /\ page' = [page EXCEPT ![s] = Fresh]
    /\ UNCHANGED <<slipvars, erpiface, erp, bookvars, othervars, sumvars, reqvars>>

\* The Receive button opens the dialog and its OK runs execute(): the guards
\* of status() and of execute().  The page's copy of slip and line is tested,
\* and the database is asked whether the line has a row in ERPIFACE.
Confirm(s, l, q) ==
    /\ At(s, "idle")
    /\ l \in MayOpen[s]
    /\ page[s].header = "inTransit"
    /\ page[s].line[l].status \in {"notReceived", "partReceived"}
    /\ q <= Wjsqty(s, l)
    /\ q # 0
    /\ l \notin erpiface
    /\ pc' = [pc EXCEPT ![s] = "iface"]
    /\ cur' = [cur EXCEPT ![s] = l]
    /\ qty' = [qty EXCEPT ![s] = q]
    /\ UNCHANGED <<slipvars, erpiface, erp, bookvars, othervars, sumvars, seen, sums, page>>

\* The page's own Save, which also writes what a failed receipt left on it.
SavePage(s) ==
    /\ At(s, "idle")
    /\ Goto(s, "save")
    /\ UNCHANGED <<slipvars, erpiface, erp, bookvars, othervars, sumvars, page>>

----------------------------------------------------------------------------
(* TOERP, up to the movement.                                              *)

\* Mutant: only the lines that go to the ERP get a row.
InsertIface_onlyErp(s) ==
    /\ At(s, "iface")
    /\ erpiface' = IF Line(s).route = "erp" THEN erpiface \cup {cur[s]} ELSE erpiface
    /\ Goto(s, IF Line(s).route = "erp" THEN "erp" ELSE "status")
    /\ UNCHANGED <<slipvars, erp, bookvars, othervars, sumvars, page>>

\* Mutant: the receipt does not wait for the ERP.
InsertIface_noWait(s) ==
    /\ At(s, "iface")
    /\ erpiface' = erpiface \cup {cur[s]}
    /\ Goto(s, "status")
    /\ UNCHANGED <<slipvars, erp, bookvars, othervars, sumvars, page>>

\* ERPIFACE is asked once more; a row found now does not stop the receipt.
InsertIface(s) ==
    /\ At(s, "iface")
    /\ erpiface' = erpiface \cup {cur[s]}
    /\ Goto(s, IF Line(s).route = "erp" THEN "erp" ELSE "status")
    /\ UNCHANGED <<slipvars, erp, bookvars, othervars, sumvars, page>>

\* MroToErp: the ERP posts the movement and answers "S".
ErpPosts(s) ==
    /\ At(s, "erp")
    /\ erp' = [erp EXCEPT ![cur[s]] = @ + qty[s]]
    /\ Goto(s, "status")
    /\ UNCHANGED <<slipvars, erpiface, bookvars, othervars, sumvars, page>>

\* The ERP answers "E": TOERP throws.
ErpRefuses(s) ==
    /\ "refuse" \in Failures
    /\ At(s, "erp")
    /\ Finish(s)
    /\ UNCHANGED <<slipvars, erpiface, erp, bookvars, othervars, sumvars, page>>

\* The call throws after or before the ERP posted: MroToErp returns null and
\* TOERP ends in a NullPointerException.
ErpIsLost(s) ==
    /\ "erplost" \in Failures
    /\ At(s, "erp")
    /\ \E posted \in {0, qty[s]} : erp' = [erp EXCEPT ![cur[s]] = @ + posted]
    /\ Finish(s)
    /\ UNCHANGED <<slipvars, erpiface, bookvars, othervars, sumvars, page>>

\* Mutant: the packed quantity is written instead of the received one.
LineAfter_ordered(s, l) == [status |-> "received", yjsqty |-> Data[l].orderqty]

\* The line's new status and YJSQTY.
LineAfter(s, l) ==
    [status |-> IF qty[s] = Wjsqty(s, l) THEN "received" ELSE "partReceived",
     yjsqty |-> page[s].line[l].yjsqty + qty[s]]

\* Mutant: a line received in part counts as received.
OthersReceived_part(l) == \A m \in Lines \ {l} : transferline[m].status # "notReceived"

\* The database knows no other line of the slip that is not received.
OthersReceived(l) == \A m \in Lines \ {l} : transferline[m].status = "received"

\* YJSQTY and status are set on the page's line; with the last line the slip
\* is set to received, on the page too.
SetReceived(s) ==
    LET l    == cur[s]
        old  == page[s]
        last == qty[s] = Wjsqty(s, l) /\ OthersReceived(l)
    IN  /\ At(s, "status")
        /\ page' = [page EXCEPT ![s] =
             [line   |-> [old.line EXCEPT ![l] = LineAfter(s, l)],
              header |-> IF last THEN "received" ELSE old.header,
              dirty  |-> old.dirty \cup {l},
              hdirty |-> old.hdirty \/ last]]
        /\ Goto(s, "readOut")
        /\ UNCHANGED <<slipvars, erpiface, erp, bookvars, othervars, sumvars>>

----------------------------------------------------------------------------
(* The movement: out_storoom, out_invtrans, in_storoom, in_invtrans.       *)

\* The query of out_storoom / in_storoom.
Read(s, step, next) ==
    /\ At(s, step)
    /\ seen' = [seen EXCEPT ![s] = stock]
    /\ pc' = [pc EXCEPT ![s] = next]
    /\ UNCHANGED <<slipvars, erpiface, erp, bookvars, othervars, sumvars, cur, qty, sums, page>>

\* Mutant: the issuing storeroom is read and never written.
ReadOut_only(s) == Read(s, "readOut", "outLedger")

ReadOut(s) == Read(s, "readOut", "out")
ReadIn(s)  == Read(s, "readIn", "in")

\* How many saves of a movement succeed.  A save may fail when the row has
\* changed since it was read, and when the database fails; the exception
\* is swallowed.
Saves(s, key) ==
    IF "swallow" \in Failures \/ stock.inventory[key] # seen[s].inventory[key]
    THEN 0 .. AllSaves ELSE {AllSaves}

OutStock(s) ==
    /\ At(s, "out")
    /\ \E upto \in Saves(s, <<Line(s).from, Line(s).item>>) :
         /\ stock' = OutStoroom(stock, seen[s], Slip, Line(s), qty[s], upto)
         /\ moved' = IF Takes(seen[s], Line(s), upto)
                     THEN AddOut(moved, cur[s], qty[s]) ELSE moved
    /\ Goto(s, "outLedger")
    /\ UNCHANGED <<slipvars, erpiface, erp, invtrans, othervars, sumvars, page>>

InStock(s) ==
    /\ At(s, "in")
    /\ \E upto \in Saves(s, <<Line(s).to, Line(s).item>>) :
         /\ stock' = InStoroom(stock, seen[s], Slip, Line(s), qty[s],
                               RoomType[Line(s).to], upto)
         /\ moved' = IF Adds(seen[s], Line(s), upto)
                     THEN AddIn(moved, cur[s], qty[s]) ELSE moved
    /\ Goto(s, "inLedger")
    /\ UNCHANGED <<slipvars, erpiface, erp, invtrans, othervars, sumvars, page>>

\* One INVTRANS record; its exception is swallowed too.
Recorded(s) == {qty[s]} \cup (IF "swallow" \in Failures THEN {0} ELSE {})

OutLedger(s) ==
    /\ At(s, "outLedger")
    /\ \E q \in Recorded(s) : invtrans' = AddOut(invtrans, cur[s], q)
    /\ Goto(s, "readIn")
    /\ UNCHANGED <<slipvars, erpiface, erp, stock, moved, othervars, sumvars, page>>

InLedger(s) ==
    /\ At(s, "inLedger")
    /\ \E q \in Recorded(s) : invtrans' = AddIn(invtrans, cur[s], q)
    /\ Goto(s, "endpay")
    /\ UNCHANGED <<slipvars, erpiface, erp, stock, moved, othervars, sumvars, page>>

----------------------------------------------------------------------------
(* What follows the movement.                                              *)

\* ADDENDPAYQTY: the whole ORDERQTY of the line is added to the request line
\* of its item, for a slip towards a site that belongs to a request.
EndPay(s) ==
    /\ At(s, "endpay")
    /\ endpayqty' =
         IF Slip.move \in {"centreToSite", "siteToSite"} /\ Slip.mrtype # "none"
         THEN [endpayqty EXCEPT ![Line(s).item] = @ + Line(s).orderqty]
         ELSE endpayqty
    /\ Goto(s, "trade")
    /\ UNCHANGED <<slipvars, erpiface, erp, bookvars, trade, tkmpr, sumvars, page>>

\* Mutant: the receipt returns without the final save.
AddTrade_unsaved(s) ==
    /\ At(s, "trade")
    /\ trade' = [trade EXCEPT ![cur[s]] = IF @ = 0 THEN qty[s] ELSE @]
    /\ Goto(s, "inv")
    /\ UNCHANGED <<slipvars, erpiface, erp, bookvars, endpayqty, tkmpr, sumvars, page>>

\* add_trade: one TRANSFERLINETRADE row per line, never changed; its exception
\* is swallowed like the ledger's.
AddTrade(s) ==
    /\ At(s, "trade")
    /\ \E q \in Recorded(s) : trade' = [trade EXCEPT ![cur[s]] = IF @ = 0 THEN q ELSE @]
    /\ Goto(s, IF Line(s).route = "other" /\ Line(s).iskhitem THEN "tk" ELSE "save")
    /\ UNCHANGED <<slipvars, erpiface, erp, bookvars, endpayqty, tkmpr, sumvars, page>>

\* CREATETKITEMREQ: a draft return request for the customer's repaired part.
CreateTk(s) ==
    /\ At(s, "tk")
    /\ tkmpr' = [tkmpr EXCEPT ![cur[s]] = @ + 1]
    /\ Goto(s, "save")
    /\ UNCHANGED <<slipvars, erpiface, erp, bookvars, trade, endpayqty, sumvars, page>>

----------------------------------------------------------------------------
(* ZxTransferAppBean.SAVE.                                                 *)

\* Mutant: every line of the page is written, modified or not.
Save_page(s) ==
    /\ At(s, "save")
    /\ transferline' = page[s].line
    /\ transfer' = IF page[s].hdirty THEN page[s].header ELSE transfer
    /\ page' = [page EXCEPT ![s] = [line   |-> page[s].line,
                                    header |-> page[s].header,
                                    dirty  |-> {}, hdirty |-> FALSE]]
    /\ Goto(s, IF Slip.mrtype = "none" THEN "inv" ELSE "mr")
    /\ UNCHANGED <<erpiface, erp, bookvars, othervars, sumvars>>

\* super.SAVE: the page's modified lines and header, in one transaction.
Save(s) ==
    /\ At(s, "save")
    /\ transferline' = [l \in Lines |->
         IF l \in page[s].dirty THEN page[s].line[l] ELSE transferline[l]]
    /\ transfer' = IF page[s].hdirty THEN page[s].header ELSE transfer
    /\ page' = [page EXCEPT ![s] = [line   |-> page[s].line,
                                    header |-> page[s].header,
                                    dirty  |-> {}, hdirty |-> FALSE]]
    /\ Goto(s, IF Slip.mrtype = "none" THEN "inv" ELSE "mr")
    /\ UNCHANGED <<erpiface, erp, bookvars, othervars, sumvars>>

ReceivedQty   == [l \in Lines |-> transferline[l].yjsqty]
ReceivedOf(r) == {l \in Lines : Data[l].mrrow = r /\ transferline[l].status = "received"}
ReceiveQty(r) == SumFunctionOnSet(ReceivedQty, ReceivedOf(r))

\* The request's lines: received quantity and status from the lines received.
RollUpMr(s) ==
    /\ At(s, "mr")
    /\ mrrow' = [r \in MrRows |->
         IF ReceivedOf(r) = {} THEN [mrrow[r] EXCEPT !.receiveqty = 0]
         ELSE [receiveqty |-> ReceiveQty(r),
               status |-> IF ReceiveQty(r) = Required[r] THEN "received"
                          ELSE "partReceived"]]
    /\ Goto(s, "mrclose")
    /\ UNCHANGED <<slipvars, erpiface, erp, bookvars, othervars, mr, transit, outdated, page>>

\* Mutant: one received line of the request closes it.
CloseMr_any(s) ==
    /\ At(s, "mrclose")
    /\ mr' = IF \E r \in MrRows : mrrow[r].status = "received" THEN "closed" ELSE mr
    /\ Goto(s, "inv")
    /\ UNCHANGED <<slipvars, erpiface, erp, bookvars, othervars, mrrow, transit, outdated, page>>

\* The request is closed when all its lines are received; never reopened.
CloseMr(s) ==
    /\ At(s, "mrclose")
    /\ mr' = IF \A r \in MrRows : mrrow[r].status = "received" THEN "closed" ELSE mr
    /\ Goto(s, "inv")
    /\ UNCHANGED <<slipvars, erpiface, erp, bookvars, othervars, mrrow, transit, outdated, page>>

\* Mutant: only the receiving storerooms.
Touched_in == {<<Data[l].to, Data[l].item>> : l \in Lines}

\* The inventory rows of both storerooms of every line of the slip.
Touched == UNION {{<<Data[l].from, Data[l].item>>, <<Data[l].to, Data[l].item>>} : l \in Lines}

\* The derived quantities those of them that exist should have now.
Current ==
    [k \in {t \in Touched : stock.inventory[t].exists} |->
        Derived(Data, Waiting, k, stock.inventory[k], Held[k])]

\* The recomputation reads lines, slips and balances ...
SumInv(s) ==
    /\ At(s, "inv")
    /\ sums' = [sums EXCEPT ![s] = Current]
    /\ pc' = [pc EXCEPT ![s] = "recalc"]
    /\ UNCHANGED <<slipvars, erpiface, erp, bookvars, othervars, sumvars, cur, qty, seen, page>>

\* ... and writes what it computed from them, also if another request has
\* changed them meanwhile.
RecalcInv(s) ==
    /\ At(s, "recalc")
    /\ transit' = [k \in Keys |-> IF k \in DOMAIN sums[s] THEN sums[s][k] ELSE transit[k]]
    /\ outdated' = (sums[s] # Current)
    /\ Finish(s)
    /\ UNCHANGED <<slipvars, erpiface, erp, bookvars, othervars, mrrow, mr, page>>

----------------------------------------------------------------------------
(* Exceptions that nobody catches, and crashes.                            *)

\* The query for other lines throws: YJSQTY and status are set on the page,
\* and no goods have moved.
QueryThrows(s) ==
    /\ "query" \in Failures
    /\ At(s, "status")
    /\ qty[s] = Wjsqty(s, cur[s])
    /\ page' = [page EXCEPT ![s] =
         [line   |-> [page[s].line EXCEPT ![cur[s]] = LineAfter(s, cur[s])],
          header |-> page[s].header,
          dirty  |-> page[s].dirty \cup {cur[s]},
          hdirty |-> page[s].hdirty]]
    /\ Finish(s)
    /\ UNCHANGED <<slipvars, erpiface, erp, bookvars, othervars, sumvars>>

\* ADDENDPAYQTY, CREATETKITEMREQ or SAVE throws: the goods have moved, and the
\* page keeps what was not saved.
Throws(s) ==
    /\ "throws" \in Failures
    /\ pc[s] \in {"endpay", "tk", "save", "mr", "mrclose", "inv", "recalc"}
    /\ Finish(s)
    /\ UNCHANGED <<slipvars, erpiface, erp, bookvars, othervars, sumvars, page>>

\* The request dies: the page is lost with it.
Crash(s) ==
    /\ "crash" \in Failures
    /\ pc[s] # "idle"
    /\ Finish(s)
    /\ page' = [page EXCEPT ![s] = Fresh]
    /\ UNCHANGED <<slipvars, erpiface, erp, bookvars, othervars, sumvars>>

\* The server's own steps of a request, in the order of the code.
Serve(s) ==
    \/ InsertIface(s) \/ ErpPosts(s) \/ SetReceived(s)
    \/ ReadOut(s) \/ OutStock(s) \/ OutLedger(s)
    \/ ReadIn(s) \/ InStock(s) \/ InLedger(s)
    \/ EndPay(s) \/ AddTrade(s) \/ CreateTk(s)
    \/ Save(s) \/ RollUpMr(s) \/ CloseMr(s) \/ SumInv(s) \/ RecalcInv(s)

Fault(s) == ErpRefuses(s) \/ ErpIsLost(s) \/ QueryThrows(s) \/ Throws(s) \/ Crash(s)

User(s) ==
    \/ Open(s)
    \/ \E l \in Lines : \E q \in 1 .. Data[l].orderqty : Confirm(s, l, q)
    \/ SavePage(s)

Next == \E s \in Sessions : User(s) \/ Serve(s) \/ Fault(s)

Spec == Init /\ [][Next]_vars

\* A request that the application server has started runs on by itself.
FairSpec == Spec /\ \A s \in Sessions : WF_vars(Serve(s))

----------------------------------------------------------------------------
(* What receiving guarantees for any slip: see the proof modules.          *)

\* No line is received twice: neither the ERP nor the balances nor the
\* transaction records see more of a line than was packed, whatever dies,
\* is retried or is swallowed (the guard on ERPIFACE in execute()).
AtMostOrdered ==
    \A l \in Lines : LET n == Data[l].orderqty IN
        /\ erp[l] <= n
        /\ moved[l].out <= n /\ moved[l].in <= n
        /\ invtrans[l].out <= n /\ invtrans[l].in <= n

\* The goods of a line that moves through the ERP leave their storeroom only
\* after the ERP has posted at least as much (MroToErp before out_storoom).
PostedBeforeMoved ==
    \A l \in Lines : Data[l].route = "erp" =>
        /\ moved[l].out <= erp[l]
        /\ moved[l].in <= erp[l]

\* The slip counts as received only when each of its lines is, though the query
\* for other lines and the save of the slip are far apart (TOERP, SAVE).
HeaderMeansAllLines ==
    transfer = "received" => \A l \in Lines : transferline[l].status = "received"

\* A saved receipt is never taken back, by a stale page or by a late save:
\* no line's received quantity falls, no received line is reopened.
ReceiptIsFinal ==
    [][\A l \in Lines :
         /\ transferline'[l].yjsqty >= transferline[l].yjsqty
         /\ transferline[l].status = "received" => transferline'[l].status = "received"
      ]_vars

\* What the saved line says was received is what really moved, was recorded,
\* was posted by the ERP and was written on the trade row, in spite of the
\* final save being a transaction of its own.
SavedIsMoved ==
    \A l \in Lines : LET n == transferline[l].yjsqty IN
        transferline[l].status # "notReceived" =>
            /\ moved[l] = [out |-> n, in |-> n]
            /\ invtrans[l] = [out |-> n, in |-> n]
            /\ Data[l].route = "erp" => erp[l] = n
            /\ transferline[l].status = "received" <=> n = Data[l].orderqty

\* When no request is running, the quantities on their way and the quantity that
\* may be requested are those of the committed slip and balances: only a
\* recomputation that was overtaken by another request leaves them wrong, and
\* that until the next one (the end of SAVE, InventoryQtyCommon).
TransitIsFresh ==
    (\A s \in Sessions : pc[s] = "idle") /\ ~ outdated =>
        \A k \in Keys : stock.inventory[k].exists =>
            transit[k] = Derived(Data, Waiting, k, stock.inventory[k], Held[k])

\* The request is closed only when all that each of its lines asks for has
\* arrived (receiveqty, mrline status and mr status of SAVE); the slip may
\* carry more.
ClosedMeansArrived ==
    mr = "closed" => \A r \in MrRows :
        SumFunctionOnSet([l \in Lines |-> moved[l].in], {l \in Lines : Data[l].mrrow = r})
            >= Required[r]

\* No receipt is before its save or was cut short: each line with a row in
\* ERPIFACE has been saved.
NothingLost == \A l \in erpiface : transferline[l].status # "notReceived"

FromRow(l) == <<Data[l].from, Data[l].item>>
ToRow(l)   == <<Data[l].to, Data[l].item>>

\* What was received of lines S out of and into row k.
LeftFrom(S, k) == SumFunctionOnSet(ReceivedQty, {l \in S : FromRow(l) = k})
GoneTo(S, k) == SumFunctionOnSet(ReceivedQty, {l \in S : ToRow(l) = k})

Lotted == {l \in Lines : Data[l].kind = "LOT" /\ Data[l].lotted}
Binned == {l \in Lines : Data[l].kind = "SQN" /\ Data[l].binned}
Serialised == {l \in Lines : Data[l].kind = "SQN"}

\* The slip takes parts to a site for use there.
ToASite ==
    \/ Slip.type = "GZZXD"
    \/ Slip.type = "ZXD" /\ Slip.move \in {"siteToSite", "centreToSite"}

\* When no receipt is before its save or was cut short, every table agrees with
\* the slip: balances, usable quantities, lots, bins (that of the receiving
\* storeroom is never updated), the place of each asset, and, unless an
\* exception came before they were written, the trade rows and the returns.
BooksBalance ==
    NothingLost =>
        /\ \A k \in Keys :
             LET now == stock.inventory[k]  was == InitStock.inventory[k]
                 change == GoneTo(Lines, k) - LeftFrom(Lines, k)
             IN  /\ now.curbal = was.curbal + change
                 /\ ToASite => now.locqty = was.locqty + change
                 /\ stock.invblance[k].qty
                      = InitStock.invblance[k].qty + GoneTo(Lotted, k) - LeftFrom(Lotted, k)
                 /\ stock.locbinitem[k].qty = InitStock.locbinitem[k].qty - LeftFrom(Binned, k)
        /\ \A l \in Serialised : LET a == Data[l].asset IN
             stock.asset[a].location = IF ReceivedQty[l] = 0 THEN InitStock.asset[a].location
                                                          ELSE Data[l].to
        /\ \A l \in Lines : LET n == ReceivedQty[l] IN
             /\ \/ trade[l] = n
                \/ "throws" \in Failures /\ trade[l] = 0
             /\ \/ tkmpr[l] = IF n > 0 /\ Data[l].route = "other" /\ Data[l].iskhitem
                             THEN 1 ELSE 0
                \/ "throws" \in Failures /\ tkmpr[l] = 0

\* Conditions on the constants, under which it does.

\* No row of a line of one session is a row of a line of another.
RowsApart ==
    \A s, t \in Sessions : s # t =>
        \A l \in MayOpen[s], m \in MayOpen[t] :
            {FromRow(l), ToRow(l)} \cap {FromRow(m), ToRow(m)} = {}

\* The movement procedures let no exception disappear.
NothingSwallowed == "swallow" \notin Failures

\* The query for other lines never fails after the line was set on the page.
QueryAnswers == "query" \notin Failures

\* A line names a lot or a bin of its storeroom that exists, and each
\* serialised line a part of its own.
WellIssued ==
    /\ \A l \in Lotted : InitStock.invblance[FromRow(l)].exists
    /\ \A l \in Binned : InitStock.locbinitem[FromRow(l)].exists
    /\ \A l, m \in Serialised : Data[l].asset = Data[m].asset => l = m

\* The promise, read off the history of each line's movements.
Promise == INSTANCE StockMove WITH
    Quantity <- [l \in Lines |-> Data[l].orderqty],
    taken    <- [l \in Lines |-> moved[l].out],
    arrived  <- [l \in Lines |-> moved[l].in]

\* The detailed receipt implements the promise: goods leave, then arrive, in
\* the same quantity, at most the ordered one, however requests interleave.
MovesAsPromised == Promise!Spec
=============================================================================
