---------------------------- MODULE MaterBorrow ----------------------------
(***************************************************************************)
(* One borrowing slip of spare parts (MATERBORROW, 配件借用): its lines are *)
(* lent when it is submitted, returned one by one or all given back when   *)
(* it is closed, and a job mails the borrower when it is overdue.          *)
(*                                                                         *)
(* Goods move between the storeroom BORROWSTOREROOM ("store") and the      *)
(* borrowing storeroom RETURNSTOREROOM, JY1001 ("loan").  Each call of     *)
(* CommonInventory queries the rows, saves them one by one as absolute     *)
(* values, writes a record, and forgets any MroException on the way; the   *)
(* statuses reach the database with the last save of a request, which may  *)
(* die before.  A line is always for one piece (FldItemnum sets QTY to 1,  *)
(* read only).                                                             *)
(*                                                                         *)
(* The workflow engine runs StatusOk when the slip is submitted and        *)
(* StatusClose when a rejected slip is closed; approval and rejection are  *)
(* its own.  The quantities InventoryQtyCommon derives from the balances   *)
(* after each movement are not part of this module (see InventoryQty).     *)
(***************************************************************************)
EXTENDS Storeroom, FiniteSets

CONSTANTS
    Lines, NoLine,
    NotRead,     \* no stock: the session has not queried it
    Sessions,    \* browser sessions of the person who created the slip
    MayReturn,   \* MayReturn[s]: the lines session s tries to return
    Items, Kind, \* Kind[i]: "SQN", "LOT" or "OTHER"
    Item, Asset, \* a line's item, and its asset if it is serialised
    Assets, NoAsset,
    Serials,     \* serial numbers of exchange parts: the asset such a part is
    ItemOf,      \* the item of an asset
    InitStock,   \* the stock tables before the slip is submitted
    MaxLate,     \* bound: how late it gets (see late)
    Failures     \* which faults may happen (see Faults)

Faults == {"crash",      \* a request dies between two commits
           "throws",     \* an exception of ADDASSET or of the last save
           "query",      \* an exception of the query in CHANGESTATUS
           "swallow",    \* one inside CommonInventory or CommonAddInvtrans
           "mixed",      \* a part with serial number comes back for one without
           "stalePage",  \* lines are edited on a page older than the submission
           "routeTwice"} \* two windows submit the slip, or close it

BorrowRooms == {"store", "loan"}
Keys == BorrowRooms \X Items

Header == {"new", "pending", "rejected", "lent", "partReturned", "allReturned",
           "overdue", "closed"}

\* The statuses in which BORROWRETURN and SECONDBORROW refuse.
NoReturnIn == {"new", "rejected", "pending", "allReturned", "closed"}
NoRenewIn  == {"new", "pending", "allReturned", "closed"}

BorrowStock ==
    [inventory : [Keys -> [exists : BOOLEAN, curbal : Int, locqty : Int]],
     invblance : [Keys -> [exists : BOOLEAN, qty : Int]],
     asset     : [Assets -> [exists : BOOLEAN, location : BorrowRooms \cup {Nowhere}]]]

ASSUME BorrowAssumption ==
    /\ NoLine \notin Lines
    /\ NoAsset \notin Assets
    /\ NotRead \notin BorrowStock
    /\ Items # {}
    /\ MayReturn \in [Sessions -> SUBSET Lines]
    /\ Kind \in [Items -> Kinds]
    /\ Item \in [Lines -> Items]
    /\ Asset \in [Lines -> Assets \cup {NoAsset}]
    /\ \A l \in Lines : Kind[Item[l]] = "SQN" <=> Asset[l] # NoAsset
    /\ Serials \subseteq Assets
    /\ ItemOf \in [Assets -> Items]
    /\ InitStock \in BorrowStock
    /\ MaxLate \in 0 .. 2
    /\ Failures \subseteq Faults

VARIABLES
    status,     \* committed status of the slip
    lines,      \* the lines it has
    line,       \* committed status and NEWITEMNUM of each line
    renewed,    \* SECONDBORDATE is set
    sendemail,  \* 0, 1 or 2: the last reminder sent
    late,       \* 0 in time, 1 after PLANRETURNDATE, 2 after SECONDPLANRETURNDATE
    stock,      \* inventory, lots and assets
    invtrans,   \* the sum of the INVTRANS records of each inventory row
    pc, cur, ret, todo,     \* each session's request
    seen,       \* the stock as the request's movement has queried it
    page,       \* each session's copy of the slip
    cron,       \* the reminder job's copy of the slip, while it has one
    cut         \* history: a request or one of its movements was cut short, or a page
                \* was dropped, with goods moved or a line marked

slipvars == <<status, line, renewed, sendemail>>
goods    == <<stock, invtrans>>
reqvars  == <<pc, cur, ret, todo, seen>>
vars     == <<slipvars, lines, late, goods, reqvars, page, cron, cut>>

Steps == {"idle", "lendOut", "lendIn", "lendSave", "closeOut", "closeIn", "closeSave",
          "change", "asset", "out", "in", "save"}

\* The steps that move goods.
Moving == {"lendOut", "lendIn", "closeOut", "closeIn", "out", "in"}

LineStatus == [status : {"notReturned", "returned"}, newitem : Items]
Returns    == [item : Items, asset : Assets \cup {NoAsset}]

TypeOK ==
    /\ status \in Header
    /\ lines \subseteq Lines
    /\ line \in [Lines -> LineStatus]
    /\ renewed \in BOOLEAN
    /\ sendemail \in 0 .. 2
    /\ late \in 0 .. MaxLate
    /\ stock \in BorrowStock
    /\ invtrans \in [Keys -> Int]
    /\ pc \in [Sessions -> Steps]
    /\ cur \in [Sessions -> Lines \cup {NoLine}]
    /\ ret \in [Sessions -> Returns]
    /\ todo \in [Sessions -> SUBSET Lines]
    /\ seen \in [Sessions -> BorrowStock \cup {NotRead}]
    /\ page \in [Sessions -> [status : Header, line : [Lines -> LineStatus],
                              renewed : BOOLEAN, dirty : SUBSET Lines, hdirty : BOOLEAN]]
    /\ cron \in [busy : BOOLEAN, renewed : BOOLEAN, sendemail : 0 .. 2, status : Header]
    /\ cut \in BOOLEAN

----------------------------------------------------------------------------
(* CommonInventory: one piece of an item, and its asset a if it is         *)
(* serialised.  The usable quantity LOCQTY falls with what leaves and does *)
(* not rise with what arrives.  `upto` counts the saves as in Storeroom:   *)
(* the lot, the inventory row, the asset, and last the transaction record. *)

Recorded == AllSaves + 1

Less(row) == [row EXCEPT !.curbal = @ - 1, !.locqty = @ - 1]

\* Mutant: a new row starts at 0.
More_new(row) == IF row.exists THEN [row EXCEPT !.curbal = @ + 1]
                 ELSE [row EXCEPT !.exists = TRUE]
More(row) == [row EXCEPT !.exists = TRUE, !.curbal = @ + 1]

Known(st, a) == a # NoAsset /\ st.asset[a].exists

OUTINVENTORY(st, read, room, item, a, upto) ==
    LET key  == <<room, item>>
        row  == read.inventory[key]
        rows == Put(st.inventory, key, Less(row), row.exists /\ upto >= 2)
    IN  CASE Kind[item] = "SQN" ->
               IF Known(read, a)
               THEN [st EXCEPT !.inventory = rows,
                               !.asset = Put(@, a, [exists |-> TRUE, location |-> Nowhere],
                                             upto >= 3)]
               ELSE st
          [] Kind[item] = "LOT" ->
               [st EXCEPT !.inventory = rows,
                          !.invblance = Put(@, key, OutAmount(read.invblance[key], 1),
                                            row.exists /\ upto >= 1)]
          [] Kind[item] = "OTHER" -> [st EXCEPT !.inventory = rows]

ININVENTORY(st, read, room, item, a, upto) ==
    LET key  == <<room, item>>
        rows == Put(st.inventory, key, More(read.inventory[key]), upto >= 2)
    IN  CASE Kind[item] = "SQN" ->
               IF Known(read, a)
               THEN [st EXCEPT !.inventory = rows,
                               !.asset = Put(@, a, [exists |-> TRUE, location |-> room],
                                             upto >= 3)]
               ELSE st
          [] Kind[item] = "LOT" ->
               [st EXCEPT !.inventory = rows,
                          !.invblance = Put(@, key, InAmount(read.invblance[key], 1), upto >= 1)]
          [] Kind[item] = "OTHER" -> [st EXCEPT !.inventory = rows]

\* How many saves of a movement succeed.  One may fail when its row has changed
\* since it was read, and when the database fails; the exception is swallowed.
\* Bound: the database fails once (see Failures below).
Saves(s, key) ==
    IF \/ "swallow" \in Failures /\ ~ cut
       \/ stock.inventory[key] # seen[s].inventory[key]
    THEN 0 .. Recorded ELSE {Recorded}

\* A movement that goes through ends with a transaction record, whether it
\* changed the stock or not.
Moved(s, room, item, upto, d) ==
    /\ invtrans' = IF upto = Recorded THEN [invtrans EXCEPT ![<<room, item>>] = @ + d]
                   ELSE invtrans
    /\ cut' = (cut \/ upto # Recorded)
    /\ seen' = [seen EXCEPT ![s] = NotRead]

Out(s, room, item, a) ==
    /\ seen[s] # NotRead
    /\ \E upto \in Saves(s, <<room, item>>) :
         /\ stock' = OUTINVENTORY(stock, seen[s], room, item, a, upto)
         /\ Moved(s, room, item, upto, -1)

In(s, room, item, a) ==
    /\ seen[s] # NotRead
    /\ \E upto \in Saves(s, <<room, item>>) :
         /\ stock' = ININVENTORY(stock, seen[s], room, item, a, upto)
         /\ Moved(s, room, item, upto, 1)

----------------------------------------------------------------------------
Fresh == [status |-> status, line |-> line, renewed |-> renewed,
          dirty |-> {}, hdirty |-> FALSE]

NoReturn == [item |-> CHOOSE i \in Items : TRUE, asset |-> NoAsset]
NoCron   == [busy |-> FALSE, renewed |-> FALSE, sendemail |-> 0, status |-> "new"]

Init ==
    /\ status = "new"
    /\ lines = {}
    /\ line = [l \in Lines |-> [status |-> "notReturned", newitem |-> Item[l]]]
    /\ renewed = FALSE
    /\ sendemail = 0
    /\ late = 0
    /\ stock = InitStock
    /\ invtrans = [k \in Keys |-> 0]
    /\ pc = [s \in Sessions |-> "idle"]
    /\ cur = [s \in Sessions |-> NoLine]
    /\ ret = [s \in Sessions |-> NoReturn]
    /\ todo = [s \in Sessions |-> {}]
    /\ seen = [s \in Sessions |-> NotRead]
    /\ page = [s \in Sessions |-> Fresh]
    /\ cron = NoCron
    /\ cut = FALSE

At(s, step) == pc[s] = step
Goto(s, n)  == pc' = [pc EXCEPT ![s] = n] /\ UNCHANGED <<cur, ret, todo>>

Finish(s) ==
    /\ pc' = [pc EXCEPT ![s] = "idle"]
    /\ cur' = [cur EXCEPT ![s] = NoLine]
    /\ ret' = [ret EXCEPT ![s] = NoReturn]
    /\ todo' = [todo EXCEPT ![s] = {}]
    /\ seen' = [seen EXCEPT ![s] = NotRead]

\* The query at the beginning of a movement.
Query(s) ==
    /\ pc[s] \in Moving
    /\ seen[s] = NotRead
    /\ seen' = [seen EXCEPT ![s] = stock]
    /\ UNCHANGED <<slipvars, lines, late, goods, pc, cur, ret, todo, page, cron, cut>>

----------------------------------------------------------------------------
(* The new slip, and its way through the workflow.                         *)

\* addrow and delete, saved at once: only on a new slip, as the page knows.
EditLines(s) ==
    /\ At(s, "idle")
    /\ page[s].status = "new"
    /\ \/ status = "new" /\ \A t \in Sessions : At(t, "idle")
       \/ "stalePage" \in Failures
    /\ \E l \in Lines : lines' \in {lines \cup {l}, lines \ {l}}
    /\ UNCHANGED <<slipvars, late, goods, reqvars, page, cron, cut>>

\* The workflow engine, which is not part of this code, runs StatusOk once and
\* StatusClose once, while the slip is new and rejected; neither the two nor
\* ROUTEWF test the status or what other windows do (see routeTwice).
Routed(s, from) ==
    /\ At(s, "idle")
    /\ \/ status = from /\ \A t \in Sessions : At(t, "idle")
       \/ "routeTwice" \in Failures /\ page[s].status = from

\* ROUTEWF refuses a slip without lines; then StatusOk goes through the lines.
Submit(s) ==
    /\ Routed(s, "new")
    /\ lines # {}
    /\ pc' = [pc EXCEPT ![s] = "lendOut"]
    /\ todo' = [todo EXCEPT ![s] = lines]
    /\ UNCHANGED <<slipvars, lines, late, goods, cur, ret, seen, page, cron, cut>>

\* StatusClose on a rejected slip goes through all its lines.
Close(s) ==
    /\ Routed(s, "rejected")
    /\ pc' = [pc EXCEPT ![s] = IF lines = {} THEN "closeSave" ELSE "closeOut"]
    /\ todo' = [todo EXCEPT ![s] = lines]
    /\ UNCHANGED <<slipvars, lines, late, goods, cur, ret, seen, page, cron, cut>>

\* One line leaves a storeroom ...
MoveOut(s, step, next, room) ==
    /\ At(s, step)
    /\ \E l \in todo[s] :
         /\ Out(s, room, Item[l], Asset[l])
         /\ cur' = [cur EXCEPT ![s] = l]
         /\ todo' = [todo EXCEPT ![s] = @ \ {l}]
    /\ pc' = [pc EXCEPT ![s] = next]
    /\ UNCHANGED <<slipvars, lines, late, ret, page, cron>>

\* ... and enters the other; with the last one the status is saved.
MoveIn(s, step, more, last, room) ==
    /\ At(s, step)
    /\ In(s, room, Item[cur[s]], Asset[cur[s]])
    /\ Goto(s, IF todo[s] = {} THEN last ELSE more)
    /\ UNCHANGED <<slipvars, lines, late, page, cron>>

LendOut(s)  == MoveOut(s, "lendOut", "lendIn", "store")
LendIn(s)   == MoveIn(s, "lendIn", "lendOut", "lendSave", "loan")
CloseOut(s) == MoveOut(s, "closeOut", "closeIn", "loan")
CloseIn(s)  == MoveIn(s, "closeIn", "closeOut", "closeSave", "store")

SaveStatus(s, step, new) ==
    /\ At(s, step)
    /\ status' = new
    /\ page' = [page EXCEPT ![s] = [@ EXCEPT !.status = new]]
    /\ Finish(s)
    /\ UNCHANGED <<line, renewed, sendemail, lines, late, goods, cron, cut>>

LendSave(s)  == SaveStatus(s, "lendSave", "pending")
CloseSave(s) == SaveStatus(s, "closeSave", "closed")

\* The approvers decide, in the workflow engine.
Decide ==
    /\ status = "pending"
    /\ status' \in {"lent", "rejected"}
    /\ UNCHANGED <<line, renewed, sendemail, lines, late, goods, reqvars, page, cron, cut>>

----------------------------------------------------------------------------
(* The creator's page: refresh, renewal, return.                           *)

\* A refresh drops what a failed save left on the page.
Open(s) ==
    /\ At(s, "idle")
    /\ page[s].dirty # {} => ~ cut
    /\ page' = [page EXCEPT ![s] = Fresh]
    /\ cut' = (cut \/ page[s].dirty # {})
    /\ UNCHANGED <<slipvars, lines, late, goods, reqvars, cron>>

\* What may come back for a line: for a serialised one its own serial or the
\* serial of an exchange part, for another one any item without serial numbers
\* (the field of the serial number is required or read only, as the line has
\* one or not).  Nothing keeps the item of the one from the other (see mixed).
\* A serial number that is known somewhere else becomes a second asset with
\* the same number; that is not modelled.
Returnable(l) ==
    {r \in Returns :
        IF Kind[Item[l]] = "SQN"
        THEN \/ r = [item |-> Item[l], asset |-> Asset[l]]
             \/ /\ r.asset \in Serials
                /\ r.item = ItemOf[r.asset] \/ ("mixed" \in Failures /\ Kind[r.item] # "SQN")
                /\ stock.asset[r.asset].location = Nowhere
        ELSE r.asset = NoAsset /\ (Kind[r.item] # "SQN" \/ "mixed" \in Failures)}

\* The tests of BORROWRETURN, on the page.
Returning(s, l) ==
    /\ l \in lines \cap MayReturn[s]
    /\ page[s].status \notin NoReturnIn
    /\ page[s].line[l].status # "returned"

\* The dialog is confirmed.  The same item without serial number or lot falls
\* through every branch of execute().
Confirm(s, l, r) ==
    /\ At(s, "idle")
    /\ Returning(s, l)
    /\ r \in Returnable(l)
    /\ pc' = [pc EXCEPT ![s] =
         IF r.item = Item[l] /\ Kind[r.item] = "OTHER" THEN "save" ELSE "change"]
    /\ cur' = [cur EXCEPT ![s] = l]
    /\ ret' = [ret EXCEPT ![s] = r]
    /\ UNCHANGED <<slipvars, lines, late, goods, todo, seen, page, cron, cut>>

\* Mutant: the query looks for lines returned instead of lines not returned.
OthersReturned_swapped(l) == \A m \in lines \ {l} : line[m].status # "returned"

\* The database knows no other line of the slip that is not returned.
OthersReturned(l) == \A m \in lines \ {l} : line[m].status = "returned"

\* The line as it is marked on the page.
Marking(s) ==
    [page[s].line EXCEPT ![cur[s]] = [status |-> "returned", newitem |-> ret[s].item]]

\* CHANGESTATUS: line and slip, on the page, after a look at the database.
ChangeStatus(s) ==
    LET l == cur[s] IN
    /\ At(s, "change")
    /\ page' = [page EXCEPT ![s] =
         [@ EXCEPT !.line = Marking(s),
                   !.status = IF OthersReturned(l) THEN "allReturned" ELSE "partReturned",
                   !.dirty = page[s].dirty \cup {l}, !.hdirty = TRUE]]
    /\ Goto(s, IF ret[s].asset = Asset[l] \/ ret[s].asset = NoAsset THEN "out" ELSE "asset")
    /\ UNCHANGED <<slipvars, lines, late, goods, seen, cron, cut>>

\* Its query throws: the request ends with the line marked, the slip not, and
\* nothing moved; a later save of the page writes the line.
ChangeFails(s) ==
    /\ "query" \in Failures
    /\ At(s, "change")
    /\ ~ cut
    /\ cut' = TRUE
    /\ page' = [page EXCEPT ![s] =
         [@ EXCEPT !.line = Marking(s), !.dirty = page[s].dirty \cup {cur[s]}]]
    /\ Finish(s)
    /\ UNCHANGED <<slipvars, lines, late, goods, cron>>

\* Mutant: the item's number is returned for the asset's.
AddAsset_item(s) ==
    LET a == ret[s].asset IN
    /\ At(s, "asset")
    /\ stock' = [stock EXCEPT !.asset[a] = [exists |-> TRUE, location |-> Nowhere]]
    /\ ret' = [ret EXCEPT ![s].asset = IF stock.asset[a].exists THEN NoAsset ELSE ret[s].item]
    /\ pc' = [pc EXCEPT ![s] = "out"]
    /\ UNCHANGED <<slipvars, lines, late, invtrans, cur, todo, seen, page, cron, cut>>

\* ADDASSET: an unknown serial number becomes an asset without location; for
\* a known one no ASSETNUM is returned.
AddAsset(s) ==
    LET a == ret[s].asset IN
    /\ At(s, "asset")
    /\ stock' = [stock EXCEPT !.asset[a] = [exists |-> TRUE, location |-> Nowhere]]
    /\ ret' = [ret EXCEPT ![s].asset = IF stock.asset[a].exists THEN NoAsset ELSE a]
    /\ pc' = [pc EXCEPT ![s] = "out"]
    /\ UNCHANGED <<slipvars, lines, late, invtrans, cur, todo, seen, page, cron, cut>>

\* The borrowed piece leaves the borrowing storeroom ...
ReturnOut(s) ==
    /\ At(s, "out")
    /\ Out(s, "loan", Item[cur[s]], Asset[cur[s]])
    /\ Goto(s, "in")
    /\ UNCHANGED <<slipvars, lines, late, page, cron>>

\* Mutant: the borrowed item is booked in, whatever comes back.
ReturnIn_old(s) ==
    /\ At(s, "in")
    /\ In(s, "store", Item[cur[s]], Asset[cur[s]])
    /\ Goto(s, "save")
    /\ UNCHANGED <<slipvars, lines, late, page, cron>>

\* ... and what came back enters the storeroom it was borrowed from.
ReturnIn(s) ==
    /\ At(s, "in")
    /\ In(s, "store", ret[s].item, ret[s].asset)
    /\ Goto(s, "save")
    /\ UNCHANGED <<slipvars, lines, late, page, cron>>

\* Mutant: the page's lines are written, modified or not.
Saved_all(s) ==
    /\ line' = page[s].line
    /\ status' = IF page[s].hdirty THEN page[s].status ELSE status

\* AppBean.SAVE writes what is modified on the page.
Saved(s) ==
    /\ line' = [l \in Lines |-> IF l \in page[s].dirty THEN page[s].line[l] ELSE line[l]]
    /\ status' = IF page[s].hdirty THEN page[s].status ELSE status

SavePage(s) ==
    /\ At(s, "save")
    /\ Saved(s)
    /\ page' = [page EXCEPT ![s] = [@ EXCEPT !.dirty = {}, !.hdirty = FALSE]]
    /\ Finish(s)
    /\ UNCHANGED <<renewed, sendemail, lines, late, goods, cron, cut>>

\* SECONDBORROW and its dialog: once, as the page knows; the page is saved.
Renew(s) ==
    /\ At(s, "idle")
    /\ page[s].status \notin NoRenewIn
    /\ ~ page[s].renewed
    /\ renewed' = TRUE
    /\ Saved(s)
    /\ page' = [page EXCEPT ![s] = [@ EXCEPT !.renewed = TRUE, !.dirty = {}, !.hdirty = FALSE]]
    /\ UNCHANGED <<sendemail, lines, late, goods, reqvars, cron, cut>>

\* The page's own Save.
PressSave(s) ==
    /\ At(s, "idle")
    /\ page[s].dirty # {}
    /\ Goto(s, "save")
    /\ UNCHANGED <<slipvars, lines, late, goods, seen, page, cron, cut>>

----------------------------------------------------------------------------
(* The reminder job.                                                       *)

Later ==
    /\ late < MaxLate
    /\ late' = late + 1
    /\ UNCHANGED <<slipvars, lines, goods, reqvars, page, cron, cut>>

CronRead ==
    /\ ~ cron.busy
    /\ status \in {"lent", "partReturned", "overdue"}
    /\ sendemail # 2
    /\ cron' = [busy |-> TRUE, renewed |-> renewed, sendemail |-> sendemail,
                status |-> status]
    /\ UNCHANGED <<slipvars, lines, late, goods, reqvars, page, cut>>

\* Whether a reminder is sent, by what the job has read.
Due ==
    \/ cron.sendemail = 0 /\ (IF cron.renewed THEN late = 2 ELSE late >= 1)
    \/ cron.sendemail = 1 /\ cron.renewed /\ late = 2

\* The mail is sent and the slip saved.  The save of a slip that has changed
\* since it was read may fail or overwrite the status.
CronSave ==
    /\ cron.busy
    /\ IF ~ Due THEN UNCHANGED <<status, sendemail>>
       ELSE \/ /\ status' = "overdue"
               /\ sendemail' = IF cron.renewed THEN 2 ELSE 1
            \/ /\ <<status, renewed, sendemail>>
                     # <<cron.status, cron.renewed, cron.sendemail>>
               /\ UNCHANGED <<status, sendemail>>
    /\ cron' = NoCron
    /\ UNCHANGED <<line, renewed, lines, late, goods, reqvars, page, cut>>

----------------------------------------------------------------------------
(* Failures.  Bound: after one no other one happens, as a slip could be    *)
(* lent or returned again and again that way.                              *)

\* An exception of ADDASSET or of the last save; the page keeps its changes.
Throws(s) ==
    /\ "throws" \in Failures
    /\ pc[s] \in {"asset", "save"}
    /\ ~ cut
    /\ cut' = (cut \/ At(s, "asset"))
    /\ Finish(s)
    /\ UNCHANGED <<slipvars, lines, late, goods, page, cron>>

Crash(s) ==
    /\ "crash" \in Failures
    /\ ~ At(s, "idle")
    /\ ~ cut
    /\ cut' = (cut \/ pc[s] # "change" \/ page[s].dirty # {})
    /\ page' = [page EXCEPT ![s] = Fresh]
    /\ Finish(s)
    /\ UNCHANGED <<slipvars, lines, late, goods, cron>>

Return(s) ==
    ChangeStatus(s) \/ ChangeFails(s) \/ AddAsset(s) \/ ReturnOut(s) \/ ReturnIn(s) \/ SavePage(s)

Move(s) == LendOut(s) \/ LendIn(s) \/ LendSave(s) \/ CloseOut(s) \/ CloseIn(s) \/ CloseSave(s)

User(s) ==
    \/ EditLines(s) \/ Submit(s) \/ Close(s) \/ Open(s) \/ Renew(s) \/ PressSave(s)
    \/ \E l \in Lines : \E r \in Returns : Confirm(s, l, r)

Next ==
    \/ \E s \in Sessions : User(s) \/ Query(s) \/ Return(s) \/ Move(s) \/ Throws(s) \/ Crash(s)
    \/ Decide \/ Later \/ CronRead \/ CronSave

Spec == Init /\ [][Next]_vars

----------------------------------------------------------------------------
(* Conditions on the constants, some of which a property needs.            *)

\* Each line is returned from one session only, and lines are edited on fresh
\* pages only.
OneWindow ==
    /\ \A s, t \in Sessions : s # t => MayReturn[s] \cap MayReturn[t] = {}
    /\ "stalePage" \notin Failures

\* What the storerooms hold before the slip is made: the lines were picked from
\* rows of the storeroom, the serialised ones with an asset of their own that
\* is there, and the serial numbers of exchange parts are new.
Stocked ==
    /\ \A l \in Lines :
         LET key == <<"store", Item[l]>>
         IN  /\ InitStock.inventory[key].exists
             /\ Kind[Item[l]] = "LOT" => InitStock.invblance[key].exists
             /\ Asset[l] # NoAsset =>
                    InitStock.asset[Asset[l]] = [exists |-> TRUE, location |-> "store"]
    /\ \A l, m \in Lines : Asset[l] = Asset[m] /\ Asset[l] # NoAsset => l = m
    /\ \A a \in Serials : ~ InitStock.asset[a].exists /\ Kind[ItemOf[a]] = "SQN"

\* The workflow engine lends and closes the slip once.
OneRoute == "routeTwice" \notin Failures

\* Two windows never move the same row: the lines with serial numbers are
\* returned from one of them and the others from one, as what comes back for a
\* line is any item of its sort, and no part comes back for one of the other.
RowsApart ==
    /\ \A s, t \in Sessions : \A l \in MayReturn[s], m \in MayReturn[t] :
           (Kind[Item[l]] = "SQN" <=> Kind[Item[m]] = "SQN") => s = t
    /\ "mixed" \notin Failures

----------------------------------------------------------------------------
(* Properties.                                                             *)

\* The slip counts as all returned only when each of its lines is
\* (CHANGESTATUS looks at the database, the page is saved later).
AllReturnedMeansAll ==
    status = "allReturned" => \A l \in lines : line[l].status = "returned"

Quiet == \A s \in Sessions : At(s, "idle") /\ page[s].dirty = {}

Lent == {l \in lines : status # "new"}
Out_of(i) == Cardinality({l \in Lent : Item[l] = i /\ line[l].status = "notReturned"})
Taken(i)  == Cardinality({l \in Lent : Item[l] = i})
Given(i)  == Cardinality({l \in Lent : line[l].status = "returned" /\ line[l].newitem = i})

\* When no request is running and none was cut short, the storerooms hold
\* what the slip says: what is lent and not returned is in the borrowing
\* storeroom, what came back is in the other one, as the item it came back
\* as, and closing brings everything back; the lots and the asset follow.
GoodsAccounted ==
    Quiet /\ ~ cut => \A i \in Items :
        LET store == <<"store", i>>
            loan  == <<"loan", i>>
            gone  == IF status = "closed" THEN 0 ELSE Taken(i) - Given(i)
            out   == IF status = "closed" THEN 0 ELSE Out_of(i)
        IN  /\ stock.inventory[store].curbal = InitStock.inventory[store].curbal - gone
            /\ stock.inventory[loan].curbal = InitStock.inventory[loan].curbal + out
            /\ Kind[i] = "LOT" =>
                   /\ stock.invblance[store].qty = InitStock.invblance[store].qty - gone
                   /\ stock.invblance[loan].qty = InitStock.invblance[loan].qty + out
            /\ \A l \in Lent : Item[l] = i /\ Kind[i] = "SQN" =>
                   (stock.asset[Asset[l]].location = "loan"
                        <=> status # "closed" /\ line[l].status = "notReturned")

\* The transaction records explain every balance, and those of a lot its
\* quantity, in every state of requests that were not cut short, when exchange
\* parts have new serial numbers: CommonInventory writes a record even where it
\* finds no row or no asset to change, and ADDASSET returns no asset for a
\* serial number that is known.
LedgerExplainsBalance ==
    ~ cut => \A k \in Keys :
        /\ stock.inventory[k].curbal = InitStock.inventory[k].curbal + invtrans[k]
        /\ Kind[k[2]] = "LOT" =>
               stock.invblance[k].qty = InitStock.invblance[k].qty + invtrans[k]

\* What is settled stays settled, whatever stale page is saved and whatever
\* the reminder job writes: a returned line stays returned, only the job
\* takes the status all returned away, and nothing of a closed slip changes.
SettledIsFinal ==
    [][/\ \A l \in lines : line[l].status = "returned" => line'[l] = line[l]
       /\ status = "allReturned" => status' \in {"allReturned", "overdue"}
       /\ status = "closed" => UNCHANGED <<status, line, goods>>
      ]_vars
=============================================================================
