# GlawayMRO: models, checks and proofs of storeroom movements and the web client

GlawayMRO is a maintenance and overhaul system for rail vehicles. It runs as a
web application on a persistence platform (`IJpo`, `IJpoSet`, `AppBean`) that
is linked as a library; what the repository adds is Java code behind the pages,
workflow actions and scheduled jobs. Its most delicate part is
`com.glaway.sddq.material`: spare parts move between storerooms by slips, each
movement touches several tables, several people work on the same slip, one
step is a call to the SAP ERP, and **there is no transaction around any of it**.
That part is what this project models first. The other half of the program is
the web client of the platform (`src/gwclient/page/js`): every page of every
application runs its event manager and its control manager, whose globals are
shared by handlers, timers and answers. They are modelled second.

Paths of Java code are under `src/src/com/glaway/`, of JavaScript under
`src/gwclient/page/js/`.

## 1. Inventory

### How the code runs

* A user has a *page*: copies of the records of one slip. Buttons and dialogs
  change the page; `AppBean.SAVE` writes the modified records of the page.
* Code behind a button also opens record sets with the system user
  (`MroServer.getJpoSet(..., getSystemUserServer())`); each `save()` of such a
  set commits at once and by itself.
* Two requests of different sessions interleave freely at these commits.
  Values are computed from what was read and saved as absolute values.
* Most procedures that move goods catch `MroException`, print it and return.
* A page of the browser sends one request at a time. An edit waits in two
  globals (`changedCtrlId`, `changedCtrlVal`) for the next event to take it
  along; an answer is a list of (id, operation, data), which the control manager
  dispatches to the registered objects. The script is single-threaded: what
  interleaves are events, timers (10 ms to 500 ms), answers and polls.

### Components

| Component | State | Operations | Interacts with |
|---|---|---|---|
| Packing slip receipt (`sddq/material/transferline`) | lines with status and YJSQTY, page copies, ERPIFACE | Receive dialog: test, ERP call, movement, records, save | stock movement, ERP, slip save |
| Stock movement (`invtrans/common/TransLineStoroomCommon`, `TransLineInvtranscommon`) | INVENTORY, LOCBINITEM, INVBLANCE, ASSET, INVTRANS | out/in of one line | called by every slip |
| Slip save (`transfer/bean/ZxTransferAppBean`) | slip, request lines, request | SAVE: roll-up of the request, derived quantities | receipt, requests |
| Derived quantities (`InventoryQtyCommon`) | FCZTQTY, JSZTQTY, KYQTY, SQZYQTY | recalculation | all slips |
| Slip lifecycle (`transfer/data`, `transfer/workflow`) | slip and line status | issue, reject, return, reminder | workflow engine |
| Borrowing (`materborrow`, `materborrowline`) | slip, lines, renewal | lend, return, exchange, renew, close | `CommonInventory`, workflow engine, reminder job |
| Movement by item (`CommonInventory`, `CommonAddInvtrans`) | as stock movement | one item out or in | borrowing, disposition |
| Reminder job (`sddq/tools/ConTask/MaterBorrowEmailCronTask`) | SENDEMAIL, status | mail and save overdue slips | borrowing |
| Return, repair and tool slips (`Jk*`, `Sx*`, `Gz*`) | as packing slips | variants of the receipt | ERP |
| Location conversion (`convertloc`, `convertlocline`) | conversion lines | receipt with an ERP call | ERP |
| Material requests (`mpr`, `mprline`, `itemreq`, `mrline`, `materreq`, ...) | requests | issue, return, split | ERP, slips |
| Disposition (`wdr`, `wdrline`) | disposition slips | close, scrap | ERP |
| Master data (`location`, `locbin`, `inventory`, `item`, `base`) | tables | data entry | - |
| Service, overhaul, configuration (`sddq/service`, `sddq/overhaul`, `sddq/config`) | orders, trees of assets | forms and dialogs | workflow engine |
| Interfaces (`sddq/back`), platform extensions (`mro`) | - | stubs, mapping, import | ERP, PLM, MDM |
| Event manager (`eventmgr.js`) | changed value, lock, request, id to focus again | parseClick, bodyClick, sendEvent, sendSyncEvent, readResponse, refocus | inputs, wait marks, server, control manager |
| Inputs, titles, buttons (`control.js`) | text, mark of an error, timers | change, focus, click, loadData, resetVal | event manager |
| Wait marks (`control.js`, `waitMark`) | a stack of overlays | addMark, removeMark | requests, error boxes, transfers |
| Uploads and downloads (`local_library.js`, `controlmgr.js`) | polls | send, poll, end | event manager, wait marks |
| Control manager (`controlmgr.js`) | array of (id, object), dialogs, their count | put, get, replace, remove, putDialog, closeDialog, reopenDialog | every answer |

### What is hard, and what would be correct

* **Receiving a line once.** The only guard is a row in ERPIFACE, tested and
  inserted in different steps, around an ERP call that may be lost. Correct:
  never more than was packed; posted before moved; saved equals moved.
* **Statuses that summarise others** (slip from lines, request from slips,
  borrowing slip from its lines): computed by a query on the database from a
  request whose own change is still on its page. Correct: the summary never
  runs ahead; when all is quiet it is not behind.
* **Tables that describe the same goods** (balance, usable quantity, lot, bin,
  asset, record, in-transit quantities). Correct: they agree when nobody is at
  work and nothing was cut short.
* **Stale pages**: a later save must not take back what another session saved.
* **Jobs** that save a record they read some time before.
* **One slot for an edit.** Change event, focus event, click and deferred click
  must bring each edit to the server, in order, once, although a locked page
  drops events and answers may be lost.
* **A stack of wait marks** pushed and popped by code that does not know of each
  other. Correct: never a mark with nothing to wait for, never a request without
  a mark, and the page is always freed in the end.
* **Fields rewritten by answers** while the user types.
* **Dialogs as regions of one array.** Correct: the register finds what is on
  display, whatever was opened, loaded and closed in which order.

`PROJECT.json` lists the hazards with their lines and properties.

## 2. Modules

```
Storeroom   out_storoom / in_storoom as operators          InventoryQty  derived quantities
    |   \________________________________                      |
    |                                    \                     |
Receipt  (extends Storeroom, InventoryQty; implements StockMove)
    |-- MCReceipt       instance and properties
    |-- ReceiptProofs   theorems; extended by ReceiptMoveProofs
    |-- ReceiptBooksProofs   theorems; extends ReceiptMoveProofs
MaterBorrow (extends Storeroom)
    |-- MCMaterBorrow   instance; that it meets the conditions of the theorems
    |-- MaterBorrowProofs, MaterBorrowGoodsProofs   theorems
EventMgr
    |-- MCEventMgr      instance
    |-- EventMgrProofs, EventMgrKeptProofs   theorems
ControlMgr
    |-- MCControlMgr    instance
    |-- ControlMgrProofs   theorems
```

### Storeroom

A save writes absolute values computed from what was read, rows are saved one
after the other, and an exception ends the sequence silently. `OutStoroom` and
`InStoroom` therefore take the stock as it is, the stock as it was read, and
`upto`, the number of saves that succeed: 1 the bin or lot, 2 also the
inventory row, 3 also the asset. Bin and lot rows are one per inventory row
(a line names one bin and one lot). The many nested conditions on slip type,
movement type and SXTYPE become `MovesUsable`, `InStatus`; faulty, pending and
in-test counters of a row are not kept.

### Receipt

The dialog `ZxTransferlineStatusDataBean` and all it calls. `pc[s]` is the
place of session s's request between two commits:

| Step | Action | Code |
|---|---|---|
| idle | `Open`, `Confirm`, `SavePage` | page, `execute()` 98-133, Save button |
| iface | `InsertIface` | 164-179, 362-376 |
| erp | `ErpPosts`, `ErpRefuses`, `ErpIsLost` | `MroToErp` 378-857 |
| status | `SetReceived`, `QueryThrows` | 180-202, on the page only |
| readOut, out | `ReadOut`, `OutStock` | `out_storoom`: query, then saves |
| outLedger | `OutLedger` | `out_invtrans` |
| readIn, in, inLedger | `ReadIn`, `InStock`, `InLedger` | `in_storoom`, `in_invtrans` |
| endpay, trade, tk | `EndPay`, `AddTrade`, `CreateTk` | `ADDENDPAYQTY`, `add_trade`, `CREATETKITEMREQ` |
| save, mr, mrclose | `Save`, `RollUpMr`, `CloseMr` | `ZxTransferAppBean.SAVE` |
| inv, recalc | `SumInv`, `RecalcInv` | SAVE 266-290, `InventoryQtyCommon` |

The constant `Failures` says which faults a run or a theorem allows: `crash`
(the request dies, its page is lost), `swallow` (an exception caught inside a
movement or record), `throws` (one passed on after the movement; the page stays
changed), `query` (one before the movement), `refuse`, `erplost`. A save of an
inventory row that has changed since it was read may succeed, which loses the
other update, or fail and be swallowed: the platform's behaviour there is not
in the repository, so both are allowed.

`moved` is a history variable: what each line changed in the balances;
`outdated` is one too: the last recomputation of the derived quantities wrote
what was no longer right. The code recomputes one quantity of one row after the
other, each with a query and a save; the model reads them all in one step
(`SumInv`) and writes them all in the next (`RecalcInv`), which keeps the race
between a recomputation and another request and leaves out the order within it.
`RollUpMr` and `CloseMr` read and save in one step.
The dialog's field flags, the texts and the serial number fields of ENDPAYQTY's
request line look-up are left out. The route of a line (`local`, `erp`,
`other`) stands for ERPLOC and the parents of the two storerooms. The final
test of TOERP (`status` still 未接收 after the save) can never hold, as the page
was set before; it is left out.

### StockMove

The promise: the goods of a line leave, then arrive in the same quantity, at
most what was packed. `Receipt!MovesAsPromised` states the refinement through
the history `moved`.

### MaterBorrow

One borrowing slip. `lend*` and `close*` are the loops of `StatusOk` and
`StatusClose`, two steps per call of `CommonInventory`; `change`, `asset`,
`out`, `in`, `save` are the return dialog. The reminder job holds the copy of
the slip it read (`cron`) until it saves.

A movement is a query of the rows (`Query`, which fills `seen`) and the saves
computed from it (`Out`, `In`): the lot, the inventory row, the asset, and last
the transaction record of `CommonAddInvtrans`. `CommonInventory` and
`CommonAddInvtrans` catch every `MroException`, print it and return, so any
number of these saves may succeed and the request goes on as if all had: `upto`
counts them, as in Storeroom. That happens with the fault `swallow`, and without
it whenever the row has changed since the query, where the save may also succeed
and overwrite the other update. The calls of `InventoryQtyCommon` at the end of
both procedures (158-161, 384-387) derive other columns of the row from the
balance; they are the subject of InventoryQty and left out here.

Faults: `crash`; `throws` (ADDASSET or the last save passes an exception on);
`query` (CHANGESTATUS marks the line on the page and its query throws: nothing has
moved, and a later save writes the line); `swallow`; and three which are the
user's or the engine's doing: `stalePage` (lines are added on a page older than
the submission), `mixed` (nothing in the dialog keeps an item with serial number
from coming back for one without, or the reverse; `execute()` has branches for
neither) and `routeTwice`. Approval and the two routes are the workflow engine's:
it runs StatusOk on a new slip and StatusClose on a rejected one, when nobody is
at work on it. Nothing in `ROUTEWF`, `StatusOk` or `StatusClose` tests either, and
the engine is not in the repository; with `routeTwice` any page that shows the
status may start them, also while another does.

`cut` remembers that goods or a mark on a page may not be what the request meant:
a request died, its page was dropped, a movement was swallowed in part or wholly,
or the query threw. After that no further fault happens (the bound that keeps
balances finite). A line has one piece, as `FldItemnum` sets it. A returned
serial number that is known and has a location becomes a second asset record
with the same number (the query of ADDASSET is for assets without a location);
assets here have one record per number, so such a number is not entered.

Bounds are named: `MaxLate` (0 in time, 1 after the promised date, 2 after the
renewed one), one cut request, one copy of the job.

### EventMgr

A burst of the script (one browser event, timer or answer, handled to its end)
is one action; the calls in it are operators on a record `page` of the globals:

| Action | Code |
|---|---|
| `Type`, `MousePress`, `Tab` | keystrokes; change event of the input left, focus event of the one entered (`MoveFocus`, `OnChange`, `OnFocus`) |
| `MouseClick` | click of a control, then `bodyClick` by bubbling |
| `ComboTimer`, `TitleTimer` | `onfocusInput` 10 ms or `onclickSelect` 100 ms later; `sortCol` 300 ms later |
| `ResetVal` | `resetVal` from the tip of a refused input |
| `Serve` | the server takes the edit or refuses it, and may compute a field |
| `Answered(oper)` | `success` (marks, `readResponse`) and `complete`; `LoadOptions`: a combobox that gets its options takes the focus |
| `Failed` | `error` and `complete` |
| `Refocus` | `refocus`, 200 ms after the end of a request |
| `Upload`, `TransferDone`, `FinishTransfer` | `uploadfile` or `uploadreportfile` with `sendSyncEvent`; the poll that sees the end; the mark taken off 500 ms later |
| `TransferFails` | a transfer whose end no poll will see: the branch of `uploadfile` that would take the mark off is commented out |
| `Unload` | the page that `changeapp` leaves, or that the user loads anew because a failed transfer covers it |

An edit is its number in the order the page learnt of it, which makes order and
loss visible; `edits`, `served`, `gone`, `snatched` are history. `page.request` is what the
browser holds of the request that is out. That change and focus events come with
the press of a button and the click with its release is the browser's doing; a wait mark lies over the page and stops the mouse, not the keyboard
(`skin/blue00/css/mro.css`). `Kind` tells text boxes and editable comboboxes,
in a form or in a table, apart. `habit` says what may happen besides careful use
of the mouse: `tab`, `transfer`, `fail`. Checkboxes and listboxes send at the
click and are like the button; the filter of a table that sends on Enter is
left out, and so is the session's time-out dialog. A synchronous request and its answer
are one step, as the browser does nothing else meanwhile.

`loadOptions` ends in `$input.focus()`. The answer may come when the user has
gone on to another input, and then the browser fires that input's change event:
its text goes into the slot although no click ended the edit, nothing sends it,
and the next edit replaces it. `snatched` holds the edits that ended that way.
They are the exception that `EditsKept` and `PageTruthful` name: the code does
lose them, and without the exception TLC shows it in the instance of the run
(press the combobox, press the text box before the 10 ms are over, type; the
options come; type in the combobox and click beside it).

Bounds: `MaxEdits` for each set of habits, `MaxTransfers`, `MaxRefocus`
(requests that end within 200 ms of each other; with 1 the next request may start
before the timer of the last one fires and meet it, but not end before).

### ControlMgr

The register `ctrls` is a sequence of entries; an object is the number of its
id's makings, so that a stale object can be told from the one on display
(`shown`). Actions are the operations an answer may ask for: `Open`
(`putDialog`), `Close` (`closeDialog`, which the server may send twice), `LoadPanel`
(`gwtab.loadData`, `table.loadDetails`), `RemoveGroup` (`gwtab.remove`,
`deletePortal`), `RebuildTree` (`replace`), and `Return` (the page is loaded anew
and reopens its dialogs). `Spliced` is the loop of `remove` as it is: it
skips the element after one it took out; `out` says which elements it takes, and
the rest keep their order. `worn` and `behind` remember
what the register cannot know: ids put twice, and ids put while a dialog was
open over their place, which then lie in that dialog's region. The server opens a
dialog once at a time. Layout (sizes, `resizes`) is left out. Bound: `MaxMade`
objects for an id between two loads of the page.

## 3. Runs

| Run | Instance | States | What it shows |
|---|---|---|---|
| `Receipt_faults` | 3 lines (serialised through the ERP, lot within a centre, customer part), 1 session, crash, throws, refuse, erplost | 300 000 | `AtMostOrdered`, `PostedBeforeMoved`, `SavedIsMoved`, `HeaderMeansAllLines`, `ClosedMeansArrived`, `BooksBalance` in spite of the faults |
| `Receipt_sessions` | 2 lines on the same inventory rows, 2 sessions with a line each, crash, query | 960 000 | no double receipt, no status ahead of its lines, nothing taken back, although updates of a row may be lost |
| `Receipt_fair` | 2 lines on different rows, 2 sessions, no faults, fairness | 31 000 | refinement of StockMove, tables and derived quantities agree (the latter unless their recomputation was overtaken), each movement is saved |
| `MaterBorrow_slip` | a serialised board and a lot, 2 windows with a line each, crash, throws, query, swallow, MaxLate 2 | 2 040 000 | statuses, goods, records agree; what is settled stays |
| `EventMgr` | a text box, a combobox of a form that answers may compute, a button, a title; five sets of habits | 940 000 | edits in order, once and, with the mouse, not lost unless options take the focus; marks accounted for and off in the end unless a transfer fails; fields truthful |
| `ControlMgr` | a tree, a tab group, three dialogs, one with a table with details | 370 000 | the register and the top dialog agree with what is on display |
| `Receipt_part`, `Receipt_twice`, `Receipt_header`, `Receipt_endpay`, `MaterBorrow_remind` | 1 or 2 lines, no faults | violated | five of the findings of `PROJECT.json` |
| `EventMgr_lost` | two text boxes, keyboard | violated | the sixth finding |

**Why the bounds are enough.** The code treats lines one by one and meets other
lines only in queries of the form "is there another line that ..."; two lines
show each outcome, three let one be finished, one half way and one untouched.
Quantities 1 and 2 tell whole, partial and twice apart. Two sessions are what
each race needs. Each kind of item and each route occurs in a line; the slip is
one from the centre to a site that belongs to a project request, which takes
every optional branch. The site has no row for the board and the fuse, so rows
are both created and updated.

In EventMgr the slot, the lock and the id to focus are single globals, so that two inputs meet
in every way that more could; each kind of control that calls `parseClick` in
its own way was tried with each other, and the run keeps the pair in which
one input asks for options and takes the focus with them; the kinds of a table
(`cell`, `cellcombo`) are in the theorems only. Two
edits per visit of the page are needed to overwrite or reorder one, three for
both. In ControlMgr three dialogs let one be closed below and above another;
each of two of them and the page has content that is loaded later.

`ControlMgr` finds that `StillReachable` is false without the exception for
`behind`: a tab of the page loaded while a dialog that does not lock the page
(`lock` false in its content) is open loses its controls when that dialog
is closed, and an answer no longer reaches them.

**Faults not combined.** `query` is not in `Receipt_faults`: the page is marked
received before the query that may throw, a later Save writes it, and then
`SavedIsMoved` is false. `swallow` is in no run: with it the tables need not
agree about anything, and what remains true is what `ReceivedOnce` proves.
That is about Receipt; `MaterBorrow_slip` has both `query` and `swallow`. There
`AllReturnedMeansAll` and `SettledIsFinal` hold with every fault of the run, while
`GoodsAccounted` and `LedgerExplainsBalance` speak of states in which nothing
was `cut` short: they say that a slip which meets no failure keeps its books,
whatever else goes on. Nothing repairs the books of one that does.
`stalePage`, `mixed` and `routeTwice` of MaterBorrow are in no run, since no
property of goods survives them; its type invariant is proved with them. They are
listed as hazards.

**Fairness.** `FairSpec` is weak fairness of `Serve(s)`: once the application
server has started a request its thread runs on, through code without waits or
locks. It contains the ERP's answer, so it assumes that the synchronous
call to the ERP returns; `Receipt_fair` is the run without failures. The user
is never assumed to do anything. `EventMgr!FairSpec` is weak fairness of each
timer of the page, of the release of a pressed button, of the answer or failure of
a request, and of the end or failure of a transfer: the browser fires its timers
and ends a request either way. A transfer has no such end: when the file or its
reply is lost `uploadfile` polls for ever, which is `TransferFails`. With it
`PageIsFreed` promises a free page only until a transfer fails; then the mark
stays until the user loads the page anew, which is not assumed to happen. No run turns deadlock checking off.

**Findings** (each a run that TLC ends with a counterexample):

1. `Receipt_part`: a line received in part can never be received further. The
   guard accepts 部分接收, but the ERPIFACE row of the first receipt stops it.
2. `Receipt_twice`: a line confirmed in two windows moves twice; the second
   test of ERPIFACE accepts the row the other request inserted.
3. `Receipt_header`: the last two lines received at once leave the slip in
   transit for ever, and its keeper is reminded to receive it.
4. `Receipt_endpay`: ENDPAYQTY grows by the packed, not the received quantity.
5. `MaterBorrow_remind`: the same write skew as 3 for returned parts, with the
   borrower being mailed.
6. `EventMgr_lost`: an edit registered while the page is locked is cleared with
   the event the locked page drops. The user sees a value the server never got.

## 4. Proofs

`ReceiptProofs` proves, for every set of lines, rooms, items and sessions,
every slip and every set of faults:

* `TypeCorrect`: `Spec => []TypeOK`. Lemmas `OutStoroomType` and
  `InStoroomType` show that the movement procedures return well-formed tables
  however many saves succeed. The inductive invariant adds `LineAtWork`: a
  request that is receiving has a line (the steps of SAVE may run without one).
* `ReceivedOnce`: `Spec => [](AtMostOrdered /\ PostedBeforeMoved)` **assuming
  `DisjointLines`**, that no line is open for receipt in two sessions. Finding 2
  shows that the assumption is needed. `PostedFirst` is its second half.

`AtMostOrdered` is not inductive: a step that adds to `moved[l]` keeps it only
if nothing was moved before. The strengthening `Once` says why nothing was:
`Untouched` (a line without a row in ERPIFACE has not been posted, moved or
recorded) and `Request(s)` (a request past the insertion has its row, its
quantity is at most the packed one, and each thing it has still to do is zero;
once past the ERP the posting covers its quantity). Only a request that owns
the line can change these (`OneReceiver`), and no crash, exception or lost
answer removes the row, so a retry stops at the guard.

It proves two more theorems about the pages, also assuming `DisjointLines`:

* `HeaderNotAhead`: `Spec => []HeaderMeansAllLines`.
* `ReceiptStays`: `Spec => ReceiptIsFinal`, an action property.

Both come from the inductive invariant `Pages`, checked by TLC on the instance
of `Receipt_sessions` before it was proved. Neither property is inductive: a
save writes what was put on a page long before. `Page(s)` says what a
page may hold: it is dirty only in the session's own lines; of those it is never
older than the database (`PageNotOlder`; nobody else saves them); a slip marked
received has each line received in the database or dirty and received on the
same page (`MarkedWithLines`), hence after the save; and a request that has not
yet set its line found it not received. The lemmas follow what an action does
with a page: nothing (`PagesKept`), reload (`PagesReload`), set the line
(`PagesSet`), save (`PagesSave`). The fault `query` is covered: a line set on
the page without a movement is wrong about goods, not about the slip.

`ReceiptMoveProofs` proves that the receipt does what StockMove promises and
that the saved line tells the truth about it, under assumptions that each
exclude a known way to fail:

* `PromiseKept`: `Spec => MovesAsPromised`, the refinement, **assuming
  `RowsApart`** (lines of different sessions share no inventory row; a shared
  row loses updates or refuses them) and **`NothingSwallowed`** (the fault `swallow` is excluded).
* `SavedIsTrue`: `Spec => []SavedIsMoved`, assuming in addition `QueryAnswers`
  (the fault `query` is excluded: it leaves a line received on the page with
  nothing moved).

The invariant `Underway` says that what a request has done it has done for the
whole quantity, and that the row it read is still as it was read, so that a save
can neither fail nor overwrite another's. `Saved` adds the pages: `Shown(s)`
says that a modified line of a page tells what was moved, recorded and posted,
except the one line whose movement is under way, which the database still has
as not received. Crashes, refusals, lost answers and exceptions after the
movement are covered.

`ReceiptBooksProofs` proves, under the same three assumptions,

* `ClosedArrived`: `Spec => []ClosedMeansArrived`; and, **assuming in addition
  `WellIssued`** (the lots and bins that lines name exist, and no two lines
  carry the same part), which TLC evaluates on the instance (`MCReceipt!Issued`),
* `BooksBalanced`: `Spec => []BooksBalance`.

Both are about sums over the lines of a slip. `SumFunctionOnSet` is a fold, and
the library's induction theorems cannot be used here, as they take an operator
as a parameter; but the inclusion of the subsets of a finite set is well
founded, so a claim about every subset is proved by looking at a smallest one
that refutes it (`SmallestSet`). That gives what sums obey: they are determined
by their summands (`SumEqual`), any element can be split off (`SumRemove`), one
change changes the sum by as much (`SumChange`), more elements and larger ones
do not make it smaller (`SumMore`).

`BooksBalance` speaks of states in which each line entered is also saved.
In between, the invariant `Books` says that each balance, usable quantity, lot
and bin is what it was plus what the lines of its row have moved, and each part
where its line has brought it; that the lots and bins are still there; and that
those a request is about to write are as it read them. `Followed` says what came
after the movement of each line: the trade row has its quantity and the return
has been created once, on every path to the save, unless an exception came
first. With `Saved` (a saved line tells what was moved) the books balance.
`Requested` says that a request line is received only when its lines have
arrived: `RollUpMr` counts the lines saved as received, which have moved
(`Saved`), and what has arrived only grows (`NothingGoesBack`).

`ReceiptProofs` also proves `TransitFollows` (`Spec => []TransitIsFresh`)
**assuming `RunsToTheEnd`** (no `crash`, no `throws`: a request that dies before
its recomputation leaves the quantities stale), for any sessions, lines and
rows, shared or not. The invariant `Transit`: rows that no line of the
slip touches are always fresh; and when no request is in a step of `Owing`,
between its first change of a balance and its last write, and the last
recomputation was not overtaken, all rows are. It holds because every request
recomputes every row of the slip, not only those it changed.

All theorems use `ReceiptAssumption` (the constants have the right shapes; a
line's storerooms differ; the issuing row exists; a serialised line is one
existing asset), which TLC evaluates in every Receipt run.

`EventMgrProofs` proves for every set of inputs of every kind, every set of
habits and every bound: `TypeCorrect`, `EditsInOrder` (`InOrder`),
`MarksAccounted` (`NoMarkLeft`) and `RequestCovered` (`BusyIsCovered`). The
inductive invariant `IInv` says where an edit can be: the value in the slot is
newer than the one in the request, which is newer than all that was served or
lost, unless the server has it already and only its answer is out; and the
request record, the lock and the marks go together. Each action is one lemma or
step; those that call `ParseClick` share lemmas on it.

`EventMgrKeptProofs` proves `NoEditLost` (`EditsKept`) from `KInv`: as long as
only the mouse is used and nothing is transferred, a changed value that is not in
`snatched` waits in the slot only while a button is down or the page is not
locked, so the `bodyClick` that ends the click, or the handler before it, sends it,
and no handler in between can register another. An answer with options may
register a change at any moment; that change is in `snatched`, and the slot it
goes into is empty then, as the page is locked (`AnsweredKept`).

It also proves `PageTellsTruth` (`PageTruthful`).
`TInv` says where a difference between page and server can be: an input without
an error mark shows what the server has, or is being typed in, or is the input
of the waiting or the sent change, or is in the refresh of an answer still out;
and the answer to a request with a change refreshes that change's input. The
first part is kept because no handler drops a change without putting another
place in charge of its input; `NoEditLost` supplies that for the slot.

`MaterBorrowProofs` proves for every slip, stock, set of lines and sessions and
every set of faults: `TypeCorrect` (`Spec => []TypeOK`); and, **assuming
`OneWindow`** (each line is returned from one window only, lines are edited on
fresh pages only) **and `OneRoute`** (the engine lends and closes the slip once,
with nobody at work: no fault `routeTwice`), `AllReturnedIsAll` (`Spec => []AllReturnedMeansAll`) and
`SettledStays` (`Spec => SettledIsFinal`). The statuses are written by saves of
pages read long before, so neither is inductive. `Statuses`, checked by TLC on
the instance of `MaterBorrow_slip` before it was proved, adds what makes a save
harmless: a page is modified only in lines of its own session which the
database does not know as returned (`PageMine`), and shows all returned only if
the lines it has not modified are returned (`PageHeader`); lending and closing
have the slip to themselves (`OneMover`), and before the one and after the
other no page is modified, no return is under way and the job does not hold
the slip (`EarlyIsQuiet`), so nobody can write to a closed slip. `SavedKeeps`
says what a save does; `SettledStep` goes through the actions once. The
theorems use `BorrowAssumption`, evaluated in both runs of MaterBorrow.

`MaterBorrowGoodsProofs` proves `LedgerExplained` (`Spec =>
[]LedgerExplainsBalance`) and `GoodsAreAccounted` (`Spec => []GoodsAccounted`),
for every slip, any number of lines and sessions and all faults these conditions
do not name, **assuming** `OneWindow`, `OneRoute` and

* `Stocked`: the lines were picked from rows of the storeroom, as the line
  dialog does, and a serialised line has an asset of its own there; the serial
  numbers of exchange parts are no assets yet;
* `RowsApart`: the lines with serial numbers are returned from one window and the
  others from one, and no part comes back for one of the other sort (`mixed`).
  What comes back may be any item of its sort, so this is what keeps two windows
  from moving the same row at once. Without it the code loses an update of
  CURBAL, and TLC finds that; it also finds that two windows which enter the
  same new serial number both pass the query of the dialog, so that the second
  `ADDASSET` returns no asset and its `ININVENTORY` records a movement that did
  not happen.

Both properties are about states where nothing was `cut` short. A swallowed
exception sets `cut` and is thereby outside of what they promise.

The four conditions are stated in `MaterBorrow`, and TLC evaluates them on the
instance of the runs (`MCMaterBorrow!Conditions`).

`GoodsAccounted` speaks of quiet states only, so the invariant `Goods` must say
where the goods are in every state between. It does so by four sets of lines,
one for each movement a line can have behind it: `LeftStore`, `InLoan`,
`LeftLoan` and `Back(i)` (as item i). They are defined from the statuses, the
pages and the steps of the requests, with no history variable: a line has left
the borrowing storeroom if it is marked returned, on a page or in the database,
unless its request has that movement still ahead. `RecordsCount` says that the
transaction records are the differences of the sets' cardinalities, `SeenNow` that
a request which has queried the rows of its movement still sees what they hold
(so that no save can fail or overwrite; this is where `RowsApart` is used),
`LedgerExplainsBalance` that the balances follow the records, which needs every
movement to find its row and its asset (`RowsExist`, `PartBack`,
`SerialsKept`), and `AssetsFollow` that a lent asset is in the borrowing
storeroom just while its line is in `InLoan \ LeftLoan`. `Stage` is the one
argument all movements share: a line enters one set as one piece moves
(`GoodsMove`); every other step leaves the sets alone, although it may move
marks from a page to the database (`SaveMarks`, `SetsStay`) or change the
status (`StartStep`, `EndStep`). In a quiet state the sets are what the slip
says (`QuietSets`). TLC checked `Goods` on three instances before it was
proved, one with two exchanged boards in one window.

`ControlMgrProofs` proves all four invariants of ControlMgr, for every page, any
dialogs and panels, and every bound: `TypesKept` (`Spec => []TypeOK`),
`FoundIsDisplayed` (`[]RegisterIsDisplay`), `AlwaysReachable`
(`[]StillReachable`) and `TopIsTop` (`[]TopDialogIsTop`). None is inductive: what
a closing takes out is decided by positions in the array, of which the four
properties do not speak. The inductive invariant `ControlInv` does, and TLC
checked its parts on the instance before it was proved:

* `Stacked`: the dialogs with an entry are the open ones, and their entries stand
  in the order they were opened in;
* `AtHome`: an entry of an id that was never loaded with a dialog over its place
  stands behind the entry of its own dialog with no other dialog in between, or
  in front of all dialogs if it belongs to the page;
* `Single`: an id that is not in a panel has at most one entry;
* `Told`: an id outside `worn` and `behind` has at most one entry, and that is of
  the object on display;
* `Reached`: an id on display outside `behind` has an entry;
* `Sound`: types, and the list of dialogs and their count are the server's stack.

The lemmas say what each call does with positions: `PutAll` adds behind all
others, `RemoveDialog` leaves what is in front of the dialog and what is behind
the next one (`Closed`), the loop of `remove` that meets one hit takes just that
one out (`SplicedOne`), which `Single` grants. By `AtHome` what a closing takes out
is the closed dialog's own content, or is in `behind`. `Return` is a recursive
function over the dialogs reopened; a page that breaks the invariant would have
a smallest prefix that breaks it, and opening one more dialog does not.

The only hypothesis is `ControlMgrAssumption` (each id belongs to one place and
occurs once in its content or panel), evaluated in the run. The proof showed one
conjunct of it to be missing: with `MaxMade` 0 the page cannot be loaded within
the bound, and `TypeOK` is false initially.

Model-checked only: `MovedIsSaved` and `PageIsFreed`, as liveness is out of the
prover's reach. Every other property of a passing run is
a theorem, under the assumptions named with it.

## 5. Not modelled, and why

* The workflow engine, the persistence platform and the ERP are not in the
  repository as source; their part in a request is an external action.
* Quantities SQZYQTY, test, faulty and pending enter KYQTY as constants (`Held`):
  other components change them.
* In MaterBorrow the columns InventoryQtyCommon derives after each movement, and a
  returned serial number that belongs to an asset at some location (see above).
* Negative and fractional quantities: the dialog refuses only zero and more
  than is left. A negative one reverses the movement; listed as a hazard.
* Master data, configuration, service and overhaul forms: data entry without
  interaction, or approval inside the workflow engine.
* Interface stubs, mail, Excel and file handling: input and output.
* The message boxes, links and wizards of `DomMgr`, and the rest of
  `control.js` (tables, trees, menus, dates, charts): they send clicks
  through `parseClick` as the modelled controls do, and otherwise draw.
* The pages (JSP) and the platform's Java side of a request are not in the
  repository.
* Nearly all JavaScript under `src/gwclient` is third-party code in source or
  built form (OpenLayers, ECharts, Highcharts, Ext, Dojo in `startcenter.js`,
  jQuery UI, CKEditor, draw2d, artDialog, zTree, the Oryx editor): more than
  700 000 lines of libraries, which this program does not change in its own
  logic. Its first-party JavaScript is about 7 500 lines in four files; the
  two modules above cover the parts with state. A large share of all lines
  is therefore neither reachable nor of use.

## 6. Plan

In order of importance:

1. **Slip lifecycle**: issue, rejection by the receiver, return and re-sending
   of a packing slip, with lines partly received (`ZxdStatusAction`,
   `ZxdAllStatusAction`, `ZxdReceiveNotBhActionListener`), composed with
   Receipt's statuses. Property: a rejected slip has no goods away; reserved
   and in-transit quantities follow. Needs the workflow definition and the
   SYS_ACTION rows that say when each action runs; neither is in the repository.
2. **Location conversion** (`ConvertloclineStatusDataBean`): ERP call per line,
   closing of the conversion.
3. **Return slips** (`JkTransferlineStatusDataBean`) and the part number change.
4. **Requests**: issue of requested material (`mprline`), splitting of request
   lines (`mrlinetransfer`), SQZYQTY as state instead of a constant.
5. **Disposition** (`wdr`), the asset lock and its clean-up job.

6. **Other controls**: row selection of tables (`beforeSelectRow` tests a
   row number that `selectRow` does not update) and radio buttons (`resetVal`
   reads a variable that is not declared), composed with EventMgr.
