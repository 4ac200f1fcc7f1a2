------------------------------ MODULE EventMgr ------------------------------
(***************************************************************************)
(* The event manager of a page of the web client: eventmgr.js, the input   *)
(* controls, wait marks and timers of control.js that call it, and the     *)
(* uploads and downloads that share its wait marks.                        *)
(*                                                                         *)
(* The script of a page runs in bursts: one event of the browser, one      *)
(* timer or one answer is handled to its end.  A burst is one action here; *)
(* the calls in it are operators from the globals of the script, a record  *)
(* p, to the globals after the call.  The server and the user are the      *)
(* environment.  Edits are numbered in the order the page learns of them,  *)
(* and the number of an edit stands for the text that was entered.         *)
(***************************************************************************)
EXTENDS Integers, Sequences, FiniteSets

CONSTANTS
    Inputs,        \* input controls of the page
    Derived,       \* inputs whose field a bean may compute
    Kind,          \* of an input: "text" and "combo", or "cell" and "cellcombo" in a table
    Button,        \* a pushbutton: answers a click at once
    Title,         \* a column title: answers a click after 300 ms
    NoCtrl,        \* the empty control id
    MaxTransfers,  \* bound: transfers and marks of ended ones, when another begins
    MaxRefocus,    \* bound: requests that end within 200 ms
    MaxEdits       \* bound: edits by the user, for each set of habits

ASSUME EventMgrAssumption ==
    /\ NoCtrl \notin Inputs \cup {Button, Title}
    /\ Inputs \cap {Button, Title} = {}
    /\ Button # Title
    /\ Derived \subseteq Inputs
    /\ Kind \in [Inputs -> {"text", "combo", "cell", "cellcombo"}]
    /\ MaxTransfers \in Nat /\ MaxRefocus \in Nat
    /\ DOMAIN MaxEdits \subseteq SUBSET {"tab", "transfer", "fail"}
    /\ \A h \in DOMAIN MaxEdits : MaxEdits[h] \in Nat

Ctrls == Inputs \cup {Button, Title}

\* What a server-side bean computes into a field the user did not edit.
Computed == -1

NoChange  == [id |-> NoCtrl, val |-> 0]
NoRequest == [event |-> "none", target |-> NoCtrl, chg |-> NoChange]
\* What an answer may do besides refreshing inputs.
Opers == {"update", "error", "download", "changeapp"}

NoAnswer  == [refresh |-> {NoCtrl}, refused |-> {}]

VARIABLES
    habit,      \* what may happen besides careful use of the mouse
    page,       \* globals: changed, isLocking, waitmarks, request, delayRefocusId
    shown,      \* text in each input
    bad,        \* inputs marked as refused (options.isOk = false)
    focus,      \* the focused input, or NoCtrl
    typed,      \* the focused input has keystrokes the page has not been told of
    pressed,    \* control under a mouse button that is still down, or NoCtrl
    timers,     \* controls with a deferred call
    refocusing, \* timers that put the focus back 200 ms after a request
    transfers,  \* uploads and downloads whose end is polled for
    hung,       \* those of them that failed: the poll never sees an end
    finishing,  \* wait marks about to be removed after a transfer
    leaving,    \* the answer changed the application, the browser loads another page
    answer,     \* answer of the server on its way, or NoAnswer
    stored,     \* value of each field on the server
    edits,      \* history: the inputs of the edits the page was told of
    served,     \* history: the edits that reached the server, in that order
    snatched,   \* history: edits the page was told of because options took the focus
    gone        \* history: edits lost with a failed request or an abandoned page

userVars   == <<shown, bad, focus, typed, pressed>>
transferVars == <<transfers, hung, finishing>>
timerVars  == <<timers, refocusing, transferVars>>
serverVars == <<answer, stored, served>>
histories  == <<edits, snatched, gone>>
vars == <<habit, page, userVars, timerVars, leaving, serverVars, histories>>

-----------------------------------------------------------------------------
(* The calls of a burst.                                                   *)

AddMark(p) == [p EXCEPT !.waitmarks = @ + 1]

\* Mutant: the stack of marks is a counter.
RemoveMark_count(p) == [p EXCEPT !.waitmarks = @ - 1]

\* Array.pop of an empty array does nothing.
RemoveMark(p) == [p EXCEPT !.waitmarks = IF @ = 0 THEN 0 ELSE @ - 1]

SetChangedCtrlVal(p, c, v) == [p EXCEPT !.changed = [id |-> c, val |-> v]]

ClearChangedCtrlVal(p) == [p EXCEPT !.changed = NoChange]

\* Mutant: the mark comes before the test of the lock.
SendEvent_mark(p, event, target) ==
    LET q == AddMark(p) IN
    IF p.isLocking
    THEN q
    ELSE [q EXCEPT !.isLocking = TRUE,
                   !.request = [event |-> event, target |-> target, chg |-> p.changed]]

\* Mutant: the request is not covered by a mark.
SendEvent_bare(p, event, target) ==
    IF p.isLocking
    THEN p
    ELSE [p EXCEPT !.isLocking = TRUE,
                   !.request = [event |-> event, target |-> target, chg |-> p.changed]]

\* A locked page drops the event; the caller is not told.
SendEvent(p, event, target) ==
    IF p.isLocking
    THEN p
    ELSE [AddMark(p) EXCEPT
            !.isLocking = TRUE,
            !.request = [event |-> event, target |-> target, chg |-> p.changed]]

\* Only a text box is ever focused again, so that other ids need not be told apart.
SetDelayRefocusId(p, c) ==
    [p EXCEPT !.delayRefocusId = IF c \in Inputs /\ Kind[c] \in {"text", "cell"} THEN c ELSE NoCtrl]

\* Mutant: the change is not cleared after it was sent.
ParseClick_keeps(p, c, isEffective, event) ==
    LET q == SetDelayRefocusId(p, c) IN
    IF isEffective THEN SendEvent(q, event, c)
    ELSE IF q.changed = NoChange THEN q ELSE SendEvent(q, "", NoCtrl)

ParseClick(p, c, isEffective, event) ==
    LET q == SetDelayRefocusId(p, c) IN
    IF isEffective
    THEN ClearChangedCtrlVal(SendEvent(q, event, c))
    ELSE IF q.changed = NoChange
         THEN q
         ELSE ClearChangedCtrlVal(SendEvent(q, "", NoCtrl))

\* Mutant: the test of the lock is inverted.
BodyClick_locked(p) ==
    IF p.isLocking /\ p.changed # NoChange THEN ParseClick(p, NoCtrl, FALSE, "") ELSE p

BodyClick(p) ==
    IF p.isLocking \/ p.changed = NoChange
    THEN p
    ELSE ParseClick(p, NoCtrl, FALSE, "")

\* The focus event of an input; a combobox only starts a timer.
OnFocus(p, c) ==
    IF c = p.changed.id \/ Kind[c] \in {"combo", "cellcombo"}
    THEN p
    ELSE ParseClick(p, c, Kind[c] = "cell", IF Kind[c] = "cell" THEN "onfocus" ELSE "")

FocusTimer(c) == IF c \in Inputs /\ Kind[c] \in {"combo", "cellcombo"} THEN {c} ELSE {}

\* An editable combobox asks for its options, in a table it does not.
ReloadOptions(p, c) ==
    IF c = p.changed.id \/ Kind[c] = "cellcombo"
    THEN p
    ELSE ParseClick(p, c, TRUE, "loadOptions")

\* The change event the browser fires when a typed-in input loses the focus.
OnChange(p) == IF typed THEN SetChangedCtrlVal(p, focus, shown[focus]) ELSE p

\* Mutant: only success removes the mark.
Complete_success(p, keepMark) == [p EXCEPT !.isLocking = FALSE, !.request = NoRequest]

\* The end of every request: sendEvent's and sendSyncEvent's complete.
Complete(p, keepMark) ==
    LET q == [p EXCEPT !.isLocking = FALSE, !.request = NoRequest] IN
    IF keepMark THEN q ELSE RemoveMark(q)

-----------------------------------------------------------------------------
(* The user.                                                               *)

\* A wait mark lies over the whole page: it stops the mouse, not the keyboard.
MouseWorks == page.waitmarks = 0 /\ pressed = NoCtrl

Type ==
    /\ focus \in Inputs /\ ~typed
    /\ pressed = NoCtrl \/ "tab" \in habit
    /\ Len(edits) < MaxEdits[habit]
    /\ shown' = [shown EXCEPT ![focus] = Len(edits) + 1]
    /\ typed' = TRUE
    /\ UNCHANGED <<habit, page, bad, focus, pressed, timerVars, leaving, serverVars, histories>>

\* The focus moves to c, an input or nothing: change event here, focus event there.
MoveFocus(c) ==
    /\ focus' = c
    /\ IF c = focus
       THEN UNCHANGED <<page, typed, edits, timers>>
       ELSE /\ page' = IF c \in Inputs THEN OnFocus(OnChange(page), c) ELSE OnChange(page)
            /\ typed' = FALSE
            /\ edits' = IF typed THEN Append(edits, focus) ELSE edits
            /\ timers' = timers \cup FocusTimer(c)

MousePress(c) ==
    /\ MouseWorks
    /\ pressed' = c
    /\ MoveFocus(IF c \in Inputs THEN c ELSE NoCtrl)
    /\ UNCHANGED <<habit, shown, bad, refocusing, transferVars, leaving,
                   serverVars, snatched, gone>>

\* The click bubbles from the control to the body.  If a wait mark has come up
\* since the button went down, only the body gets it.
MouseClick ==
    /\ pressed # NoCtrl
    /\ pressed' = NoCtrl
    /\ LET reached == page.waitmarks = 0 IN
       /\ page' = BodyClick(IF reached /\ pressed = Button
                            THEN ParseClick(page, Button, TRUE, "")
                            ELSE page)
       /\ timers' = timers \cup (IF reached /\ pressed = Title THEN {Title} ELSE {})
    /\ UNCHANGED <<habit, shown, bad, focus, typed, refocusing, transferVars, leaving,
                   serverVars, histories>>

Tab(c) ==
    /\ "tab" \in habit
    /\ MoveFocus(c)
    /\ UNCHANGED <<habit, shown, bad, pressed, refocusing, transferVars, leaving,
                   serverVars, snatched, gone>>

\* The reset button of the tip on a refused input: resetVal.
ResetVal(c) ==
    /\ MouseWorks
    /\ c \in bad
    /\ page' = ParseClick(OnChange(page), c, TRUE, "rollback")
    /\ focus' = NoCtrl
    /\ typed' = FALSE
    /\ edits' = IF typed THEN Append(edits, focus) ELSE edits
    /\ UNCHANGED <<habit, shown, bad, pressed, timerVars, leaving, serverVars, snatched, gone>>

-----------------------------------------------------------------------------
(* Timers of the page.                                                     *)

\* A combobox whose list is open does not load it again.
ComboTimer(c) ==
    /\ c \in timers
    /\ timers' = timers \ {c}
    /\ page' \in {page, ReloadOptions(page, c)}
    /\ UNCHANGED <<habit, userVars, refocusing, transferVars, leaving, serverVars, histories>>

TitleTimer ==
    /\ Title \in timers
    /\ timers' = timers \ {Title}
    /\ page' = ParseClick(page, Title, TRUE, "")
    /\ UNCHANGED <<habit, userVars, refocusing, transferVars, leaving, serverVars, histories>>

\* 200 ms after a request the script puts the focus back on the text box that
\* caused it.
Refocus ==
    /\ refocusing > 0
    /\ refocusing' = refocusing - 1
    /\ LET to == IF page.delayRefocusId = NoCtrl THEN focus ELSE page.delayRefocusId
           p  == IF to = focus THEN page ELSE OnFocus(OnChange(page), to)
       IN /\ page' = [p EXCEPT !.delayRefocusId = NoCtrl]
          /\ focus' = to
          /\ typed' = (typed /\ to = focus)
          /\ edits' = IF typed /\ to # focus THEN Append(edits, focus) ELSE edits
    /\ UNCHANGED <<habit, shown, bad, pressed, timers, transferVars, leaving,
                   serverVars, snatched, gone>>

\* The poll finds the transfer at its end.  Polls are sent every 200 ms without
\* waiting for the one before, so two of them may see the end.
TransferDone ==
    /\ transfers > hung
    /\ transfers' = transfers - 1
    /\ finishing' \in {finishing + 1, finishing + 2}
    /\ UNCHANGED <<habit, page, userVars, timers, refocusing, hung, leaving, serverVars, histories>>

\* The file or its reply is lost: the poll waits for a word that never comes, and
\* the branch that would take the mark off is commented out.
TransferFails ==
    /\ "fail" \in habit
    /\ transfers > hung
    /\ hung' = hung + 1
    /\ UNCHANGED <<habit, page, userVars, timers, refocusing, transfers, finishing, leaving,
                   serverVars, histories>>

FinishTransfer ==
    /\ finishing > 0
    /\ finishing' = finishing - 1
    /\ page' = RemoveMark(page)
    /\ UNCHANGED <<habit, userVars, timers, refocusing, transfers, hung, leaving,
                   serverVars, histories>>

-----------------------------------------------------------------------------
(* The server, and the way to it.                                          *)

\* What the server does with the edit of a request: it stores the value or refuses it.
Take(chg, ok) ==
    /\ stored' = IF chg # NoChange /\ ok THEN [stored EXCEPT ![chg.id] = chg.val] ELSE stored
    /\ served' = IF chg # NoChange THEN Append(served, chg.val) ELSE served

\* An asynchronous request is handled.  The answer refreshes the edited input and
\* any field a bean computed.
Serve ==
    /\ page.request # NoRequest /\ answer = NoAnswer /\ ~leaving
    /\ LET chg  == page.request.chg
           back == IF page.request.event = "rollback" THEN {page.request.target} ELSE {}
       IN \E ok \in IF chg = NoChange THEN {TRUE} ELSE BOOLEAN,
             also \in {{}} \cup {{c} : c \in Derived \ {chg.id}} :
            /\ stored' = LET s == IF chg # NoChange /\ ok
                                 THEN [stored EXCEPT ![chg.id] = chg.val]
                                 ELSE stored
                         IN [c \in Inputs |-> IF c \in also THEN Computed ELSE s[c]]
            /\ served' = IF chg # NoChange THEN Append(served, chg.val) ELSE served
            /\ answer' = [refresh |-> (also \cup back \cup {chg.id}) \ {NoCtrl},
                          refused |-> IF ok THEN {} ELSE {chg.id}]
    /\ UNCHANGED <<habit, page, userVars, timerVars, leaving, histories>>

\* Mutant: a refused text is shown without the mark of an error.
ReadResponse_unmarked ==
    /\ shown' = [c \in Inputs |->
                    IF c \in answer.refused THEN page.request.chg.val
                    ELSE IF c \in answer.refresh THEN stored[c] ELSE shown[c]]
    /\ bad' = bad \ answer.refresh

\* loadData of every refreshed input: the value of the server, or the refused text
\* with the mark of an error.
ReadResponse ==
    /\ shown' = [c \in Inputs |->
                    IF c \in answer.refused THEN page.request.chg.val
                    ELSE IF c \in answer.refresh THEN stored[c] ELSE shown[c]]
    /\ bad' = (bad \ answer.refresh) \cup answer.refused

\* The combobox whose options the answer may hold.
Asking == IF page.request.event = "loadOptions" THEN {page.request.target} ELSE {}

\* The focus after an answer with the options of c, or of no combobox.  loadOptions
\* focuses c, and the list it opens may take the focus on.  If the input that had it
\* holds keystrokes of which the page was not told, it is told now, unless loadData
\* has overwritten them before.
LoadOptions(c, to, told) ==
    /\ to \in IF c = NoCtrl THEN {focus} ELSE {c, NoCtrl}
    /\ told \in IF to = focus THEN {FALSE} ELSE {typed, typed /\ focus \notin answer.refresh}
    /\ focus' = to
    /\ typed' = (typed /\ to = focus /\ focus \notin answer.refresh)
    /\ timers' = timers \cup FocusTimer(c)
    /\ edits' = IF told THEN Append(edits, focus) ELSE edits
    /\ snatched' = IF told THEN snatched \cup {shown[focus]} ELSE snatched

\* success and complete of sendEvent, one after the other.  The answer may also
\* open an error box, start a download or change the application.
Answered(oper) ==
    /\ answer # NoAnswer /\ refocusing < MaxRefocus
    /\ oper = "download" => "transfer" \in habit /\ transfers + finishing < MaxTransfers
    /\ ReadResponse
    /\ \E c \in {NoCtrl} \cup Asking, to \in Inputs \cup {NoCtrl}, told \in BOOLEAN :
        /\ LoadOptions(c, to, told)
        /\ LET q == IF told THEN OnChange(page) ELSE page
               p == CASE oper = "error"     -> RemoveMark(RemoveMark(q))
                      [] oper = "download"  -> AddMark(RemoveMark(q))
                      [] oper = "changeapp" -> q
                      [] OTHER              -> RemoveMark(q)
           IN page' = Complete(p, oper = "changeapp")
    /\ leaving' = (leaving \/ oper = "changeapp")
    /\ transfers' = transfers + (IF oper = "download" THEN 1 ELSE 0)
    /\ refocusing' = refocusing + 1
    /\ answer' = NoAnswer
    /\ UNCHANGED <<habit, pressed, hung, finishing, stored, served, gone>>

\* error and complete: the request or its answer was lost.
Failed ==
    /\ "fail" \in habit
    /\ page.request # NoRequest /\ refocusing < MaxRefocus
    /\ page' = Complete(page, FALSE)
    /\ answer' = NoAnswer
    /\ refocusing' = refocusing + 1
    /\ gone' = gone \cup ({page.request.chg.val} \ {0})
    /\ UNCHANGED <<habit, userVars, timers, transferVars, leaving, stored, served,
                   edits, snatched>>

\* uploadfile: a pending edit goes out in a synchronous request, whose answer is
\* not read; then the file is sent and its end is polled for.  uploadreportfile is
\* the same, but takes the first word of the poll for the end.
Upload ==
    /\ "transfer" \in habit /\ MouseWorks /\ refocusing < MaxRefocus
    /\ transfers + finishing < MaxTransfers
    /\ LET p == OnChange(page) IN
       /\ page' = AddMark(IF p.changed = NoChange THEN p
                          ELSE ClearChangedCtrlVal(
                                 IF p.isLocking THEN [p EXCEPT !.delayRefocusId = NoCtrl]
                                 ELSE Complete([RemoveMark(AddMark(p)) EXCEPT
                                                  !.delayRefocusId = NoCtrl], FALSE)))
       /\ refocusing' = refocusing + (IF p.changed # NoChange /\ ~p.isLocking THEN 1 ELSE 0)
       /\ \/ /\ p.changed # NoChange /\ ~p.isLocking
             /\ \E ok \in BOOLEAN : Take(p.changed, ok)
             /\ UNCHANGED gone
          \/ /\ p.changed # NoChange /\ ~p.isLocking /\ "fail" \in habit
             /\ gone' = gone \cup {p.changed.val}
             /\ UNCHANGED <<stored, served>>
          \/ /\ p.changed = NoChange \/ p.isLocking
             /\ UNCHANGED <<stored, served, gone>>
    /\ transfers' = transfers + 1
    /\ focus' = NoCtrl
    /\ typed' = FALSE
    /\ edits' = IF typed THEN Append(edits, focus) ELSE edits
    /\ UNCHANGED <<habit, shown, bad, pressed, timers, hung, finishing, leaving, answer, snatched>>

\* The browser loads the page of the other application, or the user loads a page
\* anew that a failed transfer covers; what was under way stops.
Unload ==
    /\ leaving \/ (hung > 0 /\ page.request = NoRequest)
    /\ page' = [changed |-> NoChange, isLocking |-> FALSE, waitmarks |-> 0,
                request |-> NoRequest, delayRefocusId |-> NoCtrl]
    /\ gone' = gone \cup ({page.changed.val, page.request.chg.val} \ {0})
    /\ shown' = stored
    /\ bad' = {} /\ focus' = NoCtrl /\ typed' = FALSE /\ pressed' = NoCtrl
    /\ timers' = {} /\ refocusing' = 0 /\ transfers' = 0 /\ hung' = 0 /\ finishing' = 0
    /\ leaving' = FALSE
    /\ answer' = NoAnswer
    /\ UNCHANGED <<habit, stored, served, edits, snatched>>

-----------------------------------------------------------------------------

Init ==
    /\ habit \in DOMAIN MaxEdits
    /\ page = [changed |-> NoChange, isLocking |-> FALSE, waitmarks |-> 0,
               request |-> NoRequest, delayRefocusId |-> NoCtrl]
    /\ shown = [c \in Inputs |-> 0]
    /\ stored = [c \in Inputs |-> 0]
    /\ bad = {} /\ focus = NoCtrl /\ typed = FALSE /\ pressed = NoCtrl
    /\ timers = {} /\ refocusing = 0 /\ transfers = 0 /\ hung = 0 /\ finishing = 0
    /\ leaving = FALSE
    /\ answer = NoAnswer
    /\ edits = <<>> /\ served = <<>> /\ snatched = {} /\ gone = {}

Next ==
    \/ Type
    \/ \E c \in Ctrls : MousePress(c)
    \/ MouseClick
    \/ \E c \in Inputs : Tab(c)
    \/ \E c \in Inputs : ResetVal(c)
    \/ \E c \in Inputs : ComboTimer(c)
    \/ TitleTimer
    \/ Refocus
    \/ TransferDone
    \/ TransferFails
    \/ FinishTransfer
    \/ Serve
    \/ \E oper \in Opers : Answered(oper)
    \/ Failed
    \/ Upload
    \/ Unload

Spec == Init /\ [][Next]_vars

\* Timers fire, a button that is down comes up, a request is answered or fails, and
\* a transfer comes to its end or fails for good.
FairSpec ==
    /\ Spec
    /\ WF_vars(MouseClick)
    /\ \A c \in Inputs : WF_vars(ComboTimer(c))
    /\ WF_vars(TitleTimer) /\ WF_vars(Refocus)
    /\ WF_vars(TransferDone \/ TransferFails) /\ WF_vars(FinishTransfer)
    /\ WF_vars(Serve) /\ WF_vars(Failed \/ \E oper \in Opers : Answered(oper))
    /\ WF_vars(leaving /\ Unload)

-----------------------------------------------------------------------------
(* Properties.                                                             *)

Edit    == Nat \ {0}
Changes == [id : Inputs, val : Edit] \cup {NoChange}
Events  == {"", "onfocus", "loadOptions", "rollback"}

Requests ==
    {NoRequest} \cup
    {r \in [event : Events, target : Ctrls \cup {NoCtrl}, chg : Changes] :
        r.event \in {"rollback", "loadOptions"} => r.target \in Inputs}

Pages == [changed : Changes, isLocking : BOOLEAN, waitmarks : Nat, request : Requests,
          delayRefocusId : Inputs \cup {NoCtrl}]

TypeOK ==
    /\ habit \in DOMAIN MaxEdits
    /\ page \in Pages
    /\ shown \in [Inputs -> Nat \cup {Computed}]
    /\ stored \in [Inputs -> Nat \cup {Computed}]
    /\ bad \subseteq Inputs
    /\ focus \in Inputs \cup {NoCtrl}
    /\ typed \in BOOLEAN /\ (typed => focus # NoCtrl)
    /\ pressed \in Ctrls \cup {NoCtrl}
    /\ timers \subseteq Inputs \cup {Title}
    /\ leaving \in BOOLEAN
    /\ refocusing \in Nat /\ transfers \in Nat /\ hung \in 0 .. transfers /\ finishing \in Nat
    /\ answer \in [refresh : SUBSET Inputs, refused : SUBSET Inputs] \cup {NoAnswer}
    /\ edits \in Seq(Inputs)
    /\ served \in Seq(Edit)
    /\ snatched \subseteq Edit /\ gone \subseteq Edit

\* One request at a time: however blurs, clicks, timers and lost answers fall
\* together, the server is told of the edits in the order in which they were made
\* and of none of them twice, though nothing numbers or acknowledges them.
InOrder == \A i, j \in DOMAIN served : i < j => served[i] < served[j]

\* A wait mark on the page stands for a request or a transfer that is under way:
\* success and complete, error boxes, downloads and two polls that see the same
\* end push and pop marks of one stack without knowing whose they are, and still
\* never leave the page covered with nothing to wait for.
NoMarkLeft ==
    page.waitmarks <= (IF page.isLocking THEN 1 ELSE 0) + (IF leaving THEN 1 ELSE 0)
                      + transfers + finishing

\* As long as no file is transferred the page is covered while a request is out,
\* although every answer pops the stack two or three times.
BusyIsCovered == "transfer" \notin habit /\ page.isLocking => page.waitmarks >= 1

\* What became of the n-th edit: it reached the server, is on its way, waits, or a
\* later edit of the same input replaced it.
Kept(n) ==
    \/ n \in {served[i] : i \in DOMAIN served}
    \/ n \in {page.request.chg.val, page.changed.val}
    \/ \E m \in n + 1 .. Len(edits) : edits[m] = edits[n]

\* The single slot for a changed value loses no edit of a user who only uses the
\* mouse, while no file is transferred: the click that takes the focus away also
\* sends the edit off, before any other input can take its place.  The one exception
\* is an edit that no click ended, because the options of a combobox came in and took
\* the focus: it lies in the slot with no button down, and the next edit replaces it.
EditsKept ==
    habit \cap {"tab", "transfer"} = {} =>
        \A n \in DOMAIN edits : Kept(n) \/ n \in gone \cup snatched

\* When the page is at rest, every field without the mark of an error shows what
\* the server has, or an edit that ended because options took the focus.
PageTruthful ==
    habit = {} /\ page.request = NoRequest /\ page.changed = NoChange /\ ~typed
        => \A c \in Inputs \ bad : shown[c] = stored[c] \/ shown[c] \in snatched

\* The comment of setChangedCtrlVal: a change is cleared when it was accepted.
ClearedWhenAccepted == \A n \in DOMAIN edits : Kept(n) \/ n \in gone

\* The page is free again, always, also when answers are lost, until a transfer fails:
\* its mark stays.
PageIsFreed == []<>(page.waitmarks = 0 \/ hung > 0)
=============================================================================
