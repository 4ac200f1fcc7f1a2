------------------------- MODULE EventMgrKeptProofs -------------------------
(***************************************************************************)
(* Proofs of EditsKept and PageTruthful: why one slot for a changed value  *)
(* is enough for a user who only uses the mouse while no file is           *)
(* transferred, and why a page at rest then shows what the server has.     *)
(***************************************************************************)
EXTENDS EventMgrProofs

Careful == habit \cap {"tab", "transfer"} = {}

\* Each of the first n edits is with the page or the server, known to be lost, or
\* was ended by options that took the focus.
Accounted(p, n) ==
    \A k \in 1..n :
        \/ k \in gone \cup snatched
        \/ k = p.changed.val \/ k = p.request.chg.val
        \/ \E i \in DOMAIN served : served[i] = k

\* A pending change waits on a page that is not locked; a request under way puts the
\* focus back where it is, if anywhere.
Waiting(p) ==
    /\ p.isLocking => p.changed = NoChange
    /\ p.delayRefocusId # NoCtrl => Kind[p.delayRefocusId] \in {"text", "cell"}

KInv ==
    Careful =>
        /\ Accounted(page, Len(edits))
        /\ Waiting(page)
        /\ page.changed # NoChange => \/ pressed # NoCtrl /\ ~typed
                                      \/ page.changed.val \in snatched
        /\ page.isLocking /\ focus # NoCtrl => page.delayRefocusId \in {NoCtrl, focus}
        /\ answer # NoAnswer /\ page.request.chg # NoChange
               => \E i \in DOMAIN served : served[i] = page.request.chg.val
        /\ \A c \in timers \cap Inputs : Kind[c] \in {"combo", "cellcombo"}

-----------------------------------------------------------------------------

LEMMA BurstAccounts ==
    ASSUME IInv, NEW n \in Nat, NEW p \in Pages, NEW q, Burst(p, q),
           p.isLocking <=> p.request # NoRequest,
           p.isLocking => p.changed = NoChange, Accounted(p, n)
    PROVE  /\ Accounted(q, n)
           /\ q.isLocking => q.changed = NoChange
           /\ p.isLocking \/ q.isLocking \/ q.changed = p.changed
<1>1. NoRequest.chg.val = 0
  BY DEF NoRequest, NoChange
<1>2. CASE q.request = p.request /\ q.changed = p.changed
  BY <1>2 DEF Accounted, Burst
<1>3. CASE ~p.isLocking /\ q.request.chg = p.changed
  BY <1>1, <1>3 DEF Accounted, Burst
<1> QED
  BY <1>2, <1>3 DEF Burst

\* The step is a burst on top of p, the globals after a change event.
LEMMA BurstOnTop ==
    ASSUME IInv, Careful, NEW p \in Pages, OrderInv(p, Len(edits')), Len(edits') \in Nat,
           Accounted(p, Len(edits')), p.isLocking => p.changed = NoChange,
           Burst(p, page'), UNCHANGED <<served, snatched, gone>>
    PROVE  /\ Accounted(page, Len(edits))'
           /\ page'.isLocking => page'.changed = NoChange
           /\ p.isLocking \/ page'.isLocking \/ page'.changed = p.changed
<1>1. p.isLocking <=> p.request # NoRequest
  BY DEF OrderInv
<1>2. /\ Accounted(page', Len(edits'))
      /\ page'.isLocking => page'.changed = NoChange
      /\ p.isLocking \/ page'.isLocking \/ page'.changed = p.changed
  BY <1>1, BurstAccounts
<1> QED
  BY <1>2 DEF Accounted

\* A change event on a page without a pending change, or with a snatched one.
LEMMA OnChangeAccounts ==
    ASSUME IInv, Accounted(page, Len(edits)),
           page.changed = NoChange \/ ~typed \/ page.changed.val \in snatched
    PROVE  /\ Accounted(OnChange(page), Len(ToldEdits))
           /\ typed => OnChange(page).changed.id = focus
           /\ ~typed => OnChange(page) = page
<1>1. CASE ~typed
  BY <1>1 DEF OnChange, ToldEdits
<1>2. CASE typed
  <2>1. focus \in Inputs /\ shown[focus] = Len(edits) + 1 /\ Len(edits) \in Nat
    BY <1>2 DEF IInv, TypeOK, RestInv
  <2>2. Len(ToldEdits) = Len(edits) + 1
    BY <1>2, <2>1 DEF ToldEdits, IInv, TypeOK
  <2>3. /\ OnChange(page).changed = [id |-> focus, val |-> Len(edits) + 1]
        /\ OnChange(page).request = page.request
    BY <1>2, <2>1 DEF OnChange, SetChangedCtrlVal, IInv, TypeOK, Pages
  <2>4. page.changed.val \in snatched \cup {0}
    BY <1>2 DEF NoChange
  <2> QED
    BY <1>2, <2>1, <2>2, <2>3, <2>4 DEF Accounted
<1> QED
  BY <1>1, <1>2

\* Without transfers, a page the mouse can reach is not locked.
LEMMA MouseFree ==
    ASSUME IInv, Careful, page.waitmarks = 0
    PROVE  ~page.isLocking /\ page.request = NoRequest
BY DEF IInv, PageInv, MarkInv, OrderInv, Careful

LEMMA MousePressKept == \A c \in Ctrls : IInv /\ KInv /\ MousePress(c) => KInv'
<1> SUFFICES ASSUME NEW c \in Ctrls, IInv, KInv, MousePress(c), Careful
             PROVE  KInv'
  BY DEF KInv, Careful, MousePress
<1> DEFINE to == IF c \in Inputs THEN c ELSE NoCtrl
<1>1. /\ pressed = NoCtrl /\ page.waitmarks = 0 /\ pressed' = c
      /\ MoveFocus(to)
      /\ UNCHANGED <<habit, answer, stored, served, snatched, gone>>
  BY DEF MousePress, MouseWorks, serverVars
<1>2. /\ ~page.isLocking /\ page.request = NoRequest
      /\ page.changed # NoChange => page.changed.val \in snatched
      /\ Accounted(page, Len(edits))
  BY <1>1, MouseFree DEF KInv
<1>3. answer' = NoAnswer
  BY <1>1, <1>2 DEF IInv, PageInv, OrderInv
<1>4. c # NoCtrl /\ focus' = to /\ Len(edits) \in Nat
  BY <1>1, EventMgrAssumption DEF Ctrls, MoveFocus, IInv, TypeOK
<1>5. CASE to = focus
  <2>1. UNCHANGED <<page, typed, edits, timers>>
    BY <1>1, <1>5 DEF MoveFocus
  <2> QED
    BY <1>1, <1>2, <1>3, <1>4, <1>5, <2>1 DEF KInv, Careful, Accounted, Waiting
<1>6. CASE to # focus
  <2> DEFINE p == OnChange(page)
  <2>1. /\ p \in Pages /\ OrderInv(p, Len(ToldEdits)) /\ Len(ToldEdits) \in Nat
        /\ ~p.isLocking /\ p.delayRefocusId = page.delayRefocusId
    BY <1>2, OnChangeKeeps DEF PageInv
  <2>2. Accounted(p, Len(ToldEdits))
    BY <1>2, OnChangeAccounts
  <2>3. /\ edits' = ToldEdits /\ typed' = FALSE /\ timers' = timers \cup FocusTimer(to)
        /\ page' = IF to \in Inputs THEN OnFocus(p, to) ELSE p
    BY <1>1, <1>6 DEF MoveFocus, ToldEdits
  <2> HIDE DEF p
  <2>4. /\ Burst(p, page')
        /\ page' = p \/ page'.delayRefocusId = DelayOf(to)
    BY <2>1, <2>3, OnFocusBurst, BurstRefl
  <2>5. /\ Accounted(page, Len(edits))'
        /\ page'.isLocking => page'.changed = NoChange
    BY <1>1, <2>1, <2>2, <2>3, <2>4, BurstOnTop
  <2>6. \A i \in timers' \cap Inputs : Kind[i] \in {"combo", "cellcombo"}
    BY <2>3 DEF FocusTimer, KInv
  <2>7. /\ Waiting(page)'
        /\ page'.isLocking /\ focus' # NoCtrl => page'.delayRefocusId \in {NoCtrl, focus'}
    BY <1>4, <2>1, <2>4, <2>5 DEF Waiting, DelayOf, KInv
  <2> QED
    BY <1>1, <1>3, <1>4, <2>3, <2>5, <2>6, <2>7 DEF KInv
<1> QED
  BY <1>5, <1>6

LEMMA MouseClickKept == IInv /\ KInv /\ MouseClick => KInv'
<1> SUFFICES ASSUME IInv, KInv, MouseClick, Careful PROVE KInv'
  BY DEF KInv, Careful, MouseClick
<1> DEFINE p == IF page.waitmarks = 0 /\ pressed = Button
                THEN ParseClick(page, Button, TRUE, "") ELSE page
<1>1. /\ page \in Pages /\ Len(edits) \in Nat /\ OrderInv(page, Len(edits))
      /\ page' = BodyClick(p) /\ timers' \subseteq timers \cup {Title}
      /\ UNCHANGED <<habit, focus, typed, answer, stored, served, histories>>
  <2>1. page' = BodyClick(p) /\ timers' \subseteq timers \cup {Title}
    BY DEF MouseClick
  <2>2. UNCHANGED <<habit, focus, typed, answer, stored, served, histories>>
    BY DEF MouseClick, serverVars, histories
  <2> HIDE DEF p
  <2> QED
    BY <2>1, <2>2 DEF IInv, TypeOK, PageInv
<1>2. /\ "" \in Events /\ Button \in Ctrls \cup {NoCtrl}
      /\ DelayOf(Button) = NoCtrl
  BY EventMgrAssumption DEF Events, Ctrls, DelayOf
<1>3. /\ p \in Pages /\ Burst(page, p)
      /\ p = page \/ (p.changed = NoChange /\ p.delayRefocusId = NoCtrl)
  <2>1. LET q == ParseClick(page, Button, TRUE, "") IN
        Burst(page, q) /\ q.changed = NoChange /\ q.delayRefocusId = NoCtrl
    BY <1>1, <1>2, ParseClickBurst
  <2>2. CASE page.waitmarks = 0 /\ pressed = Button
    BY <2>1, <2>2 DEF Burst
  <2>3. CASE ~(page.waitmarks = 0 /\ pressed = Button)
    <3>1. p = page
      BY <2>3
    <3>2. Burst(page, page) /\ page \in Pages
      BY <1>1, BurstRefl
    <3> HIDE DEF p
    <3> QED
      BY <3>1, <3>2
  <2> QED
    BY <2>2, <2>3
<1> HIDE DEF p
<1>4. /\ Burst(p, page') /\ page' \in Pages
      /\ \/ page' = p /\ (p.isLocking \/ p.changed = NoChange)
         \/ page'.changed = NoChange /\ page'.delayRefocusId = NoCtrl
  BY <1>1, <1>3, BodyClickBurst DEF Burst
<1>5. Burst(page, page')
  BY <1>1, <1>3, <1>4, BurstTrans
<1>6. /\ Accounted(page, Len(edits))'
      /\ page'.isLocking => page'.changed = NoChange
  BY <1>1, <1>5, BurstOnTop DEF KInv, Waiting, histories
<1>7. page'.changed = NoChange
  BY <1>1, <1>3, <1>4, <1>6 DEF KInv, Waiting
<1>8. page' = page \/ page'.delayRefocusId = NoCtrl
  BY <1>3, <1>4
<1>9. Title \notin Inputs
  BY EventMgrAssumption
<1>10. answer' # NoAnswer /\ page'.request.chg # NoChange
          => \E i \in DOMAIN served' : served'[i] = page'.request.chg.val
  <2>1. answer # NoAnswer => page.isLocking
    BY <1>1 DEF OrderInv
  <2> QED
    BY <1>1, <1>5, <2>1 DEF KInv, Burst
<1> QED
  BY <1>1, <1>6, <1>7, <1>8, <1>9, <1>10 DEF KInv, Waiting

LEMMA TypeKept == IInv /\ KInv /\ Type => KInv'
<1> SUFFICES ASSUME IInv, KInv, Type, Careful PROVE KInv'
  BY DEF KInv, Careful, Type
<1>1. /\ pressed = NoCtrl
      /\ UNCHANGED <<habit, page, focus, pressed, timers, answer, served, histories>>
  BY DEF Type, Careful, timerVars, serverVars
<1> QED
  BY <1>1 DEF KInv, Careful, Accounted, Waiting, histories

LEMMA ResetValKept == \A c \in Inputs : IInv /\ KInv /\ ResetVal(c) => KInv'
<1> SUFFICES ASSUME NEW c \in Inputs, IInv, KInv, ResetVal(c), Careful PROVE KInv'
  BY DEF KInv, Careful, ResetVal
<1> DEFINE p == OnChange(page)
<1>1. /\ page.waitmarks = 0 /\ pressed = NoCtrl /\ focus' = NoCtrl /\ typed' = FALSE
      /\ page' = ParseClick(p, c, TRUE, "rollback") /\ edits' = ToldEdits
      /\ UNCHANGED <<habit, pressed, timers, answer, stored, served, snatched, gone>>
  BY DEF ResetVal, MouseWorks, ToldEdits, serverVars, timerVars
<1>2. /\ ~page.isLocking /\ page.request = NoRequest
      /\ page.changed # NoChange => page.changed.val \in snatched
      /\ Accounted(page, Len(edits)) /\ answer = NoAnswer
  BY <1>1, MouseFree DEF KInv, IInv, PageInv, OrderInv
<1>3. /\ p \in Pages /\ OrderInv(p, Len(ToldEdits)) /\ Len(ToldEdits) \in Nat /\ ~p.isLocking
  BY <1>2, OnChangeKeeps DEF PageInv
<1>4. Accounted(p, Len(ToldEdits))
  BY <1>2, OnChangeAccounts
<1> HIDE DEF p
<1>5. c \in Ctrls \cup {NoCtrl} /\ "rollback" \in Events
  BY DEF Ctrls, Events
<1>6. Burst(p, page') /\ page'.changed = NoChange /\ page'.delayRefocusId = DelayOf(c)
  BY <1>1, <1>3, <1>5, ParseClickBurst
<1>7. Accounted(page, Len(edits))'
  BY <1>1, <1>3, <1>4, <1>6, BurstOnTop
<1> QED
  BY <1>1, <1>2, <1>6, <1>7 DEF KInv, Waiting, DelayOf

\* A timer that runs parseClick for a control which is no text box, or does nothing.
LEMMA TimersKept == IInv /\ KInv /\ (TitleTimer \/ \E c \in Inputs : ComboTimer(c)) => KInv'
<1> SUFFICES ASSUME IInv, KInv, Careful, TitleTimer \/ \E c \in Inputs : ComboTimer(c)
             PROVE  KInv'
  BY DEF KInv, Careful, TitleTimer, ComboTimer
<1>1. /\ page \in Pages /\ Len(edits) \in Nat /\ OrderInv(page, Len(edits))
      /\ "" \in Events /\ Title \in Ctrls \cup {NoCtrl} /\ DelayOf(Title) = NoCtrl
  BY EventMgrAssumption DEF IInv, TypeOK, PageInv, Events, Ctrls, DelayOf
<1>2. /\ timers' \subseteq timers
      /\ UNCHANGED <<habit, focus, typed, pressed, answer, stored, served, histories>>
  BY DEF TitleTimer, ComboTimer, userVars, serverVars
<1>3. /\ Burst(page, page')
      /\ page' = page \/ (page'.changed = NoChange /\ page'.delayRefocusId = NoCtrl)
  <2>1. CASE TitleTimer
    BY <1>1, <2>1, ParseClickBurst DEF TitleTimer
  <2>2. ASSUME NEW c \in Inputs, ComboTimer(c)
        PROVE  /\ Burst(page, page')
               /\ page' = page \/ (page'.changed = NoChange /\ page'.delayRefocusId = NoCtrl)
    <3>1. DelayOf(c) = NoCtrl
      BY <2>2 DEF ComboTimer, KInv, DelayOf
    <3> QED
      BY <1>1, <2>2, <3>1, ReloadOptionsBurst, BurstRefl DEF ComboTimer
  <2> QED
    BY <2>1, <2>2
<1>4. /\ Accounted(page, Len(edits))'
      /\ page'.isLocking => page'.changed = NoChange
  BY <1>1, <1>2, <1>3, BurstOnTop DEF KInv, Waiting, histories
<1>5. answer # NoAnswer => page'.request = page.request
  BY <1>1, <1>3 DEF OrderInv, Burst
<1> QED
  BY <1>2, <1>3, <1>4, <1>5 DEF KInv, Waiting, histories

\* The focus is put back: on a locked page it is there already, or nothing has it.
LEMMA RefocusKept == IInv /\ KInv /\ Refocus => KInv'
<1> SUFFICES ASSUME IInv, KInv, Refocus, Careful PROVE KInv'
  BY DEF KInv, Careful, Refocus
<1> DEFINE to == IF page.delayRefocusId = NoCtrl THEN focus ELSE page.delayRefocusId
           p == IF to = focus THEN page ELSE OnFocus(OnChange(page), to)
<1>1. /\ page' = [p EXCEPT !.delayRefocusId = NoCtrl]
      /\ focus' = to
      /\ typed' = (typed /\ to = focus)
      /\ edits' = IF typed /\ to # focus THEN Append(edits, focus) ELSE edits
      /\ UNCHANGED <<habit, pressed, timers, answer, stored, served, snatched, gone>>
  BY DEF Refocus, serverVars
<1>2. /\ page \in Pages /\ Len(edits) \in Nat /\ OrderInv(page, Len(edits))
      /\ to # focus => to \in Inputs /\ Kind[to] \in {"text", "cell"}
      /\ answer # NoAnswer => page.isLocking
  BY DEF IInv, TypeOK, PageInv, OrderInv, KInv, Waiting, Pages
<1>3. CASE to = focus
  <2>1. /\ page'.changed = page.changed /\ page'.request = page.request
        /\ page'.isLocking = page.isLocking /\ page'.delayRefocusId = NoCtrl
    BY <1>1, <1>2, <1>3 DEF Pages
  <2>2. UNCHANGED <<focus, edits>> /\ (typed' => typed)
    BY <1>1, <1>3
  <2> QED
    BY <1>1, <2>1, <2>2 DEF KInv, Careful, Accounted, Waiting
<1>4. CASE to # focus
  <2> DEFINE q == OnChange(page)
  <2>1. /\ q \in Pages /\ OrderInv(q, Len(ToldEdits)) /\ Len(ToldEdits) \in Nat
        /\ q.isLocking = page.isLocking
    BY OnChangeKeeps DEF PageInv
  <2>2. /\ Accounted(q, Len(ToldEdits))
        /\ typed => q.changed.id = focus
        /\ ~typed => q = page
    BY OnChangeAccounts DEF KInv
  <2>3. edits' = ToldEdits /\ typed' = FALSE /\ p = OnFocus(q, to)
    BY <1>1, <1>4 DEF ToldEdits
  <2>4. page.isLocking => focus = NoCtrl /\ ~typed
    BY <1>2, <1>4 DEF KInv, IInv, TypeOK
  <2>5. q.isLocking => q.changed = NoChange
    BY <2>1, <2>2, <2>4 DEF KInv, Waiting
  <2> HIDE DEF q, p
  <2>6. /\ Burst(q, p)
        /\ to = q.changed.id \/ Kind[to] \in {"combo", "cellcombo"} \/ p.changed = NoChange
        /\ p = q \/ p.changed = NoChange
    BY <1>2, <1>4, <2>1, <2>3, OnFocusBurst
  <2>7. p \in Pages
    BY <2>6 DEF Burst
  <2>8. /\ page' \in Pages /\ page'.changed = p.changed /\ page'.request = p.request
        /\ page'.isLocking = p.isLocking /\ page'.waitmarks = p.waitmarks
        /\ page'.delayRefocusId = NoCtrl
    BY <1>1, <2>7 DEF Pages
  <2>9. Burst(q, page')
    BY <2>6, <2>8 DEF Burst
  <2>10. /\ Accounted(page, Len(edits))'
         /\ page'.isLocking => page'.changed = NoChange
    BY <1>1, <2>1, <2>2, <2>3, <2>5, <2>9, BurstOnTop
  <2>11. page'.changed # NoChange => pressed # NoCtrl \/ page'.changed.val \in snatched
    BY <1>2, <1>4, <2>2, <2>6, <2>8 DEF KInv
  <2>12. answer' # NoAnswer /\ page'.request.chg # NoChange
            => \E i \in DOMAIN served' : served'[i] = page'.request.chg.val
    <3>1. answer # NoAnswer => page'.request = page.request
      BY <1>2, <2>1, <2>2, <2>4, <2>6, <2>8 DEF Burst
    <3> QED
      BY <1>1, <3>1 DEF KInv
  <2> QED
    BY <1>1, <2>3, <2>8, <2>10, <2>11, <2>12 DEF KInv, Waiting
<1> QED
  BY <1>3, <1>4

LEMMA TransferKept ==
    IInv /\ KInv /\ (TransferDone \/ TransferFails \/ FinishTransfer \/ Upload \/ \E c \in Inputs : Tab(c)) => KInv'
<1>1. IInv /\ Careful => ~TransferDone /\ ~TransferFails /\ ~FinishTransfer
  BY DEF IInv, TypeOK, RestInv, Careful, TransferDone, TransferFails, FinishTransfer
<1>2. Careful => ~Upload /\ ~\E c \in Inputs : Tab(c)
  BY DEF Careful, Upload, Tab
<1>3. TransferDone \/ TransferFails \/ FinishTransfer \/ Upload \/ (\E c \in Inputs : Tab(c)) => habit' = habit
  BY DEF TransferDone, TransferFails, FinishTransfer, Upload, Tab
<1> QED
  BY <1>1, <1>2, <1>3 DEF KInv, Careful

\* The server has the edit of a request before its answer comes.
LEMMA ServeKept == IInv /\ KInv /\ Serve => KInv'
<1> SUFFICES ASSUME IInv, KInv, Serve, Careful PROVE KInv'
  BY DEF KInv, Careful, Serve
<1> DEFINE v == page.request.chg
<1>1. /\ served' = IF v # NoChange THEN Append(served, v.val) ELSE served
      /\ UNCHANGED <<habit, page, focus, typed, pressed, timers, histories>>
  BY DEF Serve, userVars, timerVars
<1>2. v # NoChange => v.val \in Edit
  BY ChangeFields DEF IInv, TypeOK, Pages, Requests, NoRequest
<1> HIDE DEF v
<1>3. /\ \A i \in DOMAIN served : i \in DOMAIN served' /\ served'[i] = served[i]
      /\ v # NoChange => \E i \in DOMAIN served' : served'[i] = v.val
  <2>1. served \in Seq(Edit)
    BY DEF IInv, TypeOK
  <2>2. CASE v # NoChange
    <3>1. /\ served' = Append(served, v.val)
          /\ DOMAIN served' = 1 .. Len(served) + 1 /\ DOMAIN served = 1 .. Len(served)
          /\ Len(served) \in Nat
      BY <1>1, <1>2, <2>1, <2>2
    <3>2. served'[Len(served) + 1] = v.val /\ \A i \in 1 .. Len(served) : served'[i] = served[i]
      BY <1>2, <2>1, <2>2, <3>1
    <3> QED
      BY <3>1, <3>2
  <2> QED
    BY <1>1, <2>2
<1>4. Accounted(page, Len(edits))'
  BY <1>1, <1>3 DEF KInv, Accounted, histories
<1> QED
  BY <1>1, <1>3, <1>4 DEF KInv, Waiting, v, histories

\* The globals after success and complete.
LEMMA AnsweredPage ==
    ASSUME NEW oper \in Opers, NEW q \in Pages, NEW p,
           p = CASE oper = "error"     -> RemoveMark(RemoveMark(q))
                 [] oper = "download"  -> AddMark(RemoveMark(q))
                 [] oper = "changeapp" -> q
                 [] OTHER              -> RemoveMark(q),
           page' = Complete(p, oper = "changeapp")
    PROVE  /\ page'.changed = q.changed /\ page'.delayRefocusId = q.delayRefocusId
           /\ page'.isLocking = FALSE /\ page'.request = NoRequest
<1>1. \A x \in Pages :
        /\ RemoveMark(x) \in Pages /\ RemoveMark(x).changed = x.changed
        /\ RemoveMark(x).delayRefocusId = x.delayRefocusId
  <2> TAKE x \in Pages
  <2>1. RemoveMark(x) \in Pages /\ RemoveMark(x).changed = x.changed
    BY RemoveMarkFacts
  <2>2. RemoveMark(x).delayRefocusId = x.delayRefocusId
    BY DEF RemoveMark, Pages
  <2> QED
    BY <2>1, <2>2
<1>2. \A x \in Pages :
        /\ AddMark(x) \in Pages /\ AddMark(x).changed = x.changed
        /\ AddMark(x).delayRefocusId = x.delayRefocusId
  BY DEF AddMark, Pages
<1> DEFINE m == RemoveMark(q)
<1>3. p \in {q, m, RemoveMark(m), AddMark(m)}
  BY DEF Opers
<1> HIDE DEF m
<1>4. m \in Pages /\ m.changed = q.changed /\ m.delayRefocusId = q.delayRefocusId
  BY <1>1 DEF m
<1>5. p \in Pages /\ p.changed = q.changed /\ p.delayRefocusId = q.delayRefocusId
  BY <1>1, <1>2, <1>3, <1>4
<1>6. (oper = "changeapp") \in BOOLEAN
  OBVIOUS
<1>7. page'.changed = p.changed /\ page'.isLocking = FALSE /\ page'.request = NoRequest
  BY <1>5, <1>6, CompleteFacts
<1>8. Complete(p, oper = "changeapp").delayRefocusId = p.delayRefocusId
  BY <1>5 DEF Complete, RemoveMark, Pages
<1> QED
  BY <1>5, <1>7, <1>8

\* An answer ends the request, whose edit is served.  If options take the focus, the
\* edit they end is in the slot.
LEMMA AnsweredKept == \A oper \in Opers : IInv /\ KInv /\ Answered(oper) => KInv'
<1> SUFFICES ASSUME NEW oper \in Opers, IInv, KInv, Answered(oper), Careful PROVE KInv'
  BY DEF KInv, Careful, Answered
<1>1. PICK c \in {NoCtrl} \cup Asking, to \in Inputs \cup {NoCtrl}, told \in BOOLEAN :
        /\ LoadOptions(c, to, told)
        /\ LET q == IF told THEN OnChange(page) ELSE page
               p == CASE oper = "error"     -> RemoveMark(RemoveMark(q))
                      [] oper = "download"  -> AddMark(RemoveMark(q))
                      [] oper = "changeapp" -> q
                      [] OTHER              -> RemoveMark(q)
           IN page' = Complete(p, oper = "changeapp")
  BY DEF Answered
<1> DEFINE q == IF told THEN OnChange(page) ELSE page
           p == CASE oper = "error"     -> RemoveMark(RemoveMark(q))
                  [] oper = "download"  -> AddMark(RemoveMark(q))
                  [] oper = "changeapp" -> q
                  [] OTHER              -> RemoveMark(q)
<1>2. page' = Complete(p, oper = "changeapp")
  BY <1>1
<1>3. /\ PageInv(q, Len(edits')) /\ q.request = page.request
      /\ q.delayRefocusId = page.delayRefocusId
      /\ ~told => q = page /\ UNCHANGED <<edits, snatched>>
      /\ told => /\ typed /\ ~typed' /\ edits' = ToldEdits
                 /\ snatched' = snatched \cup {Len(edits) + 1}
  BY <1>1, LoadOptionsFacts
<1>4. /\ answer # NoAnswer /\ answer' = NoAnswer
      /\ UNCHANGED <<habit, pressed, served, gone>>
  BY DEF Answered
<1>5. page.isLocking /\ page.changed = NoChange /\ Len(edits) \in Nat
  BY <1>4 DEF IInv, TypeOK, PageInv, OrderInv, KInv, Waiting
<1>6. Accounted(q, Len(edits'))
  <2>1. CASE told
    <3>1. Accounted(OnChange(page), Len(ToldEdits))
      BY <1>5, OnChangeAccounts DEF KInv
    <3> QED
      BY <1>3, <2>1, <3>1
  <2>2. CASE ~told
    BY <1>3, <2>2 DEF KInv
  <2> QED
    BY <2>1, <2>2
<1>7. told => q.changed.val = Len(edits) + 1
  <2> SUFFICES ASSUME told PROVE OnChange(page).changed.val = Len(edits) + 1
    OBVIOUS
  <2>1. typed /\ shown[focus] = Len(edits) + 1 /\ page \in Pages
    BY <1>3 DEF IInv, TypeOK, RestInv
  <2> QED
    BY <2>1 DEF OnChange, SetChangedCtrlVal, Pages
<1>8. ~told => q.changed = NoChange
  BY <1>5
<1>9. \A i \in timers' \cap Inputs : Kind[i] \in {"combo", "cellcombo"}
  BY <1>1 DEF LoadOptions, FocusTimer, KInv
<1> HIDE DEF q
<1>10. /\ page'.changed = q.changed /\ page'.delayRefocusId = q.delayRefocusId
       /\ page'.isLocking = FALSE /\ page'.request = NoRequest
  <2>1. q \in Pages
    BY <1>3 DEF PageInv
  <2> QED
    BY <1>2, <2>1, AnsweredPage
<1> HIDE DEF p
<1>11. page.request.chg = NoChange => page.request.chg.val = 0
  BY DEF NoChange
<1>12. Accounted(page, Len(edits))'
  BY <1>3, <1>4, <1>6, <1>10, <1>11 DEF KInv, Accounted
<1>13. page'.changed # NoChange => page'.changed.val \in snatched'
  BY <1>3, <1>7, <1>8, <1>10
<1> QED
  BY <1>3, <1>4, <1>9, <1>10, <1>12, <1>13 DEF KInv, Waiting

\* A failure or a new page ends the request: its edit is served or gone.
LEMMA EndsKept == IInv /\ KInv /\ (Failed \/ Unload) => KInv'
<1> SUFFICES ASSUME IInv, KInv, Careful, Failed \/ Unload PROVE KInv'
  BY DEF KInv, Careful, Failed, Unload
<1>1. page \in Pages /\ Len(edits) \in Nat
  BY DEF IInv, TypeOK
<1>2. CASE Unload
  <2>1. /\ page'.changed = NoChange /\ ~page'.isLocking /\ page'.delayRefocusId = NoCtrl
        /\ page'.request = NoRequest /\ answer' = NoAnswer /\ timers' = {}
        /\ UNCHANGED <<served, edits, snatched>>
        /\ gone' = gone \cup ({page.changed.val, page.request.chg.val} \ {0})
    BY <1>2 DEF Unload
  <2>2. Accounted(page, Len(edits))'
    BY <1>1, <2>1 DEF KInv, Accounted
  <2> QED
    BY <2>1, <2>2 DEF KInv, Waiting
<1>3. CASE Failed
  <2>1. /\ answer' = NoAnswer /\ page' = Complete(page, FALSE)
        /\ UNCHANGED <<focus, typed, pressed, timers, served, edits, snatched>>
        /\ gone' = gone \cup ({page.request.chg.val} \ {0})
    BY <1>3 DEF Failed, userVars
  <2>2. /\ page'.changed = page.changed /\ page'.isLocking = FALSE
        /\ page'.request = NoRequest /\ page'.delayRefocusId = page.delayRefocusId
    <3>1. page'.changed = page.changed /\ page'.isLocking = FALSE /\ page'.request = NoRequest
      BY <1>1, <2>1, CompleteFacts
    <3>2. Complete(page, FALSE).delayRefocusId = page.delayRefocusId
      BY <1>1 DEF Complete, RemoveMark, Pages
    <3> QED
      BY <2>1, <3>1, <3>2
  <2>3. Accounted(page, Len(edits))'
    <3> SUFFICES ASSUME NEW k \in 1 .. Len(edits)
                 PROVE  \/ k \in gone' \cup snatched' \/ k = page'.changed.val
                        \/ \E i \in DOMAIN served' : served'[i] = k
      BY <2>1 DEF Accounted
    <3>1. k # 0
      BY <1>1
    <3>2. \/ k \in gone \cup snatched \/ k = page.changed.val \/ k = page.request.chg.val
          \/ \E i \in DOMAIN served : served[i] = k
      BY DEF KInv, Accounted
    <3> QED
      BY <2>1, <2>2, <3>1, <3>2
  <2> QED
    BY <2>1, <2>2, <2>3 DEF KInv, Waiting
<1> QED
  BY <1>2, <1>3

LEMMA NextKInv == IInv /\ KInv /\ [Next]_vars => KInv'
<1> SUFFICES ASSUME IInv, KInv, [Next]_vars PROVE KInv'
  OBVIOUS
<1>1. CASE Next
  BY <1>1, TypeKept, MousePressKept, MouseClickKept, ResetValKept, TimersKept, RefocusKept,
     TransferKept, ServeKept, AnsweredKept, EndsKept DEF Next
<1>2. CASE UNCHANGED vars
  BY <1>2 DEF vars, userVars, timerVars, serverVars, histories, KInv, Careful, Accounted, Waiting
<1> QED
  BY <1>1, <1>2

\* No edit of a user who only uses the mouse is lost while no file is transferred,
\* unless the options of a combobox took the focus away from it.
THEOREM NoEditLost == Spec => []EditsKept
<1>1. Init => KInv
  BY DEF Init, KInv, Accounted, Waiting, NoChange, NoRequest
<1>2. IInv /\ KInv => EditsKept
  <2> SUFFICES ASSUME IInv, KInv, Careful, NEW n \in DOMAIN edits PROVE Kept(n) \/ n \in gone \cup snatched
    BY DEF EditsKept, Careful
  <2>1. n \in 1 .. Len(edits)
    BY DEF IInv, TypeOK
  <2> QED
    BY <2>1 DEF KInv, Accounted, Kept
<1> QED
  BY <1>1, <1>2, IInvHolds, NextKInv, PTL DEF Spec

-----------------------------------------------------------------------------
(* PageTruthful: why a page at rest shows what the server has.             *)

\* A pending change that a click will send or the request under way is an edit of the
\* input.
Owing(p, c) ==
    \/ c = p.changed.id /\ p.changed.val \notin snatched
    \/ c = p.request.chg.id

\* An input that shows something else than the server has is in the user's hands,
\* on its way to the server, or about to be refreshed, or options took its focus.
TInv ==
    habit = {} =>
        /\ \A c \in Inputs \ bad :
              \/ shown[c] = stored[c] \/ shown[c] \in snatched
              \/ typed /\ focus = c
              \/ Owing(page, c)
              \/ answer # NoAnswer /\ c \in answer.refresh
        /\ answer # NoAnswer /\ page.request.chg # NoChange
              => page.request.chg.id \in answer.refresh

-----------------------------------------------------------------------------

LEMMA IdleIsCareful == habit = {} => Careful
BY DEF Careful

\* A step that is a burst on top of p, the globals after a change event, if any.
LEMMA BurstTruth ==
    ASSUME IInv, TInv, habit = {}, NEW p \in Pages, NEW q \in Pages, Burst(p, q),
           p.isLocking = page.isLocking, p.request = page.request,
           p.isLocking => p.changed = NoChange,
           page'.changed = q.changed, page'.request = q.request,
           \A c \in Inputs : Owing(page, c) \/ (typed /\ focus = c)
                             => Owing(p, c) \/ (typed' /\ focus' = c) \/ shown[c] \in snatched,
           UNCHANGED <<habit, shown, stored, bad, answer, snatched>>
    PROVE  TInv'
<1>1. /\ page.isLocking <=> page.request # NoRequest
      /\ answer # NoAnswer => page.request # NoRequest
  BY DEF IInv, PageInv, OrderInv
<1>2. NoChange.id = NoCtrl /\ NoRequest.chg = NoChange /\ NoCtrl \notin Inputs
  BY EventMgrAssumption DEF NoChange, NoRequest, Ctrls
<1>3. \A c \in Inputs : Owing(p, c) => Owing(q, c)
  BY <1>1, <1>2 DEF Owing, Burst
<1>4. \A c \in Inputs : Owing(q, c) => Owing(page', c)
  BY DEF Owing
<1>5. \A c \in Inputs : Owing(page, c) \/ (typed /\ focus = c)
                        => Owing(page', c) \/ (typed' /\ focus' = c) \/ shown[c] \in snatched
  BY <1>3, <1>4
<1>6. answer # NoAnswer => page'.request = page.request
  BY <1>1 DEF Burst
<1>7. \A c \in Inputs : Owing(page, c)' <=> Owing(page', c)
  BY DEF Owing
<1> QED
  BY <1>5, <1>6, <1>7 DEF TInv

\* The change event takes over what was typed.
LEMMA OnChangeOwes ==
    ASSUME IInv, KInv, Careful
    PROVE  LET p == OnChange(page) IN
           /\ p \in Pages /\ p.isLocking = page.isLocking /\ p.request = page.request
           /\ \A c \in Inputs : Owing(page, c) \/ (typed /\ focus = c)
                                => Owing(p, c) \/ shown[c] \in snatched
<1> DEFINE p == OnChange(page)
<1>1. p \in Pages /\ p.isLocking = page.isLocking /\ p.request = page.request
  BY OnChangeKeeps DEF PageInv
<1>2. typed => page.changed = NoChange \/ page.changed.val \in snatched
  BY DEF KInv
<1>3. /\ typed => p.changed = [id |-> focus, val |-> shown[focus]]
      /\ ~typed => p = page
  BY DEF OnChange, SetChangedCtrlVal, IInv, TypeOK, Pages
<1>4. NoChange.id = NoCtrl /\ NoCtrl \notin Inputs
  BY EventMgrAssumption DEF NoChange, Ctrls
<1> HIDE DEF p
<1>5. \A c \in Inputs : Owing(page, c) \/ (typed /\ focus = c)
                        => Owing(p, c) \/ shown[c] \in snatched
  BY <1>1, <1>2, <1>3, <1>4 DEF Owing
<1> QED
  BY <1>1, <1>5 DEF p

-----------------------------------------------------------------------------
(* The steps.                                                              *)

LEMMA MousePressTruth == \A c \in Ctrls : IInv /\ KInv /\ TInv /\ MousePress(c) => TInv'
<1> SUFFICES ASSUME NEW c \in Ctrls, IInv, KInv, TInv, MousePress(c), habit = {}
             PROVE  TInv'
  BY DEF TInv, MousePress
<1> DEFINE to == IF c \in Inputs THEN c ELSE NoCtrl
           p == OnChange(page)
<1>1. /\ page.waitmarks = 0 /\ MoveFocus(to)
      /\ UNCHANGED <<habit, shown, bad, answer, stored, snatched>>
  BY DEF MousePress, MouseWorks, serverVars
<1>2. CASE to = focus
  BY <1>1, <1>2 DEF MoveFocus, TInv, Owing
<1>3. CASE to # focus
  <2>1. /\ p \in Pages /\ p.isLocking = page.isLocking /\ p.request = page.request
        /\ \A k \in Inputs : Owing(page, k) \/ (typed /\ focus = k)
                            => Owing(p, k) \/ shown[k] \in snatched
    BY OnChangeOwes, IdleIsCareful
  <2>2. page' = IF to \in Inputs THEN OnFocus(p, to) ELSE p
    BY <1>1, <1>3 DEF MoveFocus
  <2>3. ~p.isLocking
    BY <1>1, <2>1, MouseFree, IdleIsCareful
  <2> HIDE DEF p, to
  <2>4. Burst(p, page') /\ page' \in Pages
    BY <2>1, <2>2, OnFocusBurst, BurstRefl DEF Burst
  <2> QED
    BY <1>1, <2>1, <2>3, <2>4, BurstTruth
<1> QED
  BY <1>2, <1>3

\* What the click that follows does.
LEMMA MouseClickTruth == IInv /\ KInv /\ TInv /\ MouseClick => TInv'
<1> SUFFICES ASSUME IInv, KInv, TInv, MouseClick, habit = {} PROVE TInv'
  BY DEF TInv, MouseClick
<1> DEFINE p == IF page.waitmarks = 0 /\ pressed = Button
                THEN ParseClick(page, Button, TRUE, "") ELSE page
<1>1. /\ page \in Pages /\ page' = BodyClick(p)
      /\ UNCHANGED <<habit, shown, bad, focus, typed, answer, stored, snatched>>
  <2>1. page' = BodyClick(p)
    BY DEF MouseClick
  <2>2. UNCHANGED <<habit, shown, bad, focus, typed, answer, stored, snatched>>
    BY DEF MouseClick, serverVars, histories
  <2> HIDE DEF p
  <2> QED
    BY <2>1, <2>2 DEF IInv, TypeOK
<1>2. "" \in Events /\ Button \in Ctrls \cup {NoCtrl}
  BY DEF Events, Ctrls
<1>3. Burst(page, ParseClick(page, Button, TRUE, ""))
  BY <1>1, <1>2, ParseClickBurst
<1>4. Burst(page, page)
  BY <1>1, BurstRefl
<1>5. Burst(page, p) /\ p \in Pages
  BY <1>3, <1>4 DEF Burst
<1> HIDE DEF p
<1>6. Burst(p, page') /\ page' \in Pages
  BY <1>1, <1>5, BodyClickBurst DEF Burst
<1>7. Burst(page, page')
  BY <1>1, <1>5, <1>6, BurstTrans
<1>8. page.isLocking => page.changed = NoChange
  BY IdleIsCareful DEF KInv, Waiting
<1> QED
  BY <1>1, <1>6, <1>7, <1>8, BurstTruth

LEMMA TimersTruth ==
    IInv /\ KInv /\ TInv /\ (TitleTimer \/ \E c \in Inputs : ComboTimer(c)) => TInv'
<1> SUFFICES ASSUME IInv, KInv, TInv, TitleTimer \/ \E c \in Inputs : ComboTimer(c), habit = {}
             PROVE  TInv'
  BY DEF TInv, TitleTimer, ComboTimer
<1>1. page \in Pages /\ "" \in Events /\ Title \in Ctrls \cup {NoCtrl}
  BY DEF IInv, TypeOK, Events, Ctrls
<1>2. UNCHANGED <<habit, shown, bad, focus, typed, answer, stored, snatched>>
  BY DEF TitleTimer, ComboTimer, userVars, serverVars, histories
<1>3. Burst(page, page')
  BY <1>1, ParseClickBurst, ReloadOptionsBurst, BurstRefl DEF TitleTimer, ComboTimer
<1>4. page' \in Pages
  BY <1>3 DEF Burst
<1>5. page.isLocking => page.changed = NoChange
  BY IdleIsCareful DEF KInv, Waiting
<1> QED
  BY <1>1, <1>2, <1>3, <1>4, <1>5, BurstTruth

LEMMA ResetValTruth == \A c \in Inputs : IInv /\ KInv /\ TInv /\ ResetVal(c) => TInv'
<1> SUFFICES ASSUME NEW c \in Inputs, IInv, KInv, TInv, ResetVal(c), habit = {} PROVE TInv'
  BY DEF TInv, ResetVal
<1> DEFINE p == OnChange(page)
<1>1. /\ page.waitmarks = 0 /\ page' = ParseClick(p, c, TRUE, "rollback")
      /\ UNCHANGED <<habit, shown, bad, answer, stored, snatched>>
  BY DEF ResetVal, MouseWorks, serverVars
<1>2. /\ p \in Pages /\ p.isLocking = page.isLocking /\ p.request = page.request
      /\ \A k \in Inputs : Owing(page, k) \/ (typed /\ focus = k)
                            => Owing(p, k) \/ shown[k] \in snatched
  BY OnChangeOwes, IdleIsCareful
<1>3. ~p.isLocking
  BY <1>1, <1>2, MouseFree, IdleIsCareful
<1>4. c \in Ctrls \cup {NoCtrl} /\ "rollback" \in Events
  BY DEF Ctrls, Events
<1> HIDE DEF p
<1>5. Burst(p, page')
  BY <1>1, <1>2, <1>4, ParseClickBurst
<1>6. page' \in Pages
  BY <1>5 DEF Burst
<1> QED
  BY <1>1, <1>2, <1>3, <1>5, <1>6, BurstTruth

\* On a locked page the focus is where it is put, so that nothing typed becomes a
\* change that could not be sent.
LEMMA RefocusTruth == IInv /\ KInv /\ TInv /\ Refocus => TInv'
<1> SUFFICES ASSUME IInv, KInv, TInv, Refocus, habit = {} PROVE TInv'
  BY DEF TInv, Refocus
<1> DEFINE to == IF page.delayRefocusId = NoCtrl THEN focus ELSE page.delayRefocusId
           p == OnChange(page)
           q == IF to = focus THEN page ELSE OnFocus(p, to)
<1>1. /\ page' = [q EXCEPT !.delayRefocusId = NoCtrl]
      /\ focus' = to /\ typed' = (typed /\ to = focus)
      /\ UNCHANGED <<habit, shown, bad, answer, stored, snatched>>
  BY DEF Refocus, serverVars
<1>2. /\ page \in Pages /\ Burst(page, page)
      /\ to # focus => to \in Inputs
      /\ page.isLocking => page.changed = NoChange
  BY BurstRefl, IdleIsCareful DEF IInv, TypeOK, KInv, Waiting, Pages
<1>3. CASE to = focus
  <2>1. page'.changed = page.changed /\ page'.request = page.request
    BY <1>1, <1>2, <1>3 DEF Pages
  <2> QED
    BY <1>1, <1>2, <1>3, <2>1, BurstTruth
<1>4. CASE to # focus
  <2>1. /\ p \in Pages /\ p.isLocking = page.isLocking /\ p.request = page.request
        /\ \A k \in Inputs : Owing(page, k) \/ (typed /\ focus = k)
                            => Owing(p, k) \/ shown[k] \in snatched
    BY OnChangeOwes, IdleIsCareful
  <2>2. page.isLocking => ~typed
    BY <1>2, <1>4, IdleIsCareful DEF KInv, IInv, TypeOK
  <2>3. p.isLocking => p.changed = NoChange
    BY <1>2, <2>1, <2>2 DEF OnChange
  <2> HIDE DEF p
  <2>4. q = OnFocus(p, to)
    BY <1>4
  <2> HIDE DEF q
  <2>5. Burst(p, q) /\ q \in Pages
    BY <1>2, <1>4, <2>1, <2>4, OnFocusBurst DEF Burst
  <2>6. page'.changed = q.changed /\ page'.request = q.request
    BY <1>1, <2>5 DEF Pages
  <2> QED
    BY <1>1, <2>1, <2>3, <2>5, <2>6, BurstTruth
<1> QED
  BY <1>3, <1>4

LEMMA TypeTruth == IInv /\ TInv /\ Type => TInv'
<1> SUFFICES ASSUME IInv, TInv, Type, habit = {} PROVE TInv'
  BY DEF TInv, Type
<1>1. /\ \A c \in Inputs : c # focus => shown'[c] = shown[c]
      /\ typed' /\ UNCHANGED <<habit, page, bad, focus, answer, stored, snatched>>
  BY DEF Type, serverVars, histories, IInv, TypeOK
<1> QED
  BY <1>1 DEF TInv, Owing, IInv, TypeOK

\* The answer refreshes the edited input, and all that a bean computed.
LEMMA ServeTruth == IInv /\ TInv /\ Serve => TInv'
<1> SUFFICES ASSUME IInv, TInv, Serve, habit = {} PROVE TInv'
  BY DEF TInv, Serve
<1> DEFINE chg  == page.request.chg
           back == IF page.request.event = "rollback" THEN {page.request.target} ELSE {}
<1>1. /\ answer = NoAnswer
      /\ UNCHANGED <<habit, page, shown, bad, focus, typed, snatched>>
  BY DEF Serve, userVars, histories
<1>2. PICK ok \in BOOLEAN, also \in {{}} \cup {{c} : c \in Derived \ {chg.id}} :
        /\ stored' = LET s == IF chg # NoChange /\ ok
                              THEN [stored EXCEPT ![chg.id] = chg.val]
                              ELSE stored
                     IN [c \in Inputs |-> IF c \in also THEN Computed ELSE s[c]]
        /\ answer' = [refresh |-> (also \cup back \cup {chg.id}) \ {NoCtrl},
                      refused |-> IF ok THEN {} ELSE {chg.id}]
  BY DEF Serve
<1>3. /\ page.request \in Requests /\ chg \in Changes /\ stored \in [Inputs -> Nat \cup {Computed}]
      /\ chg # NoChange => chg.id \in Inputs
  <2>1. page.request \in Requests /\ stored \in [Inputs -> Nat \cup {Computed}]
    BY DEF IInv, TypeOK, Pages
  <2>2. chg \in Changes
    BY <2>1 DEF Requests, NoRequest, Changes
  <2> QED
    BY <2>1, <2>2, ChangeFields
<1>4. NoCtrl \notin Inputs /\ answer' # NoAnswer /\ answer'.refresh = (also \cup back \cup {chg.id}) \ {NoCtrl}
  BY <1>2, EventMgrAssumption DEF NoAnswer, Ctrls
<1> HIDE DEF chg, back
<1>5. \A c \in Inputs : c \in answer'.refresh \/ stored'[c] = stored[c]
  BY <1>2, <1>3, <1>4
<1>6. chg # NoChange => chg.id \in answer'.refresh
  BY <1>3, <1>4
<1> QED
  BY <1>1, <1>4, <1>5, <1>6 DEF TInv, Owing, chg

\* A refreshed input shows what the server has, or the mark of an error.
LEMMA AnsweredTruth == \A oper \in Opers : IInv /\ KInv /\ TInv /\ Answered(oper) => TInv'
<1> SUFFICES ASSUME NEW oper \in Opers, IInv, KInv, TInv, Answered(oper), habit = {} PROVE TInv'
  BY DEF TInv, Answered
<1>1. /\ answer # NoAnswer /\ answer' = NoAnswer
      /\ UNCHANGED <<habit, stored>>
      /\ shown' = [c \in Inputs |->
                     IF c \in answer.refused THEN page.request.chg.val
                     ELSE IF c \in answer.refresh THEN stored[c] ELSE shown[c]]
      /\ bad' = (bad \ answer.refresh) \cup answer.refused
  BY DEF Answered, ReadResponse
<1>2. /\ page.request.chg = NoChange \/ page.request.chg.id \in answer.refresh
      /\ page.changed = NoChange
      /\ NoChange.id = NoCtrl /\ NoCtrl \notin Inputs
  BY <1>1, IdleIsCareful, EventMgrAssumption
     DEF IInv, PageInv, OrderInv, KInv, Waiting, TInv, NoChange, Ctrls
<1>3. /\ snatched \subseteq snatched'
      /\ \A c \in Inputs : typed /\ focus = c /\ c \notin answer.refresh
                           => (typed' /\ focus' = c) \/ shown[c] \in snatched'
  <2>1. PICK c \in {NoCtrl} \cup Asking, to \in Inputs \cup {NoCtrl}, told \in BOOLEAN :
            LoadOptions(c, to, told)
    BY DEF Answered
  <2> QED
    BY <2>1 DEF LoadOptions
<1>4. ASSUME NEW c \in Inputs \ bad'
      PROVE  shown'[c] = stored'[c] \/ shown'[c] \in snatched' \/ (typed' /\ focus' = c)
  <2>1. CASE c \in answer.refresh
    BY <1>1, <1>4, <2>1
  <2>2. CASE c \notin answer.refresh
    <3>1. c \notin answer.refused /\ c \notin bad
      BY <1>1, <1>4, <2>2
    <3>2. shown'[c] = shown[c]
      BY <1>1, <2>2, <3>1
    <3>3. ~Owing(page, c)
      BY <1>2, <2>2 DEF Owing
    <3> QED
      BY <1>1, <1>3, <2>2, <3>1, <3>2, <3>3 DEF TInv
  <2> QED
    BY <2>1, <2>2
<1> QED
  BY <1>1, <1>4 DEF TInv, Owing

\* Without habits there are no keys, failures and transfers; a new page shows all anew.
LEMMA OtherTruth ==
    IInv /\ TInv /\ (TransferDone \/ TransferFails \/ FinishTransfer \/ Upload \/ Failed \/ Unload
                     \/ \E c \in Inputs : Tab(c)) => TInv'
<1> SUFFICES ASSUME IInv, habit = {},
                    TransferDone \/ TransferFails \/ FinishTransfer \/ Upload \/ Failed \/ Unload
                    \/ \E c \in Inputs : Tab(c)
             PROVE  TInv'
  BY DEF TInv, TransferDone, TransferFails, FinishTransfer, Upload, Failed, Unload, Tab
<1>1. ~TransferDone /\ ~TransferFails /\ ~FinishTransfer
  BY DEF IInv, TypeOK, RestInv, TransferDone, TransferFails, FinishTransfer
<1>2. ~Upload /\ ~Failed /\ ~\E c \in Inputs : Tab(c)
  BY DEF Upload, Failed, Tab
<1> QED
  BY <1>1, <1>2 DEF Unload, TInv

LEMMA NextTInv == IInv /\ KInv /\ TInv /\ [Next]_vars => TInv'
<1> SUFFICES ASSUME IInv, KInv, TInv, [Next]_vars PROVE TInv'
  OBVIOUS
<1>1. CASE Next
  BY <1>1, TypeTruth, MousePressTruth, MouseClickTruth, ResetValTruth, TimersTruth, RefocusTruth,
     ServeTruth, AnsweredTruth, OtherTruth DEF Next
<1>2. CASE UNCHANGED vars
  BY <1>2 DEF vars, userVars, timerVars, serverVars, histories, TInv, Owing
<1> QED
  BY <1>1, <1>2

\* A page at rest shows, for a user who only uses the mouse, what the server has in
\* every field without the mark of an error, or an edit that options ended.
THEOREM PageTellsTruth == Spec => []PageTruthful
<1>1. Init => KInv
  BY DEF Init, KInv, Accounted, Waiting, NoChange, NoRequest
<1>2. Init => TInv
  BY DEF Init, TInv
<1>3. IInv /\ TInv => PageTruthful
  BY EventMgrAssumption DEF IInv, PageInv, OrderInv, TInv, PageTruthful, Owing, NoChange, NoRequest, Ctrls
<1> QED
  BY <1>1, <1>2, <1>3, IInvHolds, NextKInv, NextTInv, PTL DEF Spec
=============================================================================
