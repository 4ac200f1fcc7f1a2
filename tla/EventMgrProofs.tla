--------------------------- MODULE EventMgrProofs ---------------------------
(***************************************************************************)
(* Proofs about EventMgr: for any page, of any number of inputs, and any   *)
(* number of edits and transfers.                                          *)
(***************************************************************************)
EXTENDS EventMgr, TLAPS

-----------------------------------------------------------------------------
(* What the calls of a burst do to the globals.                            *)

\* A burst either leaves the request alone, and then clears a change only on a
\* locked page, or it sends the change off under a new wait mark.
Burst(p, q) ==
    /\ q \in Pages
    /\ \/ /\ q.isLocking = p.isLocking /\ q.request = p.request /\ q.waitmarks = p.waitmarks
          /\ \/ q.changed = p.changed
             \/ p.isLocking /\ q.changed = NoChange
       \/ /\ ~p.isLocking /\ q.isLocking /\ q.waitmarks = p.waitmarks + 1
          /\ q.request # NoRequest /\ q.request.chg = p.changed
          /\ q.changed = NoChange

\* The type of a change.
LEMMA ChangeFields ==
    ASSUME NEW x \in Changes
    PROVE  /\ x.val \in Nat
           /\ x # NoChange <=> x.val > 0
           /\ x # NoChange => x.id \in Inputs /\ x.val \in Edit
BY DEF Changes, NoChange, Edit

LEMMA BurstRefl == ASSUME NEW p \in Pages PROVE Burst(p, p)
BY DEF Burst

\* Bursts compose.
LEMMA BurstTrans ==
    ASSUME NEW p \in Pages, NEW q \in Pages, NEW r \in Pages, Burst(p, q), Burst(q, r)
    PROVE  Burst(p, r)
BY DEF Burst, Pages

\* sendEvent and the clear that follows it.
LEMMA SendClears ==
    ASSUME NEW p \in Pages, NEW event \in Events, NEW c \in Ctrls \cup {NoCtrl},
           event \in {"rollback", "loadOptions"} => c \in Inputs
    PROVE  LET q == ClearChangedCtrlVal(SendEvent(p, event, c)) IN
           /\ Burst(p, q)
           /\ q.changed = NoChange /\ q.isLocking
           /\ q.delayRefocusId = p.delayRefocusId
<1> DEFINE q == ClearChangedCtrlVal(SendEvent(p, event, c))
           req == [event |-> event, target |-> c, chg |-> p.changed]
<1>1. NoChange \in Changes
  BY DEF Changes
<1>2. req \in Requests /\ req # NoRequest
  BY DEF Requests, Pages, Events, NoRequest
<1>3. CASE p.isLocking
  BY <1>1, <1>3 DEF ClearChangedCtrlVal, SendEvent, Burst, Pages
<1>4. CASE ~p.isLocking
  <2>1. q = [changed |-> NoChange, isLocking |-> TRUE, waitmarks |-> p.waitmarks + 1,
             request |-> req, delayRefocusId |-> p.delayRefocusId]
    <3> HIDE DEF req
    <3>1. PICK m : m = AddMark(p)
      OBVIOUS
    <3>2. /\ m \in Pages
          /\ m.changed = p.changed /\ m.waitmarks = p.waitmarks + 1
          /\ m.delayRefocusId = p.delayRefocusId
      BY <3>1 DEF AddMark, Pages
    <3>3. PICK s : s = [m EXCEPT !.isLocking = TRUE, !.request = req]
      OBVIOUS
    <3>4. s \in Pages
      BY <1>2, <3>2, <3>3 DEF Pages
    <3>5. s = [changed |-> p.changed, isLocking |-> TRUE, waitmarks |-> p.waitmarks + 1,
               request |-> req, delayRefocusId |-> p.delayRefocusId]
      BY <3>2, <3>3 DEF Pages
    <3>6. q = [s EXCEPT !.changed = NoChange]
      BY <1>4, <3>1, <3>3 DEF ClearChangedCtrlVal, SendEvent, req
    <3> QED
      BY <3>4, <3>5, <3>6 DEF Pages
  <2> HIDE DEF q, req
  <2>2. req.chg = p.changed
    BY DEF req
  <2>3. q \in Pages
    BY <1>1, <1>2, <2>1 DEF Pages
  <2>4. Burst(p, q)
    BY <1>2, <1>4, <2>1, <2>2, <2>3 DEF Burst
  <2> QED
    BY <2>1, <2>4 DEF q
<1> QED
  BY <1>3, <1>4

\* The control id that setDelayRefocusId keeps of c.
DelayOf(c) == IF c \in Inputs /\ Kind[c] \in {"text", "cell"} THEN c ELSE NoCtrl

LEMMA DelayType ==
    ASSUME NEW p \in Pages, NEW c \in Ctrls \cup {NoCtrl}
    PROVE  LET q == SetDelayRefocusId(p, c) IN
           /\ q \in Pages /\ Burst(p, q)
           /\ q.changed = p.changed /\ q.isLocking = p.isLocking
           /\ q.delayRefocusId = DelayOf(c)
BY DEF SetDelayRefocusId, DelayOf, Pages, Burst

LEMMA ParseClickBurst ==
    ASSUME NEW p \in Pages, NEW c \in Ctrls \cup {NoCtrl}, NEW isEffective \in BOOLEAN,
           NEW event \in Events, event \in {"rollback", "loadOptions"} => c \in Inputs
    PROVE  LET q == ParseClick(p, c, isEffective, event) IN
           /\ Burst(p, q)
           /\ q.changed = NoChange
           /\ q.delayRefocusId = DelayOf(c)
<1> DEFINE m == SetDelayRefocusId(p, c)
<1>1. /\ m \in Pages /\ Burst(p, m)
      /\ m.delayRefocusId = DelayOf(c)
  BY DelayType
<1> HIDE DEF m
<1>2. "" \in Events /\ NoCtrl \in Ctrls \cup {NoCtrl}
  BY DEF Events
<1>3. CASE isEffective
  <2> DEFINE q == ClearChangedCtrlVal(SendEvent(m, event, c))
  <2>1. Burst(m, q) /\ q.changed = NoChange /\ q.delayRefocusId = m.delayRefocusId
    BY <1>1, SendClears
  <2> HIDE DEF q
  <2>2. Burst(p, q)
    <3>1. q \in Pages
      BY <2>1 DEF Burst
    <3> QED
      BY <1>1, <2>1, <3>1, BurstTrans
  <2> QED
    BY <1>1, <1>3, <2>1, <2>2 DEF ParseClick, q, m
<1>4. CASE ~isEffective /\ m.changed = NoChange
  BY <1>1, <1>4 DEF ParseClick, m
<1>5. CASE ~isEffective /\ m.changed # NoChange
  <2> DEFINE q == ClearChangedCtrlVal(SendEvent(m, "", NoCtrl))
  <2>1. Burst(m, q) /\ q.changed = NoChange /\ q.delayRefocusId = m.delayRefocusId
    BY <1>1, <1>2, SendClears
  <2> HIDE DEF q
  <2>2. Burst(p, q)
    <3>1. q \in Pages
      BY <2>1 DEF Burst
    <3> QED
      BY <1>1, <2>1, <3>1, BurstTrans
  <2> QED
    BY <1>1, <1>5, <2>1, <2>2 DEF ParseClick, q, m
<1> QED
  BY <1>3, <1>4, <1>5

LEMMA BodyClickBurst ==
    ASSUME NEW p \in Pages
    PROVE  LET q == BodyClick(p) IN
           /\ Burst(p, q)
           /\ \/ q = p /\ (p.isLocking \/ p.changed = NoChange)
              \/ q.changed = NoChange /\ q.delayRefocusId = NoCtrl
<1>1. "" \in Events /\ NoCtrl \in Ctrls \cup {NoCtrl}
  BY DEF Events
<1>2. LET q == ParseClick(p, NoCtrl, FALSE, "") IN
      Burst(p, q) /\ q.changed = NoChange /\ q.delayRefocusId = NoCtrl
  <2>1. DelayOf(NoCtrl) = NoCtrl
    BY EventMgrAssumption DEF DelayOf
  <2> QED
    BY <1>1, <2>1, ParseClickBurst
<1> QED
  BY <1>2, BurstRefl DEF BodyClick

\* The focus event: the focused input is the one to come back to, or nothing was sent.
LEMMA OnFocusBurst ==
    ASSUME NEW p \in Pages, NEW c \in Inputs
    PROVE  LET q == OnFocus(p, c) IN
           /\ Burst(p, q)
           /\ \/ q = p
              \/ q.changed = NoChange /\ q.delayRefocusId = DelayOf(c)
           /\ c = p.changed.id \/ Kind[c] \in {"combo", "cellcombo"} \/ q.changed = NoChange
<1> DEFINE event == IF Kind[c] = "cell" THEN "onfocus" ELSE ""
           q == ParseClick(p, c, Kind[c] = "cell", event)
<1>1. event \in Events /\ event \notin {"rollback", "loadOptions"} /\ (Kind[c] = "cell") \in BOOLEAN
  BY DEF Events
<1>2. c \in Ctrls \cup {NoCtrl}
  BY DEF Ctrls
<1> HIDE DEF event
<1>3. Burst(p, q) /\ q.changed = NoChange /\ q.delayRefocusId = DelayOf(c)
  BY <1>1, <1>2, ParseClickBurst
<1> QED
  BY <1>3, BurstRefl DEF OnFocus, event

LEMMA ReloadOptionsBurst ==
    ASSUME NEW p \in Pages, NEW c \in Inputs
    PROVE  LET q == ReloadOptions(p, c) IN
           /\ Burst(p, q)
           /\ q = p \/ (q.changed = NoChange /\ q.delayRefocusId = DelayOf(c))
<1>1. "loadOptions" \in Events /\ c \in Ctrls \cup {NoCtrl}
  BY DEF Events, Ctrls
<1>2. LET q == ParseClick(p, c, TRUE, "loadOptions") IN
      Burst(p, q) /\ q.changed = NoChange /\ q.delayRefocusId = DelayOf(c)
  BY <1>1, ParseClickBurst
<1> QED
  BY <1>2, BurstRefl DEF ReloadOptions

-----------------------------------------------------------------------------
(* The inductive invariant.  PageInv is about the globals p of the script  *)
(* once the page was told of n edits, so that it also describes the middle *)
(* of a burst.                                                             *)

\* What the page has and what the server has seen lie in one order.
OrderInv(p, n) ==
    /\ p.isLocking <=> p.request # NoRequest
    /\ answer # NoAnswer => p.request # NoRequest
    /\ p.changed.val <= n /\ p.request.chg.val <= n
    /\ p.changed # NoChange => p.request.chg.val < p.changed.val
    /\ \A i \in DOMAIN served :
        /\ served[i] <= n
        /\ p.changed # NoChange => served[i] < p.changed.val
        /\ p.request.chg # NoChange /\ answer = NoAnswer => served[i] < p.request.chg.val

MarkInv(p) ==
    /\ p.waitmarks <= (IF p.isLocking THEN 1 ELSE 0) + (IF leaving THEN 1 ELSE 0)
                      + transfers + finishing
    /\ "transfer" \notin habit /\ p.isLocking => p.waitmarks >= 1

PageInv(p, n) == p \in Pages /\ OrderInv(p, n) /\ MarkInv(p)

RestInv ==
    /\ typed => shown[focus] = Len(edits) + 1
    /\ answer.refused \subseteq answer.refresh
    /\ answer # NoAnswer => ~leaving
    /\ "transfer" \notin habit => transfers = 0 /\ finishing = 0

IInv == TypeOK /\ InOrder /\ PageInv(page, Len(edits)) /\ RestInv

\* A burst keeps it.
LEMMA BurstKeeps ==
    ASSUME TypeOK, NEW n \in Nat, NEW p \in Pages, NEW q, Burst(p, q), PageInv(p, n)
    PROVE  PageInv(q, n)
<1>1. q \in Pages
  BY DEF Burst
<1>2. /\ p.changed \in Changes /\ q.changed \in Changes
      /\ p.waitmarks \in Nat /\ q.waitmarks \in Nat
      /\ p.isLocking \in BOOLEAN /\ q.isLocking \in BOOLEAN
  BY <1>1 DEF Pages
<1>3. /\ p.changed.val \in Nat /\ q.changed.val \in Nat
      /\ p.changed # NoChange <=> p.changed.val > 0
      /\ q.changed # NoChange <=> q.changed.val > 0
  BY <1>2, ChangeFields
<1>4. NoChange.val = 0 /\ NoRequest.chg.val = 0
  BY DEF NoChange, NoRequest
<1>5. OrderInv(q, n)
  BY <1>3, <1>4 DEF Burst, PageInv, OrderInv
<1>6. MarkInv(q)
  BY <1>2 DEF Burst, PageInv, MarkInv, TypeOK
<1> QED
  BY <1>1, <1>5, <1>6 DEF PageInv

\* The change event, and the edits that are known after it.
ToldEdits == IF typed THEN Append(edits, focus) ELSE edits

LEMMA OnChangeKeeps ==
    ASSUME IInv
    PROVE  /\ PageInv(OnChange(page), Len(ToldEdits))
           /\ ToldEdits \in Seq(Inputs) /\ Len(ToldEdits) \in Nat
           /\ OnChange(page).isLocking = page.isLocking
           /\ OnChange(page).waitmarks = page.waitmarks
           /\ OnChange(page).request = page.request
           /\ OnChange(page).delayRefocusId = page.delayRefocusId
<1> USE DEF IInv
<1>1. CASE ~typed
  BY <1>1 DEF OnChange, ToldEdits, TypeOK
<1>2. CASE typed
  <2>1. focus \in Inputs /\ shown[focus] = Len(edits) + 1 /\ Len(edits) \in Nat
    BY <1>2 DEF TypeOK, RestInv
  <2>2. ToldEdits \in Seq(Inputs) /\ Len(ToldEdits) = Len(edits) + 1
    BY <1>2, <2>1 DEF ToldEdits, TypeOK
  <2> DEFINE p == OnChange(page)
             x == [id |-> focus, val |-> shown[focus]]
  <2>3. x \in Changes /\ x # NoChange /\ x.val = Len(edits) + 1
    BY <2>1, EventMgrAssumption DEF Changes, Edit, NoChange
  <2>4. page \in Pages
    BY DEF TypeOK
  <2>5. /\ p \in Pages /\ p.changed = x
        /\ p.isLocking = page.isLocking /\ p.waitmarks = page.waitmarks
        /\ p.request = page.request /\ p.delayRefocusId = page.delayRefocusId
    BY <1>2, <2>3, <2>4 DEF OnChange, SetChangedCtrlVal, Pages
  <2> HIDE DEF p, x
  <2>6. page.request.chg.val \in Nat /\ \A i \in DOMAIN served : served[i] \in Nat
    <3>1. page.request.chg \in Changes
      BY <2>4 DEF Pages, Requests, NoRequest, Changes
    <3> QED
      BY <3>1, ChangeFields DEF TypeOK, Edit
  <2>7. OrderInv(p, Len(edits) + 1)
    BY <2>1, <2>3, <2>5, <2>6 DEF PageInv, OrderInv
  <2>8. MarkInv(p)
    BY <2>5 DEF PageInv, MarkInv
  <2> QED
    BY <2>1, <2>2, <2>5, <2>7, <2>8 DEF PageInv, p
<1> QED
  BY <1>1, <1>2

-----------------------------------------------------------------------------
(* The steps.                                                              *)

\* What a step in which the server has no part must show.
LEMMA Framed ==
    ASSUME IInv, PageInv(page', Len(edits')),
           UNCHANGED <<habit, leaving, transfers, finishing, answer, served>>
    PROVE  InOrder' /\ PageInv(page, Len(edits))'
BY DEF IInv, InOrder, PageInv, OrderInv, MarkInv

LEMMA TypeStep == IInv /\ Type => IInv'
<1> SUFFICES ASSUME IInv, Type PROVE IInv'
  OBVIOUS
<1> USE DEF IInv, Type, userVars, transferVars, timerVars, serverVars, histories
<1>1. TypeOK'
  <2>1. Len(edits) + 1 \in Nat \cup {Computed} /\ focus # NoCtrl
    BY EventMgrAssumption DEF TypeOK
  <2> QED
    BY <2>1 DEF TypeOK
<1>2. InOrder' /\ PageInv(page, Len(edits))'
  BY Framed
<1>3. RestInv'
  BY DEF RestInv, TypeOK
<1> QED
  BY <1>1, <1>2, <1>3

\* The focus moves, by mouse, key or timer.
LEMMA MoveFocusFacts ==
    ASSUME IInv, NEW c \in Inputs \cup {NoCtrl}, MoveFocus(c)
    PROVE  /\ PageInv(page', Len(edits'))
           /\ edits' \in Seq(Inputs)
           /\ typed' \in BOOLEAN /\ (typed' => typed /\ focus' = focus /\ edits' = edits)
           /\ timers' \subseteq Inputs \cup {Title}
<1>1. CASE c = focus
  BY <1>1 DEF MoveFocus, IInv, TypeOK
<1>2. CASE c # focus
  <2> DEFINE p == OnChange(page)
  <2>1. PageInv(p, Len(ToldEdits)) /\ ToldEdits \in Seq(Inputs) /\ Len(ToldEdits) \in Nat
    BY OnChangeKeeps
  <2>2. edits' = ToldEdits /\ ~typed' /\ timers' \subseteq Inputs \cup {Title}
    BY <1>2 DEF MoveFocus, ToldEdits, FocusTimer, IInv, TypeOK
  <2>3. page' = IF c \in Inputs THEN OnFocus(p, c) ELSE p
    BY <1>2 DEF MoveFocus
  <2> HIDE DEF p
  <2>4. p \in Pages /\ TypeOK
    BY <2>1 DEF PageInv, IInv
  <2>5. CASE c \in Inputs
    <3>1. Burst(p, page')
      BY <2>3, <2>4, <2>5, OnFocusBurst
    <3> QED
      BY <1>2, <2>1, <2>2, <2>4, <3>1, BurstKeeps DEF MoveFocus
  <2>6. CASE c \notin Inputs
    BY <1>2, <2>1, <2>2, <2>3, <2>6 DEF MoveFocus
  <2> QED
    BY <2>5, <2>6
<1> QED
  BY <1>1, <1>2

LEMMA MoveStep ==
    ASSUME IInv, NEW c \in Inputs \cup {NoCtrl}, MoveFocus(c),
           pressed' \in Ctrls \cup {NoCtrl},
           UNCHANGED <<habit, shown, bad, refocusing, transferVars, leaving,
                       serverVars, snatched, gone>>
    PROVE  IInv'
<1> USE DEF IInv, transferVars, serverVars, histories
<1>1. /\ PageInv(page', Len(edits'))
      /\ edits' \in Seq(Inputs)
      /\ typed' \in BOOLEAN /\ (typed' => typed /\ focus' = focus /\ edits' = edits)
      /\ timers' \subseteq Inputs \cup {Title}
  BY MoveFocusFacts
<1>2. focus' \in Inputs \cup {NoCtrl} /\ page' \in Pages
  BY <1>1 DEF MoveFocus, PageInv
<1>3. TypeOK'
  BY <1>1, <1>2 DEF TypeOK
<1>4. InOrder' /\ PageInv(page, Len(edits))'
  BY <1>1, Framed
<1>5. RestInv'
  BY <1>1 DEF RestInv
<1> QED
  BY <1>3, <1>4, <1>5

LEMMA MousePressStep == \A c \in Ctrls : IInv /\ MousePress(c) => IInv'
<1> SUFFICES ASSUME NEW c \in Ctrls, IInv, MousePress(c) PROVE IInv'
  OBVIOUS
<1>1. MoveFocus(IF c \in Inputs THEN c ELSE NoCtrl) /\ pressed' = c
  BY DEF MousePress
<1>2. (IF c \in Inputs THEN c ELSE NoCtrl) \in Inputs \cup {NoCtrl}
  OBVIOUS
<1> QED
  BY <1>1, <1>2, MoveStep DEF MousePress

LEMMA TabStep == \A c \in Inputs : IInv /\ Tab(c) => IInv'
<1> SUFFICES ASSUME NEW c \in Inputs, IInv, Tab(c) PROVE IInv'
  OBVIOUS
<1>1. pressed' \in Ctrls \cup {NoCtrl}
  BY DEF Tab, IInv, TypeOK
<1> QED
  BY <1>1, MoveStep DEF Tab

\* A step that only runs a burst: a click or a timer.
LEMMA BurstStep ==
    ASSUME IInv, Burst(page, page'),
           pressed' \in Ctrls \cup {NoCtrl}, timers' \subseteq Inputs \cup {Title},
           UNCHANGED <<habit, shown, bad, focus, typed, refocusing, transferVars,
                       leaving, serverVars, histories>>
    PROVE  IInv'
<1> USE DEF IInv, transferVars, serverVars, histories
<1>1. page \in Pages /\ Len(edits) \in Nat /\ page' \in Pages
  BY DEF TypeOK, Burst
<1>2. PageInv(page', Len(edits'))
  BY <1>1, BurstKeeps
<1>3. TypeOK'
  BY <1>1 DEF TypeOK
<1>4. InOrder' /\ PageInv(page, Len(edits))'
  BY <1>2, Framed
<1>5. RestInv'
  BY DEF RestInv
<1> QED
  BY <1>3, <1>4, <1>5

LEMMA MouseClickStep == IInv /\ MouseClick => IInv'
<1> SUFFICES ASSUME IInv, MouseClick PROVE IInv'
  OBVIOUS
<1> DEFINE p == IF page.waitmarks = 0 /\ pressed = Button
                THEN ParseClick(page, Button, TRUE, "") ELSE page
<1>1. page \in Pages
  BY DEF IInv, TypeOK
<1>2. p \in Pages /\ Burst(page, p)
  <2>1. "" \in Events /\ Button \in Ctrls \cup {NoCtrl}
    BY DEF Events, Ctrls
  <2>2. Burst(page, ParseClick(page, Button, TRUE, ""))
    BY <1>1, <2>1, ParseClickBurst
  <2> QED
    BY <1>1, <2>2, BurstRefl DEF Burst
<1>3. page' = BodyClick(p)
  BY DEF MouseClick
<1> HIDE DEF p
<1>4. Burst(p, page') /\ page' \in Pages
  BY <1>2, <1>3, BodyClickBurst DEF Burst
<1>5. Burst(page, page')
  BY <1>1, <1>2, <1>4, BurstTrans
<1>6. timers' \subseteq Inputs \cup {Title} /\ pressed' = NoCtrl
  BY DEF MouseClick, IInv, TypeOK
<1> QED
  BY <1>5, <1>6, BurstStep DEF MouseClick

LEMMA TimerSteps == IInv /\ (TitleTimer \/ \E c \in Inputs : ComboTimer(c)) => IInv'
<1> SUFFICES ASSUME IInv, TitleTimer \/ \E c \in Inputs : ComboTimer(c) PROVE IInv'
  OBVIOUS
<1> USE DEF userVars, histories
<1>1. page \in Pages /\ "" \in Events /\ Title \in Ctrls \cup {NoCtrl}
  BY DEF IInv, TypeOK, Events, Ctrls
<1>2. CASE TitleTimer
  <2>1. Burst(page, page')
    BY <1>1, <1>2, ParseClickBurst DEF TitleTimer
  <2> QED
    BY <1>2, <2>1, BurstStep DEF TitleTimer, IInv, TypeOK
<1>3. ASSUME NEW c \in Inputs, ComboTimer(c) PROVE IInv'
  <2>1. Burst(page, page')
    BY <1>1, <1>3, ReloadOptionsBurst, BurstRefl DEF ComboTimer
  <2> QED
    BY <1>3, <2>1, BurstStep DEF ComboTimer, IInv, TypeOK
<1> QED
  BY <1>2, <1>3

LEMMA ResetValStep == \A c \in Inputs : IInv /\ ResetVal(c) => IInv'
<1> SUFFICES ASSUME NEW c \in Inputs, IInv, ResetVal(c) PROVE IInv'
  OBVIOUS
<1> USE DEF IInv, ResetVal, transferVars, timerVars, serverVars
<1>1. PageInv(OnChange(page), Len(ToldEdits)) /\ ToldEdits \in Seq(Inputs) /\ Len(ToldEdits) \in Nat
  BY OnChangeKeeps
<1>2. OnChange(page) \in Pages /\ c \in Ctrls \cup {NoCtrl} /\ "rollback" \in Events
  BY <1>1 DEF PageInv, Ctrls, Events
<1>3. Burst(OnChange(page), page')
  BY <1>2, ParseClickBurst
<1>4. edits' = ToldEdits
  BY DEF ToldEdits
<1>5. PageInv(page', Len(edits'))
  BY <1>1, <1>2, <1>3, <1>4, BurstKeeps
<1>6. TypeOK'
  BY <1>1, <1>4, <1>5 DEF TypeOK, PageInv
<1>7. InOrder' /\ PageInv(page, Len(edits))'
  BY <1>5, Framed
<1>8. RestInv'
  BY DEF RestInv
<1> QED
  BY <1>6, <1>7, <1>8

LEMMA RefocusStep == IInv /\ Refocus => IInv'
<1> SUFFICES ASSUME IInv, Refocus PROVE IInv'
  OBVIOUS
<1> USE DEF IInv, transferVars, serverVars, histories
<1> DEFINE to == IF page.delayRefocusId = NoCtrl THEN focus ELSE page.delayRefocusId
           p == IF to = focus THEN page ELSE OnFocus(OnChange(page), to)
<1>1. to \in Inputs \cup {NoCtrl} /\ (to # focus => to \in Inputs)
  BY DEF TypeOK, Pages
<1>2. /\ page' = [p EXCEPT !.delayRefocusId = NoCtrl]
      /\ focus' = to
      /\ typed' = (typed /\ to = focus)
      /\ edits' = IF typed /\ to # focus THEN Append(edits, focus) ELSE edits
  BY DEF Refocus
<1>3. PageInv(p, Len(edits')) /\ edits' \in Seq(Inputs)
  <2>1. CASE to = focus
    BY <1>2, <2>1 DEF TypeOK
  <2>2. CASE to # focus
    <3>1. PageInv(OnChange(page), Len(ToldEdits)) /\ ToldEdits \in Seq(Inputs) /\ Len(ToldEdits) \in Nat
      BY OnChangeKeeps
    <3>2. OnChange(page) \in Pages
      BY <3>1 DEF PageInv
    <3>3. Burst(OnChange(page), p)
      BY <1>1, <2>2, <3>2, OnFocusBurst
    <3>4. edits' = ToldEdits
      BY <1>2, <2>2 DEF ToldEdits
    <3> QED
      BY <3>1, <3>2, <3>3, <3>4, BurstKeeps
  <2> QED
    BY <2>1, <2>2
<1> HIDE DEF p
<1>4. PageInv(page', Len(edits'))
  <2>1. p \in Pages
    BY <1>3 DEF PageInv
  <2>2. /\ page' \in Pages /\ page'.changed = p.changed /\ page'.isLocking = p.isLocking
        /\ page'.waitmarks = p.waitmarks /\ page'.request = p.request
    BY <1>2, <2>1 DEF Pages
  <2> QED
    BY <1>3, <2>2 DEF PageInv, OrderInv, MarkInv
<1> HIDE DEF to
<1>5. TypeOK'
  BY <1>1, <1>2, <1>3, <1>4 DEF Refocus, TypeOK, PageInv
<1>6. InOrder' /\ PageInv(page, Len(edits))'
  BY <1>4, Framed DEF Refocus
<1>7. RestInv'
  BY <1>2 DEF Refocus, RestInv
<1> QED
  BY <1>5, <1>6, <1>7

\* removeMark takes at most one mark, addMark adds one.
LEMMA RemoveMarkFacts ==
    ASSUME NEW p \in Pages
    PROVE  /\ RemoveMark(p) \in Pages
           /\ RemoveMark(p).waitmarks = IF p.waitmarks = 0 THEN 0 ELSE p.waitmarks - 1
           /\ RemoveMark(p).changed = p.changed /\ RemoveMark(p).isLocking = p.isLocking
           /\ RemoveMark(p).request = p.request
<1>1. (IF p.waitmarks = 0 THEN 0 ELSE p.waitmarks - 1) \in Nat
  BY DEF Pages
<1> QED
  BY <1>1 DEF RemoveMark, Pages

LEMMA AddMarkFacts ==
    ASSUME NEW p \in Pages
    PROVE  /\ AddMark(p) \in Pages
           /\ AddMark(p).waitmarks = p.waitmarks + 1
           /\ AddMark(p).changed = p.changed /\ AddMark(p).isLocking = p.isLocking
           /\ AddMark(p).request = p.request
BY DEF AddMark, Pages

LEMMA CompleteFacts ==
    ASSUME NEW p \in Pages, NEW keep \in BOOLEAN
    PROVE  LET q == Complete(p, keep) IN
           /\ q \in Pages
           /\ q.waitmarks = IF keep \/ p.waitmarks = 0 THEN p.waitmarks ELSE p.waitmarks - 1
           /\ q.changed = p.changed /\ q.isLocking = FALSE /\ q.request = NoRequest
<1> DEFINE m == [p EXCEPT !.isLocking = FALSE, !.request = NoRequest]
<1>1. /\ m \in Pages /\ m.waitmarks = p.waitmarks /\ m.changed = p.changed
      /\ m.isLocking = FALSE /\ m.request = NoRequest
  BY DEF Pages, Requests
<1>2. Complete(p, keep) = IF keep THEN m ELSE RemoveMark(m)
  BY DEF Complete
<1> HIDE DEF m
<1> QED
  BY <1>1, <1>2, RemoveMarkFacts

LEMMA TransferSteps == IInv /\ (TransferDone \/ TransferFails \/ FinishTransfer) => IInv'
<1> SUFFICES ASSUME IInv, TransferDone \/ TransferFails \/ FinishTransfer PROVE IInv'
  OBVIOUS
<1> USE DEF IInv, userVars, timerVars, serverVars, histories
<1>1. CASE TransferDone
  <2>1. TypeOK'
    BY <1>1 DEF TransferDone, TypeOK
  <2>2. InOrder' /\ PageInv(page, Len(edits))'
    BY <1>1 DEF TransferDone, InOrder, PageInv, OrderInv, MarkInv, TypeOK, Pages
  <2>3. RestInv'
    BY <1>1 DEF TransferDone, RestInv, TypeOK
  <2> QED
    BY <2>1, <2>2, <2>3
<1>2. CASE FinishTransfer
  <2>1. page \in Pages /\ page' = RemoveMark(page)
    BY <1>2 DEF FinishTransfer, TypeOK
  <2>2. /\ page' \in Pages
        /\ page'.waitmarks = IF page.waitmarks = 0 THEN 0 ELSE page.waitmarks - 1
        /\ page'.changed = page.changed /\ page'.isLocking = page.isLocking
        /\ page'.request = page.request
    BY <2>1, RemoveMarkFacts
  <2>3. TypeOK'
    BY <1>2, <2>2 DEF FinishTransfer, TypeOK
  <2>4. InOrder' /\ OrderInv(page, Len(edits))'
    BY <1>2, <2>2 DEF FinishTransfer, InOrder, PageInv, OrderInv
  <2>5. MarkInv(page)'
    BY <1>2, <2>1, <2>2 DEF FinishTransfer, PageInv, MarkInv, TypeOK, RestInv, Pages
  <2>6. RestInv'
    BY <1>2 DEF FinishTransfer, RestInv, TypeOK
  <2> QED
    BY <2>2, <2>3, <2>4, <2>5, <2>6 DEF PageInv
<1>3. CASE TransferFails
  <2>1. TypeOK'
    BY <1>3 DEF TransferFails, TypeOK
  <2>2. InOrder' /\ PageInv(page, Len(edits))'
    BY <1>3 DEF TransferFails, InOrder, PageInv, OrderInv, MarkInv
  <2>3. RestInv'
    BY <1>3 DEF TransferFails, RestInv
  <2> QED
    BY <2>1, <2>2, <2>3
<1> QED
  BY <1>1, <1>2, <1>3

\* The answer to an edit is on its way: what was served stays in order.
LEMMA ServeStep == IInv /\ Serve => IInv'
<1> SUFFICES ASSUME IInv, Serve PROVE IInv'
  OBVIOUS
<1> USE DEF IInv, userVars, transferVars, timerVars, histories
<1> DEFINE chg == page.request.chg
           back == IF page.request.event = "rollback" THEN {page.request.target} ELSE {}
<1>1. /\ page \in Pages /\ page.request \in Requests /\ page.request # NoRequest
      /\ answer = NoAnswer /\ ~leaving
  BY DEF Serve, TypeOK, Pages
<1>2. chg \in Changes /\ back \subseteq Inputs
  BY <1>1 DEF Requests
<1>3. chg.val \in Nat /\ (chg # NoChange => chg.id \in Inputs /\ chg.val \in Edit)
  BY <1>2, ChangeFields
<1>4. PICK ok \in IF chg = NoChange THEN {TRUE} ELSE BOOLEAN,
           also \in {{}} \cup {{c} : c \in Derived \ {chg.id}} :
        /\ stored' = LET st == IF chg # NoChange /\ ok
                               THEN [stored EXCEPT ![chg.id] = chg.val]
                               ELSE stored
                     IN [c \in Inputs |-> IF c \in also THEN Computed ELSE st[c]]
        /\ served' = IF chg # NoChange THEN Append(served, chg.val) ELSE served
        /\ answer' = [refresh |-> (also \cup back \cup {chg.id}) \ {NoCtrl},
                      refused |-> IF ok THEN {} ELSE {chg.id}]
  BY DEF Serve
<1>5. also \subseteq Inputs
  BY <1>4, EventMgrAssumption
<1>6. chg = NoChange => ok /\ chg.id = NoCtrl
  BY <1>4 DEF NoChange
<1> HIDE DEF chg, back
<1>7. /\ answer' \in [refresh : SUBSET Inputs, refused : SUBSET Inputs]
      /\ answer'.refused \subseteq answer'.refresh
      /\ answer' # NoAnswer
  <2>1. (also \cup back \cup {chg.id}) \ {NoCtrl} \subseteq Inputs
    BY <1>2, <1>3, <1>5, <1>6
  <2>2. (IF ok THEN {} ELSE {chg.id}) \subseteq (also \cup back \cup {chg.id}) \ {NoCtrl}
    BY <1>3, <1>4, <1>6, EventMgrAssumption
  <2>3. answer'.refresh # {NoCtrl}
    BY <1>4
  <2> QED
    BY <1>4, <2>1, <2>2, <2>3 DEF NoAnswer
<1>8. stored' \in [Inputs -> Nat \cup {Computed}]
  <2>1. (IF chg # NoChange /\ ok THEN [stored EXCEPT ![chg.id] = chg.val] ELSE stored)
            \in [Inputs -> Nat \cup {Computed}]
    BY <1>3 DEF TypeOK
  <2> QED
    BY <1>4, <2>1
<1>9. served' \in Seq(Edit)
  BY <1>3, <1>4 DEF TypeOK
<1>10. TypeOK'
  BY <1>7, <1>8, <1>9 DEF Serve, TypeOK
<1>11. \A i \in DOMAIN served : served[i] \in Nat /\ (chg # NoChange => served[i] < chg.val)
  BY <1>1 DEF PageInv, OrderInv, TypeOK, Edit, chg
<1>12. InOrder'
  <2>1. CASE chg = NoChange
    BY <1>4, <2>1 DEF InOrder
  <2>2. CASE chg # NoChange
    <3>1. /\ DOMAIN served' = 1 .. Len(served) + 1
          /\ served'[Len(served) + 1] = chg.val
          /\ \A i \in 1 .. Len(served) : served'[i] = served[i]
      BY <1>3, <1>4, <2>2 DEF TypeOK
    <3>2. DOMAIN served = 1 .. Len(served) /\ Len(served) \in Nat
      BY DEF TypeOK
    <3> QED
      BY <1>11, <2>2, <3>1, <3>2 DEF InOrder
  <2> QED
    BY <2>1, <2>2
<1>13. PageInv(page, Len(edits))'
  <2>1. page' = page /\ edits' = edits /\ MarkInv(page)'
    BY DEF Serve, PageInv, MarkInv
  <2>2. \A i \in DOMAIN served' : served'[i] = chg.val \/ \E j \in DOMAIN served : served'[i] = served[j]
    BY <1>3, <1>4 DEF TypeOK
  <2>3. page.changed \in Changes /\ page.changed.val \in Nat
    BY <1>1, ChangeFields DEF Pages
  <2>4. OrderInv(page, Len(edits))'
    BY <1>1, <1>3, <1>7, <2>1, <2>2, <2>3 DEF PageInv, OrderInv, chg
  <2> QED
    BY <1>1, <2>1, <2>4 DEF PageInv
<1>14. RestInv'
  BY <1>1, <1>7 DEF Serve, RestInv
<1> QED
  BY <1>10, <1>12, <1>13, <1>14

\* The focus after an answer, and the change event it may cause.
LEMMA LoadOptionsFacts ==
    ASSUME IInv, NEW c, NEW to, NEW told \in BOOLEAN, LoadOptions(c, to, told)
    PROVE  LET q == IF told THEN OnChange(page) ELSE page IN
           /\ PageInv(q, Len(edits')) /\ q.isLocking = page.isLocking /\ q.request = page.request
           /\ q.waitmarks = page.waitmarks /\ q.delayRefocusId = page.delayRefocusId
           /\ ~told => q = page /\ UNCHANGED <<edits, snatched>>
           /\ told => /\ typed /\ ~typed' /\ edits' = ToldEdits
                      /\ snatched' = snatched \cup {Len(edits) + 1}
           /\ edits' \in Seq(Inputs) /\ Len(edits') \in Nat
           /\ timers' \subseteq timers \cup Inputs
           /\ snatched' \subseteq Edit
           /\ typed' \in BOOLEAN
           /\ typed' => typed /\ focus' = focus /\ edits' = edits /\ focus \notin answer.refresh
<1>1. /\ focus' = to /\ typed' = (typed /\ to = focus /\ focus \notin answer.refresh)
      /\ edits' = IF told THEN Append(edits, focus) ELSE edits
      /\ snatched' = IF told THEN snatched \cup {shown[focus]} ELSE snatched
      /\ told => typed /\ to # focus
      /\ timers' \subseteq timers \cup Inputs
  BY DEF LoadOptions, FocusTimer
<1>2. CASE told
  <2>1. /\ PageInv(OnChange(page), Len(ToldEdits))
        /\ ToldEdits \in Seq(Inputs) /\ Len(ToldEdits) \in Nat
        /\ OnChange(page).isLocking = page.isLocking
        /\ OnChange(page).waitmarks = page.waitmarks
        /\ OnChange(page).request = page.request
        /\ OnChange(page).delayRefocusId = page.delayRefocusId
    BY OnChangeKeeps
  <2>2. edits' = ToldEdits /\ typed /\ ~typed'
    BY <1>1, <1>2 DEF ToldEdits
  <2>3. shown[focus] = Len(edits) + 1 /\ Len(edits) \in Nat /\ snatched \subseteq Edit
    BY <2>2 DEF IInv, RestInv, TypeOK
  <2>4. snatched' = snatched \cup {Len(edits) + 1} /\ snatched' \subseteq Edit
    <3>1. Len(edits) + 1 \in Edit
      BY <2>3 DEF Edit
    <3> QED
      BY <1>1, <1>2, <2>3, <3>1
  <2> QED
    BY <1>1, <1>2, <2>1, <2>2, <2>4
<1>3. CASE ~told
  <2>1. edits' = edits /\ snatched' = snatched
    BY <1>1, <1>3
  <2>2. PageInv(page, Len(edits)) /\ edits \in Seq(Inputs) /\ snatched \subseteq Edit /\ typed \in BOOLEAN
    BY DEF IInv, TypeOK
  <2> QED
    BY <1>1, <1>3, <2>1, <2>2
<1> QED
  BY <1>2, <1>3

LEMMA AnsweredStep == \A oper \in Opers : IInv /\ Answered(oper) => IInv'
<1> SUFFICES ASSUME NEW oper \in Opers, IInv, Answered(oper) PROVE IInv'
  OBVIOUS
<1> USE DEF IInv
<1>1. PICK c \in {NoCtrl} \cup Asking, to \in Inputs \cup {NoCtrl}, told \in BOOLEAN :
        /\ LoadOptions(c, to, told)
        /\ LET q == IF told THEN OnChange(page) ELSE page
               p == CASE oper = "error"     -> RemoveMark(RemoveMark(q))
                      [] oper = "download"  -> AddMark(RemoveMark(q))
                      [] oper = "changeapp" -> q
                      [] OTHER              -> RemoveMark(q)
           IN page' = Complete(p, oper = "changeapp")
  BY DEF Answered
<1> DEFINE q == IF told THEN OnChange(page) ELSE page
           p == CASE oper = "error"     -> RemoveMark(RemoveMark(q))
                  [] oper = "download"  -> AddMark(RemoveMark(q))
                  [] oper = "changeapp" -> q
                  [] OTHER              -> RemoveMark(q)
<1>2. page' = Complete(p, oper = "changeapp")
  BY <1>1
<1>3. /\ PageInv(q, Len(edits')) /\ q.isLocking = page.isLocking /\ q.request = page.request
      /\ q.waitmarks = page.waitmarks
      /\ edits' \in Seq(Inputs) /\ Len(edits') \in Nat
      /\ timers' \subseteq timers \cup Inputs
      /\ snatched' \subseteq Edit
      /\ typed' \in BOOLEAN
      /\ typed' => typed /\ focus' = focus /\ edits' = edits /\ focus \notin answer.refresh
  BY <1>1, LoadOptionsFacts
<1>4. focus' \in Inputs \cup {NoCtrl}
  BY <1>1 DEF LoadOptions
<1> HIDE DEF q
<1>5. /\ q \in Pages /\ q.waitmarks \in Nat
      /\ answer # NoAnswer /\ ~leaving
      /\ q.request # NoRequest /\ q.isLocking
  <2>1. q \in Pages /\ answer # NoAnswer
    BY <1>3 DEF Answered, PageInv
  <2>2. q.request # NoRequest
    BY <1>3, <2>1 DEF PageInv, OrderInv
  <2> QED
    BY <1>3, <2>1, <2>2 DEF PageInv, OrderInv, RestInv, Pages
<1>6. /\ p \in Pages /\ p.changed = q.changed
      /\ p.waitmarks = CASE oper = "error"     -> IF q.waitmarks < 2 THEN 0 ELSE q.waitmarks - 2
                         [] oper = "download"  -> IF q.waitmarks = 0 THEN 1 ELSE q.waitmarks
                         [] oper = "changeapp" -> q.waitmarks
                         [] OTHER              -> IF q.waitmarks = 0 THEN 0 ELSE q.waitmarks - 1
  <2> DEFINE m == RemoveMark(q)
  <2>1. /\ m \in Pages /\ m.changed = q.changed
        /\ m.waitmarks = IF q.waitmarks = 0 THEN 0 ELSE q.waitmarks - 1
    BY <1>5, RemoveMarkFacts
  <2>2. /\ RemoveMark(m) \in Pages /\ RemoveMark(m).changed = q.changed
        /\ RemoveMark(m).waitmarks = IF m.waitmarks = 0 THEN 0 ELSE m.waitmarks - 1
    BY <2>1, RemoveMarkFacts
  <2>3. /\ AddMark(m) \in Pages /\ AddMark(m).changed = q.changed
        /\ AddMark(m).waitmarks = m.waitmarks + 1
    BY <2>1, AddMarkFacts
  <2> HIDE DEF m
  <2>4. p = CASE oper = "error"     -> RemoveMark(m)
              [] oper = "download"  -> AddMark(m)
              [] oper = "changeapp" -> q
              [] OTHER              -> m
    BY DEF m
  <2> HIDE DEF p
  <2>5. CASE oper = "error"
    BY <1>5, <2>1, <2>2, <2>4, <2>5
  <2>6. CASE oper = "download"
    BY <1>5, <2>1, <2>3, <2>4, <2>6
  <2>7. CASE oper = "changeapp"
    BY <1>5, <2>4, <2>7
  <2>8. CASE oper \notin {"error", "download", "changeapp"}
    BY <1>5, <2>1, <2>4, <2>8
  <2> QED
    BY <2>5, <2>6, <2>7, <2>8
<1> HIDE DEF p
<1>7. /\ page' \in Pages /\ page'.changed = q.changed
      /\ page'.isLocking = FALSE /\ page'.request = NoRequest
      /\ page'.waitmarks = IF oper = "changeapp" \/ p.waitmarks = 0 THEN p.waitmarks
                           ELSE p.waitmarks - 1
  <2>1. (oper = "changeapp") \in BOOLEAN
    OBVIOUS
  <2> QED
    BY <1>2, <1>6, <2>1, CompleteFacts
<1>8. TypeOK'
  <2>1. page.request.chg.val \in Nat
    <3>1. page.request \in Requests
      BY DEF TypeOK, Pages
    <3>2. page.request.chg \in Changes
      BY <3>1 DEF Requests, NoRequest, Changes
    <3> QED
      BY <3>2, ChangeFields
  <2>2. shown' \in [Inputs -> Nat \cup {Computed}]
    BY <2>1 DEF Answered, ReadResponse, TypeOK
  <2>3. bad' \subseteq Inputs
    BY <1>5 DEF Answered, ReadResponse, TypeOK
  <2>4. timers' \subseteq Inputs \cup {Title}
    BY <1>3 DEF TypeOK
  <2>5. typed' => focus' # NoCtrl
    BY <1>3 DEF TypeOK
  <2>6. transfers' \in Nat /\ hung' \in 0 .. transfers' /\ refocusing' \in Nat
    BY DEF Answered, TypeOK
  <2>7. leaving' \in BOOLEAN /\ answer' = NoAnswer
        /\ UNCHANGED <<habit, pressed, finishing, stored, served, gone>>
    BY DEF Answered, TypeOK
  <2> QED
    BY <1>3, <1>4, <1>7, <2>2, <2>3, <2>4, <2>5, <2>6, <2>7 DEF TypeOK
<1>9. InOrder'
  BY DEF Answered, InOrder
<1>10. OrderInv(page, Len(edits))'
  <2>1. page'.changed.val \in Nat /\ page'.request.chg = NoChange /\ NoChange.val = 0
    BY <1>7, ChangeFields DEF Pages, NoRequest, NoChange
  <2>2. page'.changed # NoChange => page'.changed.val > 0
    BY <1>7, ChangeFields DEF Pages
  <2>3. served' = served /\ answer' = NoAnswer
    BY DEF Answered
  <2> QED
    BY <1>3, <1>7, <2>1, <2>2, <2>3 DEF PageInv, OrderInv
<1>11. MarkInv(page)'
  <2>1. /\ q.waitmarks <= 1 + transfers + finishing
        /\ transfers \in Nat /\ finishing \in Nat /\ finishing' = finishing
        /\ transfers' = transfers + (IF oper = "download" THEN 1 ELSE 0)
        /\ leaving' = (oper = "changeapp")
    BY <1>3, <1>5 DEF Answered, PageInv, MarkInv, TypeOK
  <2>2. CASE oper = "changeapp"
    <3>1. p.waitmarks = q.waitmarks
      BY <1>6, <2>2
    <3>2. page'.waitmarks = q.waitmarks /\ page'.isLocking = FALSE
      BY <1>7, <2>2, <3>1
    <3>3. leaving'
      BY <2>1, <2>2
    <3>4. transfers' = transfers
      BY <2>1, <2>2
    <3> QED
      BY <1>5, <2>1, <3>2, <3>3, <3>4 DEF MarkInv
  <2>3. CASE oper = "download"
    BY <1>5, <1>6, <1>7, <2>1, <2>3 DEF MarkInv
  <2>4. CASE oper \notin {"changeapp", "download"}
    BY <1>5, <1>6, <1>7, <2>1, <2>4 DEF MarkInv
  <2> QED
    BY <2>2, <2>3, <2>4
<1>12. RestInv'
  <2>1. typed' => shown'[focus'] = Len(edits') + 1
    <3> SUFFICES ASSUME typed' PROVE shown'[focus'] = Len(edits') + 1
      OBVIOUS
    <3>1. /\ focus' = focus /\ edits' = edits /\ focus \notin answer.refresh
          /\ focus \in Inputs /\ shown[focus] = Len(edits) + 1
      BY <1>3 DEF TypeOK, RestInv
    <3>2. focus \notin answer.refused
      BY <3>1 DEF RestInv
    <3> QED
      BY <3>1, <3>2 DEF Answered, ReadResponse
  <2>2. answer' = NoAnswer /\ NoAnswer.refused = {} /\ UNCHANGED <<habit, finishing>>
    BY DEF Answered, NoAnswer
  <2>3. "transfer" \notin habit => transfers' = 0 /\ finishing = 0
    BY DEF Answered, RestInv, TypeOK
  <2> QED
    BY <2>1, <2>2, <2>3 DEF RestInv
<1> QED
  BY <1>7, <1>8, <1>9, <1>10, <1>11, <1>12 DEF PageInv

LEMMA FailedStep == IInv /\ Failed => IInv'
<1> SUFFICES ASSUME IInv, Failed PROVE IInv'
  OBVIOUS
<1> USE DEF IInv
<1>1. page \in Pages /\ page.request # NoRequest /\ page' = Complete(page, FALSE)
  BY DEF Failed, TypeOK
<1>2. /\ page' \in Pages /\ page'.changed = page.changed
      /\ page'.isLocking = FALSE /\ page'.request = NoRequest
      /\ page'.waitmarks = IF page.waitmarks = 0 THEN 0 ELSE page.waitmarks - 1
  BY <1>1, CompleteFacts
<1>3. /\ answer' = NoAnswer /\ refocusing' = refocusing + 1
      /\ gone' = gone \cup ({page.request.chg.val} \ {0})
      /\ UNCHANGED <<habit, shown, bad, focus, typed, pressed, timers, transfers, hung, finishing,
                     leaving, stored, served, edits, snatched>>
  BY DEF Failed, userVars, transferVars
<1>4. page.request.chg \in Changes /\ page.changed \in Changes /\ page'.changed \in Changes
  BY <1>1, <1>2 DEF Pages, Requests
<1>5. TypeOK'
  <2>1. {page.request.chg.val} \ {0} \subseteq Edit
    BY <1>4, ChangeFields DEF Edit
  <2> QED
    BY <1>2, <1>3, <2>1 DEF TypeOK
<1>6. OrderInv(page, Len(edits))'
  <2>1. page'.changed.val \in Nat /\ (page'.changed # NoChange => page'.changed.val > 0)
    BY <1>4, ChangeFields
  <2>2. page'.request.chg = NoChange /\ NoChange.val = 0 /\ Len(edits) \in Nat
    BY <1>2 DEF NoRequest, NoChange, TypeOK
  <2> QED
    BY <1>2, <1>3, <2>1, <2>2 DEF PageInv, OrderInv
<1>7. MarkInv(page)'
  <2>1. page.waitmarks \in Nat /\ page.isLocking /\ transfers \in Nat /\ finishing \in Nat
    BY <1>1 DEF PageInv, OrderInv, TypeOK, Pages
  <2> QED
    BY <1>2, <1>3, <2>1 DEF PageInv, MarkInv
<1>8. InOrder' /\ RestInv'
  BY <1>3 DEF InOrder, RestInv, NoAnswer
<1> QED
  BY <1>2, <1>5, <1>6, <1>7, <1>8 DEF PageInv

LEMMA UnloadStep == IInv /\ Unload => IInv'
<1> SUFFICES ASSUME IInv, Unload PROVE IInv'
  OBVIOUS
<1> USE DEF IInv
<1>1. /\ page' \in Pages /\ page'.changed = NoChange /\ page'.isLocking = FALSE
      /\ page'.waitmarks = 0 /\ page'.request = NoRequest
  BY DEF Unload, Pages, Changes, Requests
<1>2. page.request.chg \in Changes /\ page.changed \in Changes
  BY DEF TypeOK, Pages, Requests, NoRequest, Changes
<1>3. TypeOK'
  <2>1. {page.changed.val, page.request.chg.val} \ {0} \subseteq Edit
    BY <1>2, ChangeFields DEF Edit
  <2>2. /\ hung' = 0 /\ transfers' = 0 /\ finishing' = 0 /\ refocusing' = 0
        /\ bad' = {} /\ focus' = NoCtrl /\ typed' = FALSE /\ pressed' = NoCtrl /\ timers' = {}
        /\ leaving' = FALSE /\ answer' = NoAnswer /\ shown' = stored
        /\ gone' = gone \cup ({page.changed.val, page.request.chg.val} \ {0})
        /\ UNCHANGED <<habit, stored, served, edits, snatched>>
    BY DEF Unload
  <2>3. hung' \in 0 .. transfers'
    BY <2>2
  <2> QED
    BY <1>1, <2>1, <2>2, <2>3 DEF TypeOK
<1>4. InOrder' /\ RestInv'
  BY DEF Unload, InOrder, RestInv, NoAnswer
<1>5. OrderInv(page, Len(edits))'
  BY <1>1 DEF Unload, PageInv, OrderInv, NoRequest, NoChange, TypeOK
<1>6. MarkInv(page)'
  BY <1>1 DEF Unload, MarkInv
<1> QED
  BY <1>1, <1>3, <1>4, <1>5, <1>6 DEF PageInv

\* What uploadfile makes of the globals: a pending edit is sent to its end, or
\* dropped on a locked page, and one mark is added.
LEMMA UploadPage ==
    ASSUME IInv, Upload
    PROVE  LET p == OnChange(page) IN
           /\ page' \in Pages /\ page'.changed = NoChange
           /\ page'.isLocking = p.isLocking /\ page'.request = p.request
           /\ page'.waitmarks = 1
<1> DEFINE p == OnChange(page)
           d == [p EXCEPT !.delayRefocusId = NoCtrl]
           m == [RemoveMark(AddMark(p)) EXCEPT !.delayRefocusId = NoCtrl]
           u == IF p.changed = NoChange THEN p
                ELSE ClearChangedCtrlVal(IF p.isLocking THEN d ELSE Complete(m, FALSE))
<1>1. /\ p \in Pages /\ p.waitmarks = 0
      /\ ~p.isLocking => p.request = NoRequest
  BY OnChangeKeeps DEF PageInv, OrderInv, Upload, MouseWorks, Pages
<1>2. page' = AddMark(u)
  BY DEF Upload
<1> HIDE DEF p
<1>3. /\ d \in Pages /\ d.waitmarks = 0 /\ d.isLocking = p.isLocking /\ d.request = p.request
  BY <1>1 DEF Pages
<1>4. m \in Pages /\ m.waitmarks = 0
  <2> DEFINE x == AddMark(p)
  <2>1. x \in Pages /\ x.waitmarks = 1
    BY <1>1, AddMarkFacts
  <2> HIDE DEF x
  <2>2. RemoveMark(x) \in Pages /\ RemoveMark(x).waitmarks = 0
    BY <2>1, RemoveMarkFacts
  <2> QED
    BY <2>2 DEF x, Pages
<1> HIDE DEF d, m
<1>5. LET r == Complete(m, FALSE) IN
      r \in Pages /\ r.waitmarks = 0 /\ r.isLocking = FALSE /\ r.request = NoRequest
  BY <1>4, CompleteFacts
<1>6. /\ u \in Pages /\ u.changed = NoChange /\ u.waitmarks = 0
      /\ u.isLocking = p.isLocking /\ u.request = p.request
  <2>1. CASE p.changed = NoChange
    BY <1>1, <2>1
  <2>2. CASE p.changed # NoChange
    <3> DEFINE r == IF p.isLocking THEN d ELSE Complete(m, FALSE)
    <3>1. /\ r \in Pages /\ r.waitmarks = 0 /\ r.isLocking = p.isLocking /\ r.request = p.request
      <4>1. CASE p.isLocking
        BY <1>3, <4>1
      <4>2. CASE ~p.isLocking
        BY <1>1, <1>5, <4>2 DEF Pages
      <4> QED
        BY <4>1, <4>2
    <3>2. u = ClearChangedCtrlVal(r)
      BY <2>2
    <3> HIDE DEF r
    <3> QED
      BY <3>1, <3>2 DEF ClearChangedCtrlVal, Pages, Changes
  <2> QED
    BY <2>1, <2>2
<1> HIDE DEF u
<1> QED
  BY <1>2, <1>6, AddMarkFacts DEF p

LEMMA UploadStep == IInv /\ Upload => IInv'
<1> SUFFICES ASSUME IInv, Upload PROVE IInv'
  OBVIOUS
<1> USE DEF IInv
<1> DEFINE p == OnChange(page)
<1>1. /\ PageInv(p, Len(ToldEdits)) /\ ToldEdits \in Seq(Inputs) /\ Len(ToldEdits) \in Nat
      /\ p \in Pages
  BY OnChangeKeeps DEF PageInv
<1>2. /\ page' \in Pages /\ page'.changed = NoChange
      /\ page'.isLocking = p.isLocking /\ page'.request = p.request
      /\ page'.waitmarks = 1
  BY UploadPage
<1>3. /\ edits' = ToldEdits
      /\ refocusing' = refocusing + (IF p.changed # NoChange /\ ~p.isLocking THEN 1 ELSE 0)
      /\ transfers' = transfers + 1 /\ focus' = NoCtrl /\ typed' = FALSE
      /\ "transfer" \in habit
      /\ UNCHANGED <<habit, shown, bad, pressed, timers, hung, finishing, leaving, answer, snatched>>
  BY DEF Upload, ToldEdits
<1>4. \/ /\ p.changed # NoChange /\ ~p.isLocking
         /\ \E ok \in BOOLEAN : Take(p.changed, ok)
         /\ gone' = gone
      \/ /\ p.changed # NoChange
         /\ gone' = gone \cup {p.changed.val}
         /\ UNCHANGED <<stored, served>>
      \/ UNCHANGED <<stored, served, gone>>
  BY DEF Upload
<1> HIDE DEF p
<1>5. p.changed \in Changes
  BY <1>1 DEF Pages
<1>6. /\ stored' \in [Inputs -> Nat \cup {Computed}] /\ gone' \subseteq Edit
      /\ \/ served' = served
         \/ /\ p.changed # NoChange /\ ~p.isLocking
            /\ served' = Append(served, p.changed.val)
  <2>1. p.changed # NoChange => p.changed.id \in Inputs /\ p.changed.val \in Edit /\ p.changed.val \in Nat
    BY <1>5, ChangeFields
  <2> QED
    BY <1>4, <2>1 DEF Take, TypeOK
<1>7. served' \in Seq(Edit)
  <2>1. p.changed # NoChange => p.changed.val \in Edit
    BY <1>5, ChangeFields
  <2>2. served \in Seq(Edit)
    BY DEF TypeOK
  <2> QED
    BY <1>6, <2>1, <2>2
<1>8. TypeOK'
  <2>1. refocusing' \in Nat /\ transfers' \in Nat /\ hung' \in 0 .. transfers'
    BY <1>3 DEF TypeOK
  <2>2. focus' = NoCtrl /\ typed' = FALSE /\ edits' \in Seq(Inputs)
    BY <1>1, <1>3
  <2>3. UNCHANGED <<habit, shown, bad, pressed, timers, hung, finishing, leaving, answer, snatched>>
    BY <1>3
  <2> QED
    BY <1>2, <1>6, <1>7, <2>1, <2>2, <2>3 DEF TypeOK
<1>9. /\ InOrder'
      /\ \A i \in DOMAIN served' : served'[i] <= Len(ToldEdits)
      /\ \A i \in DOMAIN served' : served' = served \/ p.request = NoRequest
  <2>1. CASE served' = served
    BY <1>1, <2>1 DEF InOrder, PageInv, OrderInv
  <2>2. CASE /\ p.changed # NoChange /\ ~p.isLocking
             /\ served' = Append(served, p.changed.val)
    <3>1. p.changed.val \in Edit
      BY <1>5, <2>2, ChangeFields
    <3>2. /\ DOMAIN served' = 1 .. Len(served) + 1 /\ DOMAIN served = 1 .. Len(served)
          /\ Len(served) \in Nat
          /\ served'[Len(served) + 1] = p.changed.val
          /\ \A i \in 1 .. Len(served) : served'[i] = served[i]
      BY <2>2, <3>1 DEF TypeOK
    <3>3. /\ \A i \in DOMAIN served : served[i] < p.changed.val /\ served[i] <= Len(ToldEdits)
          /\ p.changed.val <= Len(ToldEdits) /\ p.request = NoRequest
      BY <1>1, <2>2 DEF PageInv, OrderInv
    <3>4. \A i \in DOMAIN served : served[i] \in Nat
      BY DEF TypeOK, Edit
    <3> QED
      BY <3>2, <3>3, <3>4 DEF InOrder
  <2> QED
    BY <1>6, <2>1, <2>2
<1>10. OrderInv(page, Len(edits))'
  <2>1. NoChange.val = 0 /\ NoRequest.chg = NoChange
    BY DEF NoChange, NoRequest
  <2> QED
    BY <1>1, <1>2, <1>3, <1>9, <2>1 DEF PageInv, OrderInv
<1>11. MarkInv(page)'
  BY <1>2, <1>3 DEF MarkInv, TypeOK
<1>12. RestInv'
  BY <1>3 DEF RestInv
<1> QED
  BY <1>2, <1>8, <1>9, <1>10, <1>11, <1>12 DEF PageInv

LEMMA InitIInv == Init => IInv
<1> SUFFICES ASSUME Init PROVE IInv
  OBVIOUS
<1>1. page \in Pages
  BY DEF Init, Pages, Changes, Requests
<1>2. TypeOK
  <2>1. /\ shown \in [Inputs -> Nat \cup {Computed}] /\ stored \in [Inputs -> Nat \cup {Computed}]
        /\ habit \in DOMAIN MaxEdits
    BY DEF Init
  <2>2. edits \in Seq(Inputs) /\ served \in Seq(Edit)
    BY DEF Init
  <2>3. /\ bad = {} /\ focus = NoCtrl /\ typed = FALSE /\ pressed = NoCtrl /\ timers = {}
        /\ refocusing = 0 /\ transfers = 0 /\ finishing = 0 /\ leaving = FALSE /\ hung = 0
        /\ answer = NoAnswer /\ snatched = {} /\ gone = {}
    BY DEF Init
  <2>4. hung \in 0 .. transfers
    BY <2>3
  <2> QED
    BY <1>1, <2>1, <2>2, <2>3, <2>4 DEF TypeOK
<1>3. InOrder /\ RestInv
  BY DEF Init, InOrder, RestInv, NoAnswer
<1>4. OrderInv(page, Len(edits)) /\ MarkInv(page)
  BY DEF Init, OrderInv, MarkInv, NoChange, NoRequest
<1> QED
  BY <1>1, <1>2, <1>3, <1>4 DEF IInv, PageInv

LEMMA NextIInv == IInv /\ [Next]_vars => IInv'
<1> SUFFICES ASSUME IInv, [Next]_vars PROVE IInv'
  OBVIOUS
<1>1. CASE Next
  BY <1>1, TypeStep, MousePressStep, MouseClickStep, TabStep, ResetValStep, TimerSteps,
     RefocusStep, TransferSteps, ServeStep, AnsweredStep, FailedStep, UploadStep, UnloadStep
     DEF Next
<1>2. CASE UNCHANGED vars
  BY <1>2 DEF vars, userVars, transferVars, timerVars, serverVars, histories, IInv, TypeOK, InOrder, PageInv,
              OrderInv, MarkInv, RestInv
<1> QED
  BY <1>1, <1>2

THEOREM IInvHolds == Spec => []IInv
BY InitIInv, NextIInv, PTL DEF Spec

-----------------------------------------------------------------------------
(* The theorems.                                                           *)

\* The globals of the script, the fields and the histories have their types.
THEOREM TypeCorrect == Spec => []TypeOK
<1>1. IInv => TypeOK
  BY DEF IInv
<1> QED
  BY <1>1, IInvHolds, PTL

\* The server learns of the edits in the order in which they were made, and of
\* none twice, whatever is lost on the way and whoever presses what when.
THEOREM EditsInOrder == Spec => []InOrder
<1>1. IInv => InOrder
  BY DEF IInv
<1> QED
  BY <1>1, IInvHolds, PTL

\* No wait mark is left on a page with nothing to wait for.
THEOREM MarksAccounted == Spec => []NoMarkLeft
<1>1. IInv => NoMarkLeft
  BY DEF IInv, PageInv, MarkInv, NoMarkLeft
<1> QED
  BY <1>1, IInvHolds, PTL

\* A page without transfers is covered as long as a request is out.
THEOREM RequestCovered == Spec => []BusyIsCovered
<1>1. IInv => BusyIsCovered
  BY DEF IInv, PageInv, MarkInv, BusyIsCovered
<1> QED
  BY <1>1, IInvHolds, PTL
=============================================================================
