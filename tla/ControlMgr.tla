----------------------------- MODULE ControlMgr -----------------------------
(***************************************************************************)
(* The control manager of a page of the web client (controlmgr.js): the    *)
(* register that takes an id of the server to the object of its control,   *)
(* and the dialogs opened over the page.                                   *)
(*                                                                         *)
(* The register is one array.  A dialog is an entry of it, and the         *)
(* controls put while the dialog's content was loaded follow that entry;   *)
(* nothing else says which controls are a dialog's.  What an answer of the *)
(* server does is one action; its calls are operators from a record p of   *)
(* the script's variables and the controls on display to that record after *)
(* the call.  The server is the environment, which names what is loaded.   *)
(***************************************************************************)
EXTENDS Integers, Sequences, FiniteSets, SequencesExt

CONSTANTS
    Page,     \* the page, as the place of the controls outside any dialog
    Dialogs,  \* ids of dialogs
    Content,  \* of the page and of a dialog: ids in its content, in the order of their scripts
    Panel,    \* of a tab group, or of a table with details: ids in what is loaded into it
    Trees,    \* ids of trees, which replace their object when they are refreshed
    MaxMade   \* bound: objects made for one id since the page was loaded

Places == {Page} \cup Dialogs
Groups == DOMAIN Panel
Ids    == UNION ({Range(Content[a]) : a \in Places} \cup {Range(Panel[g]) : g \in Groups})
Keys   == Dialogs \cup Ids

\* All ids that are on display only as long as a is.
Within(a) == Range(Content[a]) \cup UNION {Range(Panel[g]) : g \in Groups \cap Range(Content[a])}

ASSUME ControlMgrAssumption ==
    /\ Page \notin Dialogs /\ Dialogs \cap Ids = {}
    /\ DOMAIN Content = Places
    /\ \A a \in Places : Content[a] \in Seq(Range(Content[a]))
    /\ \A g \in Groups : Panel[g] \in Seq(Range(Panel[g]))
    /\ \A a, b \in Places : a # b => Within(a) \cap Within(b) = {}
    /\ \A g \in Groups : \E a \in Places : g \in Range(Content[a])
    /\ \A a \in Places : IsInjective(Content[a])
    /\ \A g, h \in Groups : /\ IsInjective(Panel[g])
                            /\ g # h => Range(Panel[g]) \cap Range(Panel[h]) = {}
                            /\ \A a \in Places : Range(Panel[g]) \cap Range(Content[a]) = {}
    /\ Trees \subseteq Ids
    /\ MaxMade \in Nat \ {0}

\* The object of no control: null.  The objects made for an id are numbered from 1.
Null == 0

VARIABLES
    mgr,    \* the script: ctrls, dialogList, dialogCount; the page: shown, made
    open,   \* server: its open dialogs, in the order they were opened
    worn,   \* history: ids put a second time, or taken from the page with a group around them
    behind  \* history: ids put while a dialog was open over their place

vars == <<mgr, open, worn, behind>>

-----------------------------------------------------------------------------
(* The calls.                                                              *)

IndexOf(p, k) == SelectInSeq(p.ctrls, LAMBDA e : e.key = k)

\* The oldest entry of the id.
Get(p, k) == IF IndexOf(p, k) = 0 THEN Null ELSE p.ctrls[IndexOf(p, k)].obj

\* The scripts of some content make and put its controls.
PutAll(p, ks) ==
    LET made == [k \in Keys |-> p.made[k] + (IF k \in Range(ks) THEN 1 ELSE 0)] IN
    [p EXCEPT !.ctrls = @ \o [i \in DOMAIN ks |-> [key |-> ks[i], obj |-> made[ks[i]]]],
              !.shown = [k \in Keys |-> IF k \in Range(ks) THEN made[k] ELSE @[k]],
              !.made = made]

\* A loop that splices out the elements it meets among the positions hits goes on
\* behind the element after each.
Spliced(s, hits) ==
    LET out[i \in DOMAIN s] == i \in hits /\ (i > 1 => ~out[i - 1])
        left   == {i \in DOMAIN s : ~out[i]}
        nth(n) == CHOOSE i \in left : Cardinality({j \in left : j <= i}) = n
    IN [n \in 1..Cardinality(left) |-> s[nth(n)]]

\* The array of the tables that resize with the layout is left out: removeFromResizes
\* compares the key of a string with the id, and takes nothing out of it.
RemoveCtrl(p, k) == [p EXCEPT !.ctrls = Spliced(@, {i \in DOMAIN @ : @[i].key = k})]

Replace(p, k) ==
    LET i == IndexOf(p, k) IN
    [p EXCEPT !.ctrls = IF i = 0 THEN @ ELSE [@ EXCEPT ![i] = [key |-> k, obj |-> p.made[k] + 1]],
              !.made[k] = @ + 1,
              !.shown[k] = p.made[k] + 1]

Hide(p, ks) == [p EXCEPT !.shown = [k \in Keys |-> IF k \in ks THEN Null ELSE @[k]]]

\* Mutant: the dialog is put after its content was loaded.
PutDialog_late(p, d) ==
    LET q == PutAll(PutAll(p, Content[d]), <<d>>) IN
    [q EXCEPT !.dialogCount = @ + 1, !.dialogList = Append(@, d)]

\* putDialog, and reopenDialog.
PutDialog(p, d) ==
    LET q == PutAll(PutAll(p, <<d>>), Content[d]) IN
    [q EXCEPT !.dialogCount = @ + 1, !.dialogList = Append(@, d)]

\* Mutant: the first dialog of the list goes, whichever was closed.
RemoveDialog_first(p, d) ==
    LET i    == IndexOf(p, d)
        next == SelectInSeq(SubSeq(p.ctrls, i + 1, Len(p.ctrls)), LAMBDA e : e.key \in Dialogs)
    IN [p EXCEPT !.ctrls = IF i = 0 THEN @
                           ELSE SubSeq(@, 1, i - 1)
                                \o (IF next = 0 THEN <<>> ELSE SubSeq(@, i + next, Len(@))),
                 !.dialogList = Tail(@),
                 !.dialogCount = @ - 1]

\* Mutant: the controls behind the dialog go to the end of the array.
RemoveDialog_rest(p, d) ==
    LET i == IndexOf(p, d)
    IN [p EXCEPT !.ctrls = IF i = 0 THEN @ ELSE SubSeq(@, 1, i - 1),
                 !.dialogList = Spliced(@, {j \in DOMAIN @ : @[j] = d}),
                 !.dialogCount = @ - 1]

\* The dialog's entry goes, with all behind it up to the next dialog.
RemoveDialog(p, d) ==
    LET i    == IndexOf(p, d)
        next == SelectInSeq(SubSeq(p.ctrls, i + 1, Len(p.ctrls)), LAMBDA e : e.key \in Dialogs)
    IN [p EXCEPT !.ctrls = IF i = 0 THEN @
                           ELSE SubSeq(@, 1, i - 1)
                                \o (IF next = 0 THEN <<>> ELSE SubSeq(@, i + next, Len(@))),
                 !.dialogList = Spliced(@, {j \in DOMAIN @ : @[j] = d}),
                 !.dialogCount = @ - 1]

GetTopDialog(p) ==
    IF p.dialogCount <= 0 \/ p.dialogList = <<>> THEN Null ELSE Get(p, Last(p.dialogList))

\* The register when the scripts of a page begin.
Blank == [ctrls |-> <<>>, dialogList |-> <<>>, dialogCount |-> 0,
          shown |-> [k \in Keys |-> Null], made |-> [k \in Keys |-> 0]]

-----------------------------------------------------------------------------
(* What the server asks of the page.                                       *)

CanMake(ks) == \A k \in ks : mgr.made[k] < MaxMade

Init ==
    /\ mgr = PutAll(Blank, Content[Page])
    /\ open = <<>> /\ worn = {} /\ behind = {}

Open(d) ==
    /\ d \notin Range(open) /\ CanMake({d} \cup Range(Content[d]))
    /\ mgr' = PutDialog(mgr, d)
    /\ open' = Append(open, d)
    /\ UNCHANGED <<worn, behind>>

\* Mutant: removeDialog is called whether or not the dialog is registered.
Close_unasked(d) ==
    /\ mgr' = RemoveDialog(Hide(mgr, {d} \cup Within(d)), d)
    /\ open' = RemoveFirst(open, d)
    /\ worn' = worn \ Within(d)
    /\ UNCHANGED behind

\* closeDialog.  The server may ask twice; a dialog not registered is left alone.
Close(d) ==
    /\ mgr' = IF Get(mgr, d) = Null THEN mgr
              ELSE RemoveDialog(Hide(mgr, {d} \cup Within(d)), d)
    /\ open' = RemoveFirst(open, d)
    /\ worn' = worn \ Within(d)
    /\ UNCHANGED behind

\* The dialogs open over the page, or over the dialog, that holds g.
Over(g) ==
    IF g \in Range(Content[Page]) THEN Range(open)
    ELSE LET i == SelectInSeq(open, LAMBDA d : g \in Range(Content[d])) IN
         {open[j] : j \in i + 1..Len(open)}

\* loadData of a tab group, loadDetails of a table: the panel gets new content.
\* Neither takes the entries of the old content out of the register.
LoadPanel(g) ==
    /\ Get(mgr, g) # Null /\ CanMake(Range(Panel[g]))
    /\ mgr' = PutAll(mgr, Panel[g])
    /\ worn' = worn \cup {k \in Range(Panel[g]) : Get(mgr, k) # Null}
    /\ behind' = behind \cup (IF Over(g) = {} THEN {} ELSE Range(Panel[g]))
    /\ UNCHANGED open

\* remove of a tab group, deletePortal: the entries of what was inside stay.
RemoveGroup(g) ==
    /\ Get(mgr, g) # Null
    /\ mgr' = RemoveCtrl(Hide(mgr, {g} \cup Range(Panel[g])), g)
    /\ worn' = worn \cup {k \in Range(Panel[g]) : Get(mgr, k) # Null}
    /\ UNCHANGED <<open, behind>>

\* A tree that gets all its nodes anew.
RebuildTree(k) ==
    /\ k \in Trees /\ Get(mgr, k) # Null /\ mgr.shown[k] # Null /\ CanMake({k})
    /\ mgr' = Replace(mgr, k)
    /\ UNCHANGED <<open, worn, behind>>

\* The user comes back to the application: the page is loaded anew, and its
\* scripts reopen the dialogs the server still has open.
Return ==
    /\ LET page[n \in 0..Len(open)] ==
              IF n = 0 THEN PutAll(Blank, Content[Page]) ELSE PutDialog(page[n - 1], open[n])
       IN mgr' = page[Len(open)]
    /\ worn' = {} /\ behind' = {}
    /\ UNCHANGED open

Next ==
    \/ \E d \in Dialogs : Open(d) \/ Close(d)
    \/ \E g \in Groups : LoadPanel(g) \/ RemoveGroup(g)
    \/ \E k \in Trees : RebuildTree(k)
    \/ Return

Spec == Init /\ [][Next]_vars

-----------------------------------------------------------------------------
(* Properties.                                                             *)

\* The variables keep their types; an entry's object was made, and no count is negative.
TypeOK ==
    /\ DOMAIN mgr = DOMAIN Blank
    /\ \A i \in DOMAIN mgr.ctrls : /\ mgr.ctrls[i].key \in Keys
                                   /\ mgr.ctrls[i].obj \in 1..mgr.made[mgr.ctrls[i].key]
    /\ Range(mgr.dialogList) \subseteq Dialogs
    /\ mgr.dialogCount \in Nat
    /\ \A k \in Keys : mgr.made[k] \in 0..MaxMade /\ mgr.shown[k] \in {Null, mgr.made[k]}
    /\ Range(open) \subseteq Dialogs /\ worn \subseteq Ids /\ behind \subseteq Ids

\* What the register finds for an id is the object on display, and nothing once
\* its dialog was closed: a refresh of the server reaches the control the user
\* sees, however dialogs were stacked and closed.  It is so for every id loaded
\* once, with no dialog over its place (controlmgr.js, put, get, removeDialog).
RegisterIsDisplay ==
    \A k \in Keys \ (worn \cup behind) : Get(mgr, k) = mgr.shown[k]

\* An id that was loaded again is still found, if only by its oldest object: no
\* closing of another dialog takes a control on display out of the register.
StillReachable ==
    \A k \in Keys \ behind : mgr.shown[k] # Null => Get(mgr, k) # Null

\* The dialog that is resized after each answer is the one the user has before
\* him, and the count the select boxes and message boxes go by is the number of
\* dialogs open (getTopDialog, getDialogCount).
TopDialogIsTop ==
    /\ mgr.dialogCount = Len(open)
    /\ GetTopDialog(mgr) = IF open = <<>> THEN Null ELSE mgr.shown[Last(open)]
=============================================================================
