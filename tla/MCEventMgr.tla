----------------------------- MODULE MCEventMgr -----------------------------
(***************************************************************************)
(* EventMgr for TLC: a page with a text box and a combobox, or with two    *)
(* text boxes.                                                             *)
(***************************************************************************)
EXTENDS EventMgr, TLC

CONSTANTS a, b, c

AllKind == a :> "text" @@ b :> "text" @@ c :> "combo"
MCKind == [i \in Inputs |-> AllKind[i]]

\* Two edits by a careful user; one where something else goes on as well.
MCMaxEdits ==
    [h \in {{}, {"tab"}, {"fail"}, {"transfer"}, {"transfer", "fail"}} |->
        IF h = {} THEN 2 ELSE IF Cardinality(h) = 2 THEN 0 ELSE 1]

\* A user who tabs through the page with the keyboard.
MCTabbing == [h \in {{"tab"}} |-> 2]
=============================================================================
