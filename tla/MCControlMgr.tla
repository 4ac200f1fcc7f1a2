---------------------------- MODULE MCControlMgr ----------------------------
(***************************************************************************)
(* A page with a tree and a tab group, and three dialogs: one with a table *)
(* with details and a text box after it, two with a tree each.             *)
(***************************************************************************)
EXTENDS ControlMgr, TLC

MCDialogs == {"find", "ask", "pick"}

MCContent == "page" :> <<"nav", "tabs">> @@ "find" :> <<"list", "name">>
             @@ "ask" :> <<"nodes">> @@ "pick" :> <<>>

MCPanel == "tabs" :> <<"qty", "lines">> @@ "list" :> <<"detail">>
=============================================================================
