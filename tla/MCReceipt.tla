----------------------------- MODULE MCReceipt -----------------------------
(***************************************************************************)
(* Receipt for TLC: three lines of one slip from the centre C to the site  *)
(* S, one of each kind of item and of each route, and the properties.      *)
(***************************************************************************)
EXTENDS Receipt, TLC

CONSTANTS l1, l2, l3, l4, s1, s2

MCRooms == {"C", "S"}
MCItems == {"board", "cable", "fuse"}
MCAssets == {"a1"}

\* l1: a serialised board, moved through the ERP.  l2: two cables of a lot,
\* between storerooms of one centre.  l3: two fuses from an ERP location the
\* code knows no rule for, a customer's repaired part.  l4: a fuse through the
\* ERP, on the same inventory rows as l3.
AllData ==
    l1 :> [item |-> "board", kind |-> "SQN", from |-> "C", to |-> "S", orderqty |-> 1,
           route |-> "erp", sx |-> "none", binned |-> TRUE, lotted |-> FALSE,
           asset |-> "a1", iskhitem |-> FALSE, mrrow |-> "r1"] @@
    l2 :> [item |-> "cable", kind |-> "LOT", from |-> "C", to |-> "S", orderqty |-> 2,
           route |-> "local", sx |-> "none", binned |-> FALSE, lotted |-> TRUE,
           asset |-> "a1", iskhitem |-> FALSE, mrrow |-> "r2"] @@
    l3 :> [item |-> "fuse", kind |-> "OTHER", from |-> "C", to |-> "S", orderqty |-> 2,
           route |-> "other", sx |-> "none", binned |-> FALSE, lotted |-> FALSE,
           asset |-> "a1", iskhitem |-> TRUE, mrrow |-> "r2"] @@
    l4 :> [item |-> "fuse", kind |-> "OTHER", from |-> "C", to |-> "S", orderqty |-> 1,
           route |-> "erp", sx |-> "none", binned |-> FALSE, lotted |-> FALSE,
           asset |-> "a1", iskhitem |-> FALSE, mrrow |-> "r1"]

MCData == [l \in Lines |-> AllData[l]]

MCSlip == [type |-> "ZXD", move |-> "centreToSite", sx |-> "none", mrtype |-> "project"]
MCRoomType == [r \in MCRooms |-> IF r = "C" THEN "centre" ELSE "regular"]

\* The centre holds three of each item, the site none, and no row of the
\* board and the fuse yet.
MCStock ==
    [inventory |-> [k \in MCRooms \X MCItems |->
        CASE k[1] = "C" -> [exists |-> TRUE, curbal |-> 3, locqty |-> 3]
          [] k = <<"S", "cable">> -> [exists |-> TRUE, curbal |-> 0, locqty |-> 0]
          [] OTHER -> NoRow],
     locbinitem |-> [k \in MCRooms \X MCItems |->
        IF k = <<"C", "board">> THEN [exists |-> TRUE, qty |-> 3] ELSE NoQty],
     invblance |-> [k \in MCRooms \X MCItems |->
        IF k = <<"C", "cable">> THEN [exists |-> TRUE, qty |-> 3] ELSE NoQty],
     asset |-> [a \in MCAssets |->
        [exists |-> TRUE, location |-> "C", status |-> "inTransit"]]]

MCHeld == [k \in MCRooms \X MCItems |-> 0]
MCMrRows == {Data[l].mrrow : l \in Lines}
MCRequired == [r \in MCMrRows |->
    MapThenSumSet(LAMBDA l : MCData[l].orderqty, {l \in Lines : MCData[l].mrrow = r})]

ASSUME Issued == WellIssued

AllLines == [s \in Sessions |-> Lines]
\* Two sessions that never receive the same line.
Disjoint == s1 :> Lines \cap {l1, l4} @@ s2 :> Lines \ {l1, l4}

----------------------------------------------------------------------------
(* Liveness.                                                               *)

\* A receipt that starts to move goods ends with the line saved for exactly
\* what was moved.
MovedIsSaved ==
    \A s \in Sessions, l \in Lines :
        (pc[s] = "readOut" /\ cur[s] = l) ~>
            (/\ transferline[l].status # "notReceived"
             /\ transferline[l].yjsqty = moved[l].in)

----------------------------------------------------------------------------
(* What the code's own texts say, and the code does not do.                *)

\* Nobody is receiving, and no page has unsaved lines.
Quiet == \A s \in Sessions : pc[s] = "idle" /\ page[s].dirty = {}

\* A line received in part can be received further: execute() accepts the
\* status 部分接收, and the dialog offers the rest.
PartCanContinue ==
    \A l \in Lines :
        Quiet /\ transferline[l].status = "partReceived" => l \notin erpiface

\* Not more is received than is left to receive, from any browser window.
NotMoreThanLeft == \A l \in Lines : moved[l].in <= Data[l].orderqty

\* A slip all of whose lines are received is received, so that nobody is
\* reminded to receive it.
AllLinesMeanHeader ==
    Quiet /\ (\A l \in Lines : transferline[l].status = "received") => transfer = "received"

\* ENDPAYQTY is the quantity transferred for the request.
EndPayIsTransferred ==
    Quiet /\ NothingLost => \A i \in Items :
        endpayqty[i] = SumFunctionOnSet([l \in Lines |-> moved[l].in],
                                        {l \in Lines : Data[l].item = i})
=============================================================================
