SPECIFICATION Spec
CONSTANTS
    l1 = l1
    l2 = l2
    l3 = l3
    l4 = l4
    s1 = s1
    s2 = s2
    NoLine = NoLine
    Rooms <- MCRooms
    Items <- MCItems
    Assets <- MCAssets
    Data <- MCData
    Slip <- MCSlip
    RoomType <- MCRoomType
    InitStock <- MCStock
    Held <- MCHeld
    MrRows <- MCMrRows
    Required <- MCRequired
    Lines = {l3, l4}
    Sessions = {s1, s2}
    MayOpen <- Disjoint
    Failures = {"crash", "query"}
INVARIANTS
    AtMostOrdered
    PostedBeforeMoved
    HeaderMeansAllLines
PROPERTIES
    ReceiptIsFinal
CHECK_DEADLOCK TRUE
