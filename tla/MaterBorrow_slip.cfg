SPECIFICATION Spec
CONSTANTS
    l1 = l1
    l2 = l2
    l3 = l3
    s1 = s1
    s2 = s2
    NoLine = NoLine
    NoAsset = NoAsset
    NotRead = NotRead
    Items <- MCItems
    Kind <- MCKind
    Item <- MCItem
    Asset <- MCAsset
    Assets <- MCAssets
    Serials <- MCSerials
    ItemOf <- MCItemOf
    InitStock <- MCStock
    Sessions = {s1, s2}
    MayReturn <- Disjoint
    Lines = {l1, l2}
    MaxLate = 2
    Failures = {"crash", "throws", "query", "swallow"}
INVARIANTS
    TypeOK
    AllReturnedMeansAll
    GoodsAccounted
    LedgerExplainsBalance
PROPERTIES
    SettledIsFinal
CHECK_DEADLOCK TRUE
