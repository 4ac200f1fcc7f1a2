SPECIFICATION FairSpec
CONSTANTS
    a = a
    b = b
    c = c
    Inputs = {a, c}
    Derived = {c}
    Kind <- MCKind
    Button = Button
    Title = Title
    NoCtrl = NoCtrl
    MaxEdits <- MCMaxEdits
    MaxTransfers = 1
    MaxRefocus = 1
INVARIANTS
    TypeOK
    InOrder
    NoMarkLeft
    BusyIsCovered
    EditsKept
    PageTruthful
PROPERTIES
    PageIsFreed
CHECK_DEADLOCK TRUE
