SPECIFICATION Spec
CONSTANTS
    a = a
    b = b
    c = c
    Inputs = {a, b}
    Derived = {}
    Kind <- MCKind
    Button = Button
    Title = Title
    NoCtrl = NoCtrl
    MaxEdits <- MCTabbing
    MaxTransfers = 1
    MaxRefocus = 2
INVARIANTS
    ClearedWhenAccepted
CHECK_DEADLOCK TRUE
