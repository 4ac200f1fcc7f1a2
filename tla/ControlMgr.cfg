\* One tab group on the page and one table with details in a dialog: panels are
\* loaded in front of, and behind, other dialogs.
SPECIFICATION Spec
CONSTANTS
    Page = "page"
    Dialogs <- MCDialogs
    Content <- MCContent
    Panel <- MCPanel
    Trees = {"nav"}
    MaxMade = 2
INVARIANTS
    TypeOK
    RegisterIsDisplay
    StillReachable
    TopDialogIsTop
