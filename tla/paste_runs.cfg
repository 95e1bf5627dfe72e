\* paste_runs
CONSTANTS
    TextItems = {a}
    OtherItems = {img}
    Windows = {editor}
    Popup = Popup
    None = None
    Sides = {wayland, x11}
    Readable = {wayland, x11}
    Writable = {wayland}
    Attempts = 2
    MaxToken = 4
SPECIFICATION FairSpec
INVARIANTS ComparedOwnText OldSelectionGone OpenWindowHoldsPastes
PROPERTIES AnsweredOnce EveryChoiceEnds
CHECK_DEADLOCK FALSE
