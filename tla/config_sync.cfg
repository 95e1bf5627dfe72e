\* config_sync
CONSTANTS
    limit = limit
    shortcut = shortcut
    first = first
    second = second
    Names = {limit, shortcut}
    Values = {first, second}
    Invalid = invalid
    Missing = missing
    Broken = broken
    Default <- MCDefault
    Shortcut = shortcut
    MaxChanges = 4
SPECIFICATION FairSpec
INVARIANTS ChoicesStay
PROPERTIES EditArrives Settles
CHECK_DEADLOCK FALSE
