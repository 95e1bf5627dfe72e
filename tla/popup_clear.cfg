\* popup_clear
CONSTANTS
    MaxItems = 1
    ListLimit = 2
    Found <- FoundIds
    MaxId = 2
    MaxQueued = 2
SPECIFICATION Spec
PROPERTIES ClearKeepsPromise
