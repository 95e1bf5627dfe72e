\* popup_list
CONSTANTS
    MaxItems = 1
    ListLimit = 2
    Found <- FoundIds
    MaxId = 2
    MaxQueued = 2
SPECIFICATION FairSpec
INVARIANTS TypeOK RowsAreItems NoLostRefresh
PROPERTIES ListCatchesUp
