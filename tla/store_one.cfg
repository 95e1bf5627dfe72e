\* store_one
CONSTANTS
    text = text
    fileList = fileList
    image = image
    link = link
    app = app
    cli = cli
    Procs = {app}
    NoProc = NoProc
    NoPayload = NoPayload
    Payloads <- MCMany
    HashOf <- MCHashOf
    Configs <- MCConfigsOne
    ItemCeiling = 2
    PinCeiling = 2
    MaxTime = 6
    ClockStepsBack = FALSE
    MaxId = 5
SPECIFICATION Spec
INVARIANTS HistoryBounded OneRowPerHash
PROPERTIES StaleIdsInert NoneOnlyWhenFiltered
