\* store_two
CONSTANTS
    text = text
    fileList = fileList
    image = image
    link = link
    app = app
    cli = cli
    Procs = {app, cli}
    NoProc = NoProc
    NoPayload = NoPayload
    Payloads <- MCPair
    HashOf <- MCHashOf
    Configs <- MCConfigs
    ItemCeiling = 2
    PinCeiling = 1
    MaxTime = 1
    ClockStepsBack = TRUE
    MaxId = 2
SPECIFICATION FairSpec
INVARIANTS IInv
PROPERTIES ImplementsBoundedHistory CallsReturn
