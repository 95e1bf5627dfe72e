\* history_files
CONSTANTS
    Procs = {app, cli}
    Texts = {text}
    Images = {image}
    Broken = {broken}
    MaxFiles = 3
SPECIFICATION Spec
INVARIANTS UpgradeIsWhole OneHistory
PROPERTIES V1RowsSurvive
