\* paste_setup
CONSTANTS
    Hosts <- Desktops
    MaxLost = 1
SPECIFICATION PasteSpec
INVARIANTS RootStepsWereShown PressedOnce
PROPERTIES LoginCompletesSetup SetupSaysTrue
