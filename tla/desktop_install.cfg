\* desktop_install
CONSTANTS
    WaitAttempts = 2
SPECIFICATION FairSpec
PROPERTIES CleanRunsComplete ReloadIsVerified CommandsEnd
