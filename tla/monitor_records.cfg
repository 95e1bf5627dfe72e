\* monitor_records
CONSTANTS
    Workers = {1, 2}
    Sides = 2
    MaxChanges = 3
    MaxWrites = 2
SPECIFICATION FairSpec
INVARIANTS CapturedInOrder QuietMeansRecorded
PROPERTIES OwnWritesUnrecorded HearsAgain
CHECK_DEADLOCK FALSE
