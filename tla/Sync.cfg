CONSTANTS
    Member = {1, 2}
    Change = {3, 7}
    Cut = 5
    Window = 2
    MaxLen = 3
    MaxFaults = 1
    MaxCrash = 1
    MaxLog = 3
SPECIFICATION Spec
INVARIANTS TypeOK CutHistoryStands LevelOrKnown
CHECK_DEADLOCK FALSE
CONSTRAINT Scenario
