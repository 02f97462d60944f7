CONSTANTS
    Member = {1, 2}
    Change = {3, 7}
    Cut = 5
    Window = 2
    MaxLen = 3
    MaxFaults = 0
    MaxCrash = 0
    MaxLog = 3
SPECIFICATION Spec
INVARIANT NobodyLags
CHECK_DEADLOCK FALSE
CONSTRAINT Scenario
