SPECIFICATION Spec
CONSTANTS
    Seat = {3, 5, 9}
    Window = 3
    OpenMax = 1
    MaxId = 4
    MaxLose = 1
INVARIANTS
    TypeOK
    OneChangePerId
    MinterIsKnown
    MintIsNew
CONSTRAINT Scenario
CHECK_DEADLOCK FALSE
