SPECIFICATION Spec
CONSTANTS
    Receiver = {r1}
    LogEnd = 4
    Ackable <- OwnEnvelopes
    Declines = {2}
    WordBits = 1
    Words = 2
    ParkMax = 1
    MaxFrames = 5
    MaxLost = 2
    MaxLostSheets = 0
    MaxCrash = 1
    MaxValve = 1
CONSTRAINT Scenario
INVARIANTS
    TypeOK
    InOrderFromTheBaseline
    ConfirmedIsHeard
PROPERTIES
    OwedAckIsSent
CHECK_DEADLOCK FALSE
