SPECIFICATION Spec
CONSTANTS
    Receiver = {r1}
    LogEnd = 6
    Ackable <- LongLog
    Declines = {3}
    WordBits = 2
    Words = 2
    ParkMax = 1
    MaxFrames = 5
    MaxLost = 1
    MaxLostSheets = 0
    MaxCrash = 0
    MaxValve = 1
INVARIANTS
    ReadsAsTheSet
    FirstMissingGetsIn
CONSTRAINT WrittenFirst
CHECK_DEADLOCK FALSE
