SPECIFICATION Spec
CONSTANTS
    Member = {m1, m2, m3, m4}
    Digest = {1, 2}
    Down = {m4}
    RingK = 2
    HoldMax = 3
    MaxFrames = 2
    MaxLose = 1
    MaxKill = 1
SYMMETRY Seats
CONSTRAINT Scenario
INVARIANTS
    TypeOK
    EvictedCommitLoses
    EpochsConverge
PROPERTIES
    DrainLeavesNothingReadable
CHECK_DEADLOCK FALSE
