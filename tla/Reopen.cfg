SPECIFICATION Spec
CONSTANTS
    Member = {1, 2, 3}
    Minter = 1
    RuleM = 2
    Self = 2
    MaxHead = 2
    MaxLog = 4
    MaxReorgs = 1
    MaxOpens = 1
CONSTRAINT Scenario
INVARIANTS
    TypeOK
    DecisionIsOwn
PROPERTIES
    RestoredVotesCount
    NoVerdictLost
CHECK_DEADLOCK FALSE
