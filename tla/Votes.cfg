SPECIFICATION Spec
CONSTANTS
    Member = {1, 2, 3}
    Minter = 1
    RuleM = 2
    MaxVotes = 3
    MaxServes = 1
    MaxHead <- OneHeadMoves
CONSTRAINT Scenario
INVARIANTS
    TypeOK
    MajorityIsUsed
    NewestStanceKept
    WithdrawalEndsTheVote
PROPERTIES
    SealedOnStandingVotes
    SignsOnlyItsDecision
CHECK_DEADLOCK FALSE
