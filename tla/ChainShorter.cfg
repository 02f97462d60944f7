SPECIFICATION Spec
CONSTANTS
    Member = {1, 2}
    RuleM = 1
    Proposal = {1, 2, 3}
    Minter <- MCMinter
    SelfCosign = {2}
    Voters <- Others
    HashLess <- NamesThenId
CONSTRAINT
    FourBlocks
INVARIANTS
    TypeOK
    CardsMatchChain
    NoFrozenVote
    OwnVotesKeepTheirCard
    ExchangeSettles
PROPERTIES
    ImplementsThresholdLog
