SPECIFICATION Spec
CONSTANTS
    Member = {1, 2}
    RuleM = 2
    Proposal = {1, 2, 3}
    Minter <- MCMinter
    SelfCosign = {1, 2}
    Voters <- Everyone
    HashLess <- NamesThenId
CONSTRAINT
    FourBlocks
INVARIANTS
    CardsMatchChain
    ExchangeSettles
