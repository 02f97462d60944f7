SPECIFICATION Spec
CONSTANTS
    Member = {1, 2, 3}
    RuleM = 1
    Proposal = {1, 2}
    Minter <- MCMinter
    SelfCosign = {1, 2, 3}
    Voters <- Others
    HashLess <- NamesThenId
INVARIANTS
    ForgottenCardCanReturn
