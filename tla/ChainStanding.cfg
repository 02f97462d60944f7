SPECIFICATION Spec
CONSTANTS
    Member = {1, 2}
    RuleM = 2
    Proposal = {1, 2}
    Minter <- MCMinter
    SelfCosign = {1, 2}
    Voters <- Everyone
    HashLess <- NamesThenId
INVARIANTS
    StandingApprovalsSigned
