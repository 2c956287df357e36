SPECIFICATION Spec
CONSTANTS
    v1 = v1
    v2 = v2
    v3 = v3
    BatchSize = 2
    GenesisHeight = 0
    MinCertifyHeight = 1
    GenesisUpdate <- TwoGenesis
    Updates <- TwoUpdates
    MaxHeight = 4
INVARIANTS
    VotesExact
    VotesDependOnChainOnly
    CertificateChainUnbroken
    MaximalPrevotesExact
CHECK_DEADLOCK FALSE
