SPECIFICATION Spec
CONSTANTS
    v1 = v1
    v2 = v2
    v3 = v3
    BatchSize = 1
    GenesisHeight = 0
    MinCertifyHeight = 1
    GenesisUpdate <- OneGenesis
    Updates <- OneUpdates
    MaxHeight = 5
INVARIANTS
    DeletedParametersNotNeeded
    VotesExact
PROPERTIES
    HeightsNeverDecrease
CHECK_DEADLOCK FALSE
