SPECIFICATION Spec
CONSTANTS
    Block <- Tree
    Genesis <- MCGenesis
    Generated <- Own
    TwoRounds = 3
    QueueBound = 1
    PeersRunOut = TRUE
    Stops = TRUE
    Crashes = TRUE
INVARIANTS
    TypeOK
    ApplicationFollowsEngine
PROPERTIES
    FinalizedKept
    ImplementsFinalizedChain
CHECK_DEADLOCK FALSE
