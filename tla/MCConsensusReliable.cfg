SPECIFICATION FairSpec
CONSTANTS
    Block <- NoFinality
    Genesis <- MCGenesis
    Generated <- Own
    TwoRounds = 3
    QueueBound = 1
    PeersRunOut = FALSE
    Stops = TRUE
    Crashes = FALSE
INVARIANTS
    BackupSound
PROPERTIES
    TipNeverWorse
    StopHangsOnlyInDeletion
CHECK_DEADLOCK FALSE
