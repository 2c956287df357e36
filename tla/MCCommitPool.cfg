CONSTANTS
    self = self  honest = honest
    p1 = p1
    OwnValidators = {self}
    PlainKeys = {self}
    Faulty = {}
    Peers = {p1}
    Parameters <- ChangeTwice
    MinCertifyHeight = 1
    CommitRangeStored = 0
    MaxHeight = 4
    MaxEvents = 1
    MaxMessages = 1
SPECIFICATION Spec
INVARIANTS
    SelectedVerifies
    OwnCommitsPresent
PROPERTIES
    NextCertificateServed
CHECK_DEADLOCK FALSE
