CONSTANTS
    f = f  s = s  a = a
    Peers = {f, s, a}
    Ip <- OwnAddress
    FixedPeers = {f}
    SeedPeers = {s}
    WhitelistedPeers = {}
    NewBucketSize = 1
    TriedBucketSize = 3
    MaxReconnectTries = 2
    MaxOutbound = 2
    MaxInbound = 1
    NetgroupProtection = 0
    LatencyProtection = 0
    ProductivityProtection = 0
    LongevityProtection = 500
    MaxBans = 1
SPECIFICATION FairSpec
INVARIANTS
    BookExact
    ConnectionsBounded
PROPERTIES
    FixedReconnected
