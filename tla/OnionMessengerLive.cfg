CONSTANTS
    Peers = {p1}
    OnionPeers = {p1}
    NoPeer = NoPeer
    MayRefuse = TRUE
    FirstHops = {p1}
    MaxAttempts = 2
    MaxChanges = 1
    MaxDrops = 1
    MaxEvents = 1
SPECIFICATION FairSpec
CHECK_DEADLOCK FALSE
PROPERTIES
    MessageIsRelayed
    ShutdownEnds
