CONSTANTS
    Peers = {p1}
    OnionPeers = {p1}
    NoPeer = NoPeer
    MayRefuse = TRUE
    FirstHops = {}
    MaxAttempts = 1
    MaxChanges = 0
    MaxDrops = 0
    MaxEvents = 0
SPECIFICATION FairSpec
CHECK_DEADLOCK FALSE
PROPERTIES
    ProducerExitFinishes
