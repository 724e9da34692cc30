CONSTANTS
    Peers = {p1}
    OnionPeers = {p1}
    NoPeer = NoPeer
    MayRefuse = FALSE
    FirstHops = {}
    MaxAttempts = 1
    MaxChanges = 1
    MaxDrops = 0
    MaxEvents = 1
SPECIFICATION Spec
CHECK_DEADLOCK FALSE
INVARIANTS
    NoEventMissed
